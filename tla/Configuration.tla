---------------------------- MODULE Configuration ----------------------------
(***************************************************************************)
(* The settings in force: LoadWithArgs of internal/config/config.go, which *)
(* lays hub.yml over the defaults, the environment over hub.yml and the    *)
(* command line over both, then checks the outcome; and the deadline that  *)
(* a command gets from it and from its request (timeoutFor and Exec).      *)
(*                                                                         *)
(* One setting of each kind stands for all that are treated like it: path  *)
(* for the database, rootfs and build directories, limit for the size of   *)
(* logged output, deleteRootfs for all switches, helper for all texts.     *)
(***************************************************************************)
EXTENDS Integers, Sequences

CONSTANTS
    Absent, Unreadable,   \* a source that says nothing (or is blank), or no value of its type
    Amounts,              \* the durations and sizes that are configured
    MaxDuration,          \* the greatest time.Duration: half of what an int64 can hold
    Millisecond           \* as a time.Duration

VARIABLES
    sources,    \* what each source says of each setting
    config,     \* what is in force, or NotLoaded
    timeoutMS,  \* of the last request
    deadline    \* its command's time.Duration, 0 before

configVars == <<sources, config, timeoutMS, deadline>>

NotLoaded == [state |-> "none"]

\* What paths are made of, one of each kind.
PathNames == {"/", "cwd1", "cwd2", "some", "configs", "data", "x"}

\* A path is a sequence that begins with "/" if it is absolute.
IsAbs(path) == path # <<>> /\ path[1] = "/"
Join(directory, path) == directory \o path
Cwd(s) == <<"/", s.cwd>>
AbsolutePath(s, path) == IF path = <<>> \/ IsAbs(path) THEN path ELSE Join(Cwd(s), path)

Loopback == {"127.0.0.1", "localhost", "::1"}
DefaultAddress == [host |-> "127.0.0.1", port |-> 8080]
DefaultTimeout == 30
DefaultLimit == 65536

(***************************************************************************)
(* What a source may say.  One kind of setting varies at a time.           *)
(***************************************************************************)

PathTexts == {<<"some">>, <<"/", "some">>}

\* Amounts are int64, as is the default; and what is not there is not a value.
ASSUME ConfigurationAssumption ==
    /\ MaxDuration \in Nat /\ MaxDuration >= DefaultTimeout /\ Millisecond \in Nat \ {0}
    /\ Amounts \subseteq -(MaxDuration + 1)..MaxDuration
    /\ Absent # Unreadable
    /\ \A no \in {Absent, Unreadable} : no \notin Seq(PathNames)

Addresses == [host : {"127.0.0.1", "0.0.0.0", ""}, port : {80}] \cup {Absent, Unreadable}
Numbers == {Absent, Unreadable} \cup Amounts
Switches == {Absent, Unreadable, TRUE, FALSE}

Silent ==
    [cwd |-> "cwd1", token |-> FALSE, engine |-> "auto",
     configRoot |-> [env |-> Absent, flag |-> Absent],
     path |-> [file |-> Absent, env |-> Absent, flag |-> Absent],
     timeout |-> [file |-> Absent, env |-> Absent], limit |-> [file |-> Absent, env |-> Absent],
     helper |-> [file |-> Absent, env |-> Absent], deleteRootfs |-> [file |-> Absent, env |-> Absent],
     bind |-> [env |-> Absent, host |-> Absent, port |-> Absent, flag |-> Absent]]

Roots == [env : PathTexts \cup {Absent}, flag : PathTexts \cup {Absent}]
Paths == [file : PathTexts \cup {Absent, <<>>}, env : PathTexts \cup {Absent}, flag : PathTexts \cup {Absent}]
Binds == [env : Addresses, host : {Absent, "127.0.0.1", "0.0.0.0"},
          port : {Absent, Unreadable, -1, 80, 65536}, flag : Addresses]
FileAndEnv(values) == [file : values, env : values]
Helpers == [file : {Absent, Unreadable, "", "helper"}, env : {Absent, "other"}]

WithPaths(c, r, p) == [Silent EXCEPT !.cwd = c, !.configRoot = r, !.path = p]
WithBind(b, t) == [Silent EXCEPT !.bind = b, !.token = t]
WithHelper(v, e) == [Silent EXCEPT !.helper = v, !.engine = e]

PathSources == {WithPaths(c, r, p) : c \in {"cwd1", "cwd2"}, r \in Roots, p \in Paths}
BindSources == {WithBind(b, t) : b \in Binds, t \in BOOLEAN}
TimeoutSources == {[Silent EXCEPT !.timeout = v] : v \in FileAndEnv(Numbers)}
LimitSources == {[Silent EXCEPT !.limit = v] : v \in FileAndEnv(Numbers)}
SwitchSources == {[Silent EXCEPT !.deleteRootfs = v] : v \in FileAndEnv(Switches)}
HelperSources == {WithHelper(v, e) : v \in Helpers, e \in {"auto", "local"}}

Sources == PathSources \cup BindSources \cup TimeoutSources \cup LimitSources \cup SwitchSources \cup HelperSources

(***************************************************************************)
(* Load                                                                    *)
(***************************************************************************)

\* applyHubFileConfig: a value that hub.yml has is taken.
FromFile(value, default) == IF value = Absent THEN default ELSE value

\* getEnv, getEnvDuration, getEnvBool and getEnvInt: what cannot be read is left out.
FromEnv(value, fallback) == IF value \in {Absent, Unreadable} THEN fallback ELSE value

FromFlag(value, fallback) == IF value = Absent THEN fallback ELSE value

Layered(setting, default) == FromEnv(setting.env, FromFile(setting.file, default))

ConfigRoot(s) ==
    LET root == FromEnv(s.configRoot.env, Join(Cwd(s), <<"configs">>))
    IN  AbsolutePath(s, IF s.configRoot.flag = Absent THEN root ELSE Join(s.configRoot.flag, <<"configs">>))

\* A relative path of hub.yml starts from the directory of hub.yml.
ResolveHubPath(s, path) == IF path \in {Absent, <<>>} \/ IsAbs(path) THEN path ELSE Join(ConfigRoot(s), path)

PathInForce(s) ==
    LET layered == Layered([s.path EXCEPT !.file = ResolveHubPath(s, @)], Join(Cwd(s), <<"data", "x">>))
    IN  AbsolutePath(s, IF s.path.flag = Absent THEN layered ELSE Join(s.path.flag, <<"x">>))

\* BIND_ADDR, or else SERVER_HOST and SERVER_PORT over the default.
EnvAddress(s) ==
    IF s.bind.env # Absent THEN s.bind.env
    ELSE [host |-> FromEnv(s.bind.host, DefaultAddress.host), port |-> FromEnv(s.bind.port, DefaultAddress.port)]

\* SERVER_PORT is looked at even if --bind-addr will replace it.
PortAcceptable(s) ==
    s.bind.env = Absent /\ s.bind.port # Absent => s.bind.port # Unreadable /\ s.bind.port \in 0..65535

BindAddress(s) == FromFlag(s.bind.flag, EnvAddress(s))

\* Mutant: the address is checked before the command line is looked at.
AddressToCheckBeforeFlags(s) == EnvAddress(s)

AddressToCheck(s) == BindAddress(s)

Settings(s) ==
    [state |-> "loaded", configRoot |-> ConfigRoot(s), path |-> PathInForce(s), bind |-> BindAddress(s),
     timeout |-> Layered(s.timeout, DefaultTimeout), limit |-> Layered(s.limit, DefaultLimit),
     helper |-> Layered(s.helper, "network-policy-helper"), deleteRootfs |-> Layered(s.deleteRootfs, TRUE)]

\* hub.yml must be readable as a whole.
HubFileReadable(s) ==
    Unreadable \notin {s.path.file, s.timeout.file, s.limit.file, s.helper.file, s.deleteRootfs.file}

Validate(s) ==
    LET address == AddressToCheck(s)
        settings == Settings(s)
    IN  /\ s.engine # "local"
        /\ address # Unreadable
        /\ address.host \in Loopback \/ s.token
        /\ settings.path # <<>>
        /\ settings.limit >= 0
        /\ settings.helper # ""

Load ==
    /\ config = NotLoaded
    /\ sources' \in Sources
    /\ HubFileReadable(sources') /\ PortAcceptable(sources') /\ Validate(sources')
    /\ config' = Settings(sources')
    /\ UNCHANGED <<timeoutMS, deadline>>

(***************************************************************************)
(* The deadline of a command.                                              *)
(***************************************************************************)

\* int64 arithmetic
Wrapped(n) == ((n + MaxDuration + 1) % (2 * (MaxDuration + 1))) - (MaxDuration + 1)

TimeoutFor(ms, fallback) == IF ms <= 0 THEN fallback ELSE Wrapped(ms * Millisecond)

\* Exec's own guard.
ExecTimeout(timeout) == IF timeout <= 0 THEN DefaultTimeout ELSE timeout

Execute ==
    /\ config # NotLoaded /\ deadline = 0
    /\ timeoutMS' \in -1..MaxDuration
    /\ deadline' = ExecTimeout(TimeoutFor(timeoutMS', config.timeout))
    /\ UNCHANGED <<sources, config>>

Exit ==
    /\ config # NotLoaded
    /\ sources' = Silent /\ config' = NotLoaded /\ timeoutMS' = 0 /\ deadline' = 0

ConfigInit == sources = Silent /\ config = NotLoaded /\ timeoutMS = 0 /\ deadline = 0

ConfigNext == Load \/ Execute \/ Exit

ConfigSpec == ConfigInit /\ [][ConfigNext]_configVars

(***************************************************************************)
(* Properties                                                              *)
(***************************************************************************)

\* The last of the sources that says something, or the default.
LastWord(values, default) ==
    LET said == {i \in DOMAIN values : values[i] \notin {Absent, Unreadable}}
    IN  IF said = {} THEN default ELSE values[CHOOSE i \in said : \A j \in said : j <= i]

\* The hub listens beyond the loopback only with a token, whichever of the sources
\* set the address.
RemoteNeedsToken == config.bind # Unreadable /\ (config.bind.host \in Loopback \/ sources.token)

\* Every path is absolute; it depends on the working directory only through a source
\* that is relative to it, and never if hub.yml has it and its own place is absolute.
PathsAnchored ==
    LET root == LastWord(<<sources.configRoot.env, sources.configRoot.flag>>, <<>>)
        winner == LastWord(<<sources.path.file, sources.path.env, sources.path.flag>>, <<>>)
        ofFile == sources.path.env = Absent /\ sources.path.flag = Absent /\ sources.path.file # Absent
    IN  /\ IsAbs(config.path) /\ IsAbs(config.configRoot)
        /\ config.path[2] = sources.cwd => ~IsAbs(winner) /\ (ofFile => ~IsAbs(root))

\* README.md:198-203: defaults, then hub.yml, the environment, the command line.
LastWordWins ==
    /\ config.timeout = LastWord(<<sources.timeout.file, sources.timeout.env>>, DefaultTimeout)
    /\ config.limit = LastWord(<<sources.limit.file, sources.limit.env>>, DefaultLimit)
    /\ config.helper = LastWord(<<sources.helper.file, sources.helper.env>>, "network-policy-helper")
    /\ config.deleteRootfs = LastWord(<<sources.deleteRootfs.file, sources.deleteRootfs.env>>, TRUE)
    /\ LastWord(<<sources.bind.env, sources.bind.flag>>, config.bind) = config.bind

\* A command has a deadline whatever was configured and asked for, and the one asked
\* for if a Duration can hold it.
CommandsBounded ==
    deadline = 0 \/ /\ deadline \in 1..MaxDuration
                    /\ timeoutMS > 0 /\ timeoutMS * Millisecond <= MaxDuration =>
                          deadline = timeoutMS * Millisecond
                    /\ timeoutMS <= 0 /\ config.timeout > 0 => deadline = config.timeout

\* What the hub accepts and runs with is sound.
ConfigurationSound ==
    config # NotLoaded => RemoteNeedsToken /\ PathsAnchored /\ LastWordWins /\ CommandsBounded
===============================================================================
