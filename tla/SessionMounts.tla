---------------------------- MODULE SessionMounts ----------------------------
(***************************************************************************)
(* The mounts of a session: internal/sandbox/session_mounts.go, which      *)
(* merges those of the environment, of the request and the hub's own       *)
(* workspace directory, and checks the masked paths and the layout of the  *)
(* dual-root-v2 protocol; then the order in which Create of                *)
(* internal/runtime/cli.go hands them to the engine.                       *)
(*                                                                         *)
(* Destinations arrive as texts, in which "." and ".." and doubled slashes *)
(* may hide what they name.  Only absolute ones below "/" are in the       *)
(* model: the engine refuses the others.  Sources are left out: one that   *)
(* is missing is one more way to refuse the request.                       *)
(***************************************************************************)
EXTENDS Naturals, Sequences, FiniteSets, SequencesExt, Selections

CONSTANTS
    RawPath,      \* absolute paths as they are written: sequences of what is between the slashes
    MaxPaths      \* bound of the paths in a request and its environment

VARIABLES
    mountStep,     \* "idle" or "decided"
    mountRequest,  \* mounts, masks, protocol, label and cwd of a request, and the environment's mounts
    created        \* what the engine is given, or Refused

mountVars == <<mountStep, mountRequest, created>>

Workspace == <<"workspace">>
Chat == <<"chat">>
DualRoot == "dual-root-v2"
Protocol == {"", DualRoot, "other"}

\* What a path written like that leads to, for the engine.
PlaceOf(raw) ==
    LET place[i \in 0..Len(raw)] ==
            IF i = 0 THEN <<>>
            ELSE IF raw[i] \in {"", "."} THEN place[i - 1]
            ELSE IF raw[i] = ".." THEN SubSeq(place[i - 1], 1, Len(place[i - 1]) - 1)
            ELSE Append(place[i - 1], raw[i])
    IN  place[Len(raw)]

\* All lead below "/".
ASSUME SessionMountsAssumption ==
    MaxPaths \in Nat /\ \A raw \in RawPath : raw \in Seq(STRING) /\ PlaceOf(raw) # <<>>

\* path.Clean: of an absolute path, the same.
Clean(raw) == PlaceOf(raw)

\* root is candidate, or a directory above it.
PathContains(root, candidate) == IsPrefix(root, candidate)

Cleaned(paths) == [i \in DOMAIN paths |-> Clean(paths[i])]
Distinct(paths) == \A i, j \in DOMAIN paths : paths[i] = paths[j] => i = j

(***************************************************************************)
(* The checks of SessionService.Create.                                    *)
(***************************************************************************)

Mount(of, destination) == [of |-> of, destination |-> destination]

Destinations(mounts) == {mounts[i].destination : i \in DOMAIN mounts}

\* The environment must leave the workspace alone; the request may bring its own,
\* in place of the hub's.
MountsAcceptable(r) ==
    LET ofEnvironment == Cleaned(r.environment)
        ofRequest == Cleaned(r.mounts)
    IN  /\ \A i \in DOMAIN ofEnvironment : ofEnvironment[i] # Workspace
        /\ Distinct(ofEnvironment \o ofRequest)

BuildSessionMounts(r) ==
    LET mounts(of, paths) == [i \in DOMAIN paths |-> Mount(of, Clean(paths[i]))]
        merged == mounts("environment", r.environment) \o mounts("request", r.mounts)
    IN  IF Workspace \in Destinations(mounts("request", r.mounts)) THEN merged
        ELSE Append(merged, Mount("hub", Workspace))

\* Masks need the protocol, named by the request or by a label, which must agree.
MaskProtocolAcceptable(r) ==
    LET protocol == IF r.protocol = "" THEN r.label ELSE r.protocol
    IN  \/ protocol = "" /\ r.masks = <<>>
        \/ protocol = DualRoot /\ r.label \in {"", protocol}

\* Mutant: only what lies below a mask counts.
OverlapsBelow(mask, destination) == PathContains(mask, destination)

Overlaps(mask, destination) == PathContains(mask, destination) \/ PathContains(destination, mask)

\* They lie below the workspace, and apart from every mount but the workspace.
MasksAcceptable(r) ==
    LET masks == Cleaned(r.masks)
        others == Destinations(BuildSessionMounts(r)) \ {Workspace}
    IN  /\ MaskProtocolAcceptable(r)
        /\ Distinct(masks)
        /\ \A i \in DOMAIN masks :
              /\ PathContains(Workspace, masks[i]) /\ masks[i] # Workspace
              /\ \A destination \in others : ~Overlaps(masks[i], destination)

\* Of the protocol in the request, not of one that only a label names; and over the
\* merged mounts, though README.md:299 asks both mounts of the request.
DualRootAcceptable(r) ==
    r.protocol = "" \/ /\ r.protocol = DualRoot
                       /\ Clean(r.cwd) = Workspace
                       /\ {Workspace, Chat} \subseteq Destinations(BuildSessionMounts(r))

(***************************************************************************)
(* The engine.                                                             *)
(***************************************************************************)

\* CLIProvider.Create: the workspace, the masks, the chat, and the rest.
CreateArguments(r) ==
    LET mounts == BuildSessionMounts(r)
        masks == [i \in DOMAIN r.masks |-> Mount("mask", Clean(r.masks[i]))]
        at(paths) == Selected(mounts, {mount \in Range(mounts) : mount.destination \in paths})
    IN  at({Workspace}) \o masks \o at({Chat}) \o at(Destinations(mounts) \ {Workspace, Chat})

Refused == <<>>

\* A request reaches the checks; what they let through reaches the engine.
CreateSession ==
    /\ mountStep = "idle" /\ mountStep' = "decided"
    /\ \E n \in 0..MaxPaths : \E paths \in [1..n -> RawPath], i \in 0..n : \E j \in i..n :
       \E protocol, label \in Protocol, cwd \in RawPath :
          mountRequest' = [environment |-> SubSeq(paths, 1, i), mounts |-> SubSeq(paths, i + 1, j),
                      masks |-> SubSeq(paths, j + 1, n), protocol |-> protocol, label |-> label, cwd |-> cwd]
    /\ created' = IF /\ MountsAcceptable(mountRequest') /\ MasksAcceptable(mountRequest')
                     /\ DualRootAcceptable(mountRequest')
                  THEN CreateArguments(mountRequest') ELSE Refused

NoMountRequest == [environment |-> <<>>, mounts |-> <<>>, masks |-> <<>>, protocol |-> "", label |-> "", cwd |-> Workspace]

NextSession == mountStep = "decided" /\ mountStep' = "idle" /\ mountRequest' = NoMountRequest /\ created' = Refused

MountsInit == mountStep = "idle" /\ mountRequest = NoMountRequest /\ created = Refused

MountsNext == CreateSession \/ NextSession

MountsSpec == MountsInit /\ [][MountsNext]_mountVars

(***************************************************************************)
(* Properties                                                              *)
(***************************************************************************)

\* Is one mount put on top of another?  An engine takes them as they come, or the
\* deeper destinations after the others.
After(i, j, deeperLater) ==
    LET depth(k) == Len(PlaceOf(created[k].destination))
    IN  IF deeperLater /\ depth(i) # depth(j) THEN depth(i) > depth(j) ELSE i > j

\* What the container finds at a path: the topmost of the mounts over it.
SeenAt(path, deeperLater) ==
    LET over == {i \in DOMAIN created : PathContains(PlaceOf(created[i].destination), path)}
    IN  {created[i] : i \in {k \in over : \A j \in over \ {k} : After(k, j, deeperLater)}}

\* What is created has one mount at each destination, whatever it was written like;
\* the workspace is the request's or else the hub's, never the environment's; and a
\* dual-root-v2 session sees a workspace, a chat, and both from its directory.
LayoutSound ==
    created # Refused =>
        /\ Cardinality({PlaceOf(destination) : destination \in Destinations(created)}) = Len(created)
        /\ \A deeperLater \in BOOLEAN :
              /\ SeenAt(Workspace, deeperLater) \in
                    {{Mount("hub", Workspace)}, {Mount("request", Workspace)}}
              /\ mountRequest.protocol = DualRoot =>
                    \E of \in {"environment", "request"} : SeenAt(Chat, deeperLater) = {Mount(of, Chat)}

\* In what is created a mask hides everything at and below it, for either order in
\* which an engine may mount: no mount shows, under the workspace, what a mask is to
\* keep out of it, and no mask hides what another mount brings.
MasksHide ==
    created # Refused =>
        \A deeperLater \in BOOLEAN :
            /\ \A i \in DOMAIN mountRequest.masks, raw \in RawPath :
                  PathContains(PlaceOf(mountRequest.masks[i]), PlaceOf(raw)) =>
                      \A seen \in SeenAt(PlaceOf(raw), deeperLater) : seen.of = "mask"
            /\ \A destination \in Destinations(created) :
                  \A seen \in SeenAt(PlaceOf(destination), deeperLater) :
                      seen.of = "mask" => Mount("mask", destination) \in Range(created)

\* So what a session sees at each place is what its request was accepted for.
MountsSound == LayoutSound /\ MasksHide
===============================================================================
