----------------------------- MODULE MCCatalogue -----------------------------
(***************************************************************************)
(* Instances, for TLC, of the components that stand by themselves: what    *)
(* the hub lists (EnvironmentStore, ImageReconcile, SessionListing), what  *)
(* it asks of the engine (CommandStream, NetworkPolicy, ExecCommand,       *)
(* ImageAvailability, SessionMounts) and what it starts with               *)
(* (Configuration).  SessionService and BuildService, which use most of    *)
(* them, have each such call as a step with its outcomes; here is how the  *)
(* outcomes come about.  They share no state: so one run explores them     *)
(* all, one at a time, while the others stay in their initial states.      *)
(***************************************************************************)
EXTENDS EnvironmentStore, ImageReconcile, SessionListing, CommandStream, NetworkPolicy, ExecCommand,
        ImageAvailability, SessionMounts, Configuration, TLC

VARIABLE moving   \* the component that is explored

allVars == <<moving, storeVars, vars, listingVars, streamVars, policyVars, execVars,
             availabilityVars, mountVars, configVars>>

CatalogueInit ==
    /\ moving \in {"store", "images", "listing", "stream", "policy", "exec", "availability", "mounts", "config"}
    /\ StoreInit /\ Init /\ ListingInit
    /\ StreamInit /\ PolicyInit /\ ExecInit /\ AvailabilityInit /\ MountsInit /\ ConfigInit

listVars == <<storeVars, vars, listingVars>>
engineVars == <<streamVars, policyVars, execVars, availabilityVars, mountVars>>

ListsNext ==
    /\ \/ moving = "store" /\ StoreNext /\ UNCHANGED <<vars, listingVars>>
       \/ moving = "images" /\ Next /\ UNCHANGED <<storeVars, listingVars>>
       \/ moving = "listing" /\ ListingNext /\ UNCHANGED <<storeVars, vars>>
    /\ UNCHANGED <<moving, engineVars, configVars>>

EngineNext ==
    /\ \/ moving = "stream" /\ StreamNext /\ UNCHANGED <<policyVars, execVars, availabilityVars, mountVars>>
       \/ moving = "policy" /\ PolicyNext /\ UNCHANGED <<streamVars, execVars, availabilityVars, mountVars>>
       \/ moving = "exec" /\ ExecNext /\ UNCHANGED <<streamVars, policyVars, availabilityVars, mountVars>>
       \/ moving = "availability" /\ AvailabilityNext /\ UNCHANGED <<streamVars, policyVars, execVars, mountVars>>
       \/ moving = "mounts" /\ MountsNext /\ UNCHANGED <<streamVars, policyVars, execVars, availabilityVars>>
    /\ UNCHANGED <<moving, listVars, configVars>>

StartNext == moving = "config" /\ ConfigNext /\ UNCHANGED <<moving, listVars, engineVars>>

CatalogueNext == ListsNext \/ EngineNext \/ StartNext

CatalogueSpec == CatalogueInit /\ [][CatalogueNext]_allVars

\* Every variable of these components has its type (NetworkPolicy, SessionMounts and
\* Configuration compute: their variables hold what the inputs and operators give).
CatalogueTypeOK == TypeOK /\ StreamTypeOK /\ AvailabilityTypeOK /\ ExecTypeOK

\* The workspace and paths in it, one of them written with a ".", the chat, and what
\* only looks like another place.
MCRawPath ==
    {<<"workspace">>, <<"workspace", ".">>, <<"workspace", "a">>, <<"workspace", "a", "b">>,
     <<"chat">>, <<"x", "..", "chat">>}

\* None, too little, and some.
MCAmounts == {-1, 0, 5}

\* Job and session IDs, times and versions have an order, and so has what is
\* written to a pipe; all else is interchangeable.
Symmetry == Permutations(Env) \cup Permutations(Handler) \cup Permutations(ImageRef)
=============================================================================
