-------------------------------- MODULE Served --------------------------------
(***************************************************************************)
(* What a reader of one degrade object may see, whatever happens inside:   *)
(* the abstract specification of status, latestAdapterList and applyList,  *)
(* which Degrade implements as long as updates come one at a time and no   *)
(* options switch protection off.  Readers compare lists by three values,  *)
(* so what matters is how those values move.                               *)
(***************************************************************************)
EXTENDS Integers

CONSTANTS
    Services,     \* contents of a list; the empty one is {}
    Version,      \* versions in use
    MaxVersion    \* bound: versions given by health checks stop growing here

ASSUME ServedAssumption == {} \in Services /\ Version \subseteq Nat /\ 0 \in Version

VARIABLES
    status,             \* d.status
    latestAdapterList,  \* d.latestAdapterList
    applyList           \* d.applyList

servedVars == <<status, latestAdapterList, applyList>>

List(watchVersion, version, mode, services) ==
    [watchVersion |-> watchVersion, version |-> version, runMode |-> mode,
     services |-> services]
NoList == List(0, 0, "unset", {})

(* The three values a reader compares.                                     *)
Key(list) == <<list.watchVersion, list.version, list.runMode>>

ServedInit ==
    /\ status = "normal"
    /\ latestAdapterList = NoList
    /\ applyList \in {NoList} \cup {List(0, 0, "init", s) : s \in Services}

(* The adapter reports: each report has a later version.                   *)
Deliver ==
    /\ latestAdapterList' \in {List(1, v, "unset", s) : v \in Version, s \in Services}
    /\ latestAdapterList'.version > latestAdapterList.version
    /\ UNCHANGED <<status, applyList>>

Adopt ==
    /\ latestAdapterList # NoList
    /\ applyList' = latestAdapterList
    /\ status' = "normal"
    /\ UNCHANGED latestAdapterList

(* Only a reported list that is not served yet makes the object protect    *)
(* itself.                                                                 *)
Protect ==
    /\ status = "normal"
    /\ latestAdapterList \notin {NoList, applyList}
    /\ status' = "selfProtection"
    /\ UNCHANGED <<latestAdapterList, applyList>>

(* A session's first list may reuse the version it started from, under     *)
(* another mode; each later one has a later version.                       *)
Follows(version) ==
    \/ version > applyList.version
    \/ version = applyList.version /\ applyList.runMode \in {"unset", "init"}
    \/ version = applyList.version /\ version >= MaxVersion

ServeHealthy ==
    /\ status = "selfProtection"
    /\ \E v \in Version, s \in Services :
          /\ Follows(v)
          /\ applyList' = List(applyList.watchVersion, v, "selfProtection", s)
    /\ UNCHANGED <<status, latestAdapterList>>

(* Panic serves one list throughout a session, under the version it finds. *)
Panic ==
    /\ status = "selfProtection"
    /\ status' = "panic"
    /\ \E s \in Services :
          /\ applyList.runMode = "panic" => s = applyList.services
          /\ applyList' = [applyList EXCEPT !.runMode = "panic", !.services = s]
    /\ UNCHANGED latestAdapterList

Recover ==
    /\ status = "panic"
    /\ status' = "selfProtection"
    /\ UNCHANGED <<latestAdapterList, applyList>>

ServedNext == Deliver \/ Adopt \/ Protect \/ ServeHealthy \/ Panic \/ Recover

ServedSpec == ServedInit /\ [][ServedNext]_servedVars

-----------------------------------------------------------------------------

ServedLists ==
    [watchVersion : {0, 1}, version : Version,
     runMode : {"unset", "init", "selfProtection", "panic"}, services : Services]

(* Every variable holds what the Go variable it stands for can hold.       *)
ServedTypeOK ==
    /\ status \in {"normal", "selfProtection", "panic"}
    /\ latestAdapterList \in ServedLists
    /\ applyList \in ServedLists

=============================================================================
