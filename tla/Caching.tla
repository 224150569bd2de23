------------------------------- MODULE Caching -------------------------------
(***************************************************************************)
(* Lookup with a history variable: who still holds a list that a session   *)
(* of protection or a recovery has left behind.  CheckChange knows lists by*)
(* three values only.  A later session or recovery may give them again;    *)
(* short of that they must tell any two lists apart.                       *)
(***************************************************************************)
EXTENDS Lookup

ASSUME CachingAssumption == MaxVersion \in Nat /\ Caller \cap {"value", "building"} = {}

VARIABLE outlived  \* holders of a list whose session or recovery is over

cachingVars == <<lookupVars, outlived>>

(* Lists are held by the cache, by the build in the background and by      *)
(* requests.                                                               *)
Holder == {"value", "building"} \cup Caller

Held(h) == CASE h = "value" -> value
             [] h = "building" -> building
             [] OTHER -> list[h]

(* Run modes of the lists that sessions and recoveries make.               *)
Transient == {"selfProtection", "panic", "recover"}

IsTransient(l) == l # NoBuild /\ l.runMode \in Transient

SessionEnds == status # "normal" /\ status' = "normal"
RecoveryEnds == recoveries' # recoveries

(* The list is one of the session or of the recovery that ends.            *)
LeftBehind(l) ==
    /\ IsTransient(l)
    /\ IF l.runMode = "recover" THEN RecoveryEnds ELSE SessionEnds

(* Of these holders, those that hold such a list after the step.           *)
Marks(holders) == outlived' = {h \in holders : IsTransient(Held(h))'}

(* One holder's list is passed on to another.                              *)
PassOn(from, to) ==
    Marks(IF from \in outlived THEN outlived \cup {to} ELSE outlived \ {to})

CachingInit == Init /\ outlived = {}

CachingNext ==
    \/ /\ Discover \/ SetRecover
       /\ Marks(outlived \cup {h \in Holder : LeftBehind(Held(h))})
    \/ Built /\ PassOn("building", "value")
    \/ BuiltFails /\ Marks(outlived)
    \/ \E c \in Caller :
          \/ /\ \/ FindCheck(c) \/ CreateCheck(c) \/ WatchFails(c)
                \/ Compare(c) \/ AlreadyUpdated(c) \/ UpdateFails(c)
             /\ Marks(outlived)
          \/ (ReadRecovery(c) \/ ReadServed(c)) /\ Marks(outlived \ {c})
          \/ UpdateNow(c) /\ PassOn(c, "value")
          \/ UpdateLater(c) /\ IF isUpdate THEN Marks(outlived) ELSE PassOn(c, "building")

CachingSpec == CachingInit /\ [][CachingNext]_cachingVars

FairCachingSpec == CachingSpec /\ Fairness

-----------------------------------------------------------------------------
(* Properties                                                              *)

(* A request that finds the three values of its list in the cache, under   *)
(* either lock of GetValue, finds the balancer of that very list there,    *)
(* whoever stored it, at once or from the background; and as it is given   *)
(* this balancer or one that it has built itself, a synchronous request is *)
(* answered from its own list.  Excepted are lists of a session or of a    *)
(* recovery that has ended, for later ones give the three values again,    *)
(* and those whose version has reached the bound.                          *)
HitIsOwnList ==
    \A c \in Caller :
        /\ pc[c] \in {"compare", "update"}
        /\ ~Changed(list[c])
        /\ {c, "value"} \cap outlived = {}
        /\ value.version < MaxVersion
        => value = list[c]

=============================================================================
