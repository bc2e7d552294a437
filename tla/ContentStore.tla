---------------------------- MODULE ContentStore ----------------------------
(***************************************************************************)
(* SignalAttice's content-addressed store (tracking/cas.py) as far as its  *)
(* users can tell: under each digest there is at most one object, a        *)
(* generation (an inode with its times), with a number of hard links.      *)
(* Publication links a staged copy into place and then removes the staging *)
(* name, so that for a moment the object has two links; an advisory lock   *)
(* keeps cooperating readers out meanwhile.  Nobody reads an object with   *)
(* other than one link.  Deletion takes no lock: it compares an object,    *)
(* and then unlinks whatever has its name.                                 *)
(***************************************************************************)
EXTENDS Integers, FiniteSets

CONSTANTS Digests,      \* contents, by their digest
          Publishers,   \* processes that publish
          MaxGen,       \* bound: generations of one digest
          None          \* no publication under way

VARIABLES file,   \* file[d]: its generation, links, and whether past the grace period
          pub     \* pub[p]: the publication process p is in

storeVars == <<file, pub>>

Phases == {"staged", "linked", "unstaged", "checked"}
Objects == [gen : 0..MaxGen, links : 0..2, aged : BOOLEAN]
Publications == [digest : Digests, phase : Phases]

ASSUME MaxGenAssumption == MaxGen \in Nat

ASSUME NoPublicationAssumption == None \notin Publications

-----------------------------------------------------------------------------
Phase(p, phase) == pub[p] # None /\ pub[p].phase = phase

\* The publication lock is held from linking to the removal of the staging name.
LockFree == \A p \in Publishers : ~Phase(p, "linked")

\* verify, inspect: the shared lock is had and the object has exactly one link.
Verified(d) == LockFree /\ file[d].links = 1

\* verify_absent
Absent(d) == file[d].links = 0

StoreInit ==
    /\ file = [d \in Digests |-> [gen |-> 0, links |-> 0, aged |-> FALSE]]
    /\ pub = [p \in Publishers |-> None]

\* publish: copy and hash into a private staging file.
StageCopy(p, d) ==
    /\ pub[p] = None
    /\ pub' = [pub EXCEPT ![p] = [digest |-> d, phase |-> "staged"]]
    /\ UNCHANGED file

\* publish: take the lock and link the staged file under its digest, ...
LinkStaged(p) ==
    /\ Phase(p, "staged")
    /\ LockFree
    /\ LET d == pub[p].digest
       IN  /\ Absent(d)
           /\ file[d].gen < MaxGen
           /\ file' = [file EXCEPT ![d] = [gen |-> @.gen + 1, links |-> 2, aged |-> FALSE]]
    /\ pub' = [pub EXCEPT ![p].phase = "linked"]

\* ... or reuse the object that is there, which must have one link.
ReuseObject(p) ==
    /\ Phase(p, "staged")
    /\ Verified(pub[p].digest)
    /\ pub' = [pub EXCEPT ![p].phase = "unstaged"]
    /\ UNCHANGED file

\* publish: remove the staging name, release the lock.  The name it linked may
\* have been unlinked meanwhile.
RemoveStaging(p) ==
    /\ Phase(p, "linked")
    /\ file' = [file EXCEPT ![pub[p].digest].links = IF @ = 2 THEN 1 ELSE @]
    /\ pub' = [pub EXCEPT ![p].phase = "unstaged"]

\* publish hashes the object again before it returns, and registration before its
\* transaction: the later check says all that the earlier one says.
VerifyPublished(p) ==
    /\ Phase(p, "unstaged")
    /\ Verified(pub[p].digest)
    /\ pub' = [pub EXCEPT ![p].phase = "checked"]
    /\ UNCHANGED file

\* A publisher is killed, or raises: a killed one leaves what it linked and frees
\* the lock; one that raises removes its staging name first (RemoveStaging).
PublisherStops(p) ==
    /\ pub[p] # None
    /\ pub' = [pub EXCEPT ![p] = None]
    /\ UNCHANGED file

\* The grace period of a generation passes.
AgeObject(d) ==
    /\ file[d].links = 1 /\ ~file[d].aged
    /\ file' = [file EXCEPT ![d].aged = TRUE]
    /\ UNCHANGED pub

\* unlink_verified opens and hashes the object, compares its generation, and looks
\* a last time whether the name is still that object's.
CompareVerified(d, gen) == file[d].links = 1 /\ file[d].gen = gen

\* Then it unlinks the name, whose object may be another one by now; that the one
\* compared has no link left is true then, too.
UnlinkNamed(d) ==
    /\ ~Absent(d)
    /\ file' = [file EXCEPT ![d] = [gen |-> @.gen, links |-> 0, aged |-> FALSE]]

StoreNext ==
    \/ \E p \in Publishers :
          \/ \E d \in Digests : StageCopy(p, d)
          \/ LinkStaged(p) \/ ReuseObject(p) \/ RemoveStaging(p)
          \/ VerifyPublished(p) \/ PublisherStops(p)
    \/ \E d \in Digests : AgeObject(d)

StoreTypeOK ==
    /\ file \in [Digests -> Objects]
    /\ pub \in [Publishers -> Publications \cup {None}]
=============================================================================
