---------------------------- MODULE MCDriveScope ----------------------------
(* An instance of DriveScope for TLC: f2 is in f1, f3 is apart. *)
EXTENDS DriveScope, TLC

CONSTANTS f1, f2, f3, r1, r2

MCParent == (f1 :> None) @@ (f2 :> f1) @@ (f3 :> None)

\* The folder of r1 holds another one; r2 is free to be registered.
MCRoots == {(r1 :> f1) @@ (r2 :> None)}

\* Only handlers are interchangeable, because of MCParent and MCRoots.
Symmetry == Permutations(Handlers)

\* Whom a deletion of the Workspace met; of others only whether they met anyone.
Met(h) == IF job[h].kind = "drop" THEN met[h] ELSE Quiet(h)

\* Of a request that ended only what the properties read of it matters: it takes
\* no step again and no other request looks at it.  A request that was inside
\* stays so, as the history of links only grows, and one refused as outside is
\* judged by the folders it met, which move only beside it.
Kept(h) ==
  CASE at[h] = "served" -> <<"served", WasInside(h)>>
    [] at[h] = "outside" -> <<job[h].want, list[h], Met(h)>>
    [] job[h].kind = "add" -> <<"add", job[h].ref>>
    [] job[h].kind = "drop" -> <<"drop", Met(h)>>
    [] OTHER -> <<"over">>

\* Always true: it has TLC evaluate what the view does not keep before it writes
\* the state to disk.
Evaluated(h) == /\ Cardinality(met[h]) \in Nat /\ Cardinality(lent[h]) \in Nat
                /\ Cardinality(reach[h]) \in Nat

\* A request of the console copies no reference and is let through to nothing.
Locals(h) ==
  IF job[h].kind \in Agent
  THEN <<job[h], list[h], left[h], near[h], walk[h], through[h], made[h], Met(h),
         lent[h], reach[h], Evaluated(h)>>
  ELSE <<job[h], left[h], walk[h], Met(h), Evaluated(h)>>

View == <<google, db, [h \in Handlers |->
  IF at[h] \in Ended THEN Kept(h) ELSE <<at[h], Locals(h)>>]>>
=============================================================================
