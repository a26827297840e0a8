-------------------------- MODULE StablePagesProofs --------------------------
(***************************************************************************)
(* What a client may rely on follows from the stable pages: whatever       *)
(* storage reads its pages as StablePages does returns each steady         *)
(* resource exactly once.                                                  *)
(***************************************************************************)
EXTENDS StablePages, TLAPS

\* A steady resource was seen once if its place was gone over, and not at all
\* otherwise; when no page remains, the places of all were.
SeenAsPassed ==
    /\ steady \subseteq Stored
    /\ \A r \in steady : seen[r] = IF place[r] \in passed THEN 1 ELSE 0
    /\ ~more => \A r \in steady : place[r] \in passed
    /\ place \in [Resources -> Places \cup {Absent}]
    /\ seen \in [Resources -> Nat]
    /\ more \in BOOLEAN

\* The first page sees the resources at the places it goes over.
LEMMA FirstPageSeen == Init => SeenAsPassed
  BY DEF Init, SeenAsPassed, Stored, AllPassed

\* Every step of the paging, and every change, keeps what was seen in line with
\* the places gone over.
LEMMA StepsSeen == SeenAsPassed /\ [Next]_pagesVars => SeenAsPassed'
<1> SUFFICES ASSUME SeenAsPassed, [Next]_pagesVars
             PROVE  SeenAsPassed'
    OBVIOUS
<1> USE DEF SeenAsPassed, Stored
<1>1. CASE ReadPage
    BY <1>1 DEF ReadPage, AllPassed
<1>2. CASE Restart
    BY <1>2 DEF Restart, AllPassed
<1>3. ASSUME NEW r \in Resources, Change(r)
      PROVE  SeenAsPassed'
    BY <1>3 DEF Change
<1>4. CASE UNCHANGED pagesVars
    BY <1>4 DEF pagesVars
<1> QED BY <1>1, <1>2, <1>3, <1>4 DEF Next

\* Stable pages return each resource that stayed where it was exactly once, as
\* the documentation of ScimStorage.search promises.
THEOREM StablePagesSeeOnce == Spec => []SeenExactlyOnce
<1>1. SeenAsPassed => SeenExactlyOnce
    BY DEF SeenAsPassed, SeenExactlyOnce, Stored
<1> QED BY <1>1, FirstPageSeen, StepsSeen, PTL DEF Spec
=============================================================================
