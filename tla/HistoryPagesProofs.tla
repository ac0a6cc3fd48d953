-------------------------- MODULE HistoryPagesProofs --------------------------
(***************************************************************************)
(* Proofs about HistoryPages, for pages and days of any size.               *)
(***************************************************************************)
EXTENDS HistoryPages, FiniteSetTheorems, TLAPS

\* Of the orders listed when the read began, the pages so far have those on the
\* cursor's side of the list; a read that is done has them all.
PagesSoFar ==
  /\ pc = "reading" =>
       \A p \in 1 .. floor :
         (IF listing = "oldest" THEN p =< cursor ELSE p > book - cursor) => p \in got
  /\ CompleteRead

\* b - cursor is what the pages have not reached; were b the orders of the day, the
\* next page would repeat nothing.  It has repeated no more than b - floor so far.
FewRepeats ==
  IF reader = "domestic" /\ listing = "newest"
    THEN \E b \in floor .. book : /\ Cardinality(repeats) =< b - floor
                                  /\ \A p \in got : p > b - cursor
    ELSE /\ repeats = {}
         /\ listing = "oldest" => got \subseteq 1 .. cursor

-----------------------------------------------------------------------------
(* Pages. *)

\* A page has orders of the day, and ends at most PageSize entries on.
LEMMA PageBounds ==
  ASSUME TypeOK
  PROVE  /\ LastEntry \in cursor .. book
         /\ Entries \subseteq 1 .. book
<1>1. LastEntry \in cursor .. book
  BY PagesAssumption DEF TypeOK, LastEntry
<1> QED
  BY <1>1 DEF TypeOK, Entries

\* Listed newest first, a page has the orders after those handed out.
LEMMA NewestPage ==
  ASSUME TypeOK, listing = "newest", NEW p \in Entries
  PROVE  p > book - LastEntry /\ p =< book - cursor
<1>1. PICK k \in cursor + 1 .. LastEntry : p = book + 1 - k
  BY DEF Entries
<1>2. k \in Int /\ cursor + 1 =< k /\ k =< LastEntry
        /\ cursor \in Int /\ LastEntry \in Int /\ book \in Int
  BY <1>1, PageBounds DEF TypeOK
<1> QED
  BY <1>1, <1>2

\* The first state has its types.
LEMMA InitType == Init => TypeOK
BY PagesAssumption DEF Init, TypeOK, Readers

\* Every step keeps the types.
LEMMA NextType == ASSUME TypeOK, [Next]_vars PROVE TypeOK'
<1> USE PagesAssumption DEF TypeOK
<1>1. CASE Arrive
  BY <1>1 DEF Arrive
<1>2. ASSUME NEW r \in Readers, Begin(r) PROVE TypeOK'
  BY <1>2 DEF Begin
<1>3. ASSUME Append, UNCHANGED book
      PROVE  repeats' \subseteq got' /\ got' \subseteq 1 .. book'
  BY <1>3, PageBounds DEF Append
<1>4. CASE LastPage
  BY <1>3, <1>4, PageBounds DEF LastPage
<1>5. CASE NextPage
  BY <1>3, <1>5, PageBounds DEF NextPage, LimitReached
<1>6. CASE ReadFails
  BY <1>6 DEF ReadFails
<1>7. CASE UNCHANGED vars
  BY <1>7 DEF vars
<1> QED
  BY <1>1, <1>2, <1>4, <1>5, <1>6, <1>7 DEF Next

\* The cursor stays within the list, the pages within the limit, and what was
\* got within the day.
THEOREM TypeCorrect == Spec => []TypeOK
<1>1. TypeOK /\ [Next]_vars => TypeOK'
  BY NextType
<1> QED
  BY <1>1, InitType, PTL DEF Spec

-----------------------------------------------------------------------------
(* Completeness. *)

\* After a page, what is on the new cursor's side was got before or is on it.
LEMMA PageAdds ==
  ASSUME TypeOK, PagesSoFar, pc = "reading", Append, NEW p \in 1 .. floor,
         IF listing = "oldest" THEN p =< LastEntry ELSE p > book - LastEntry
  PROVE  p \in got'
<1>1. p \in got \/ p \in Entries
  <2>1. CASE listing = "oldest"
    BY <2>1, PageBounds DEF TypeOK, PagesSoFar, Entries
  <2>2. CASE listing # "oldest"
    <3>1. CASE p > book - cursor
      BY <2>2, <3>1 DEF PagesSoFar
    <3>2. CASE ~(p > book - cursor)
      <4>1. book + 1 - p \in cursor + 1 .. LastEntry /\ p = book + 1 - (book + 1 - p)
        BY <2>2, <3>2, PageBounds DEF TypeOK
      <4> QED
        BY <2>2, <4>1 DEF Entries
    <3> QED
      BY <3>1, <3>2
  <2> QED
    BY <2>1, <2>2
<1> QED
  BY <1>1 DEF Append

\* A page adds what the cursor moves over.
LEMMA NextPages == ASSUME TypeOK, PagesSoFar, [Next]_vars PROVE PagesSoFar'
<1> USE DEF TypeOK
<1>1. CASE Arrive
  BY <1>1 DEF Arrive, PagesSoFar, CompleteRead
<1>2. ASSUME NEW r \in Readers, Begin(r) PROVE PagesSoFar'
  BY <1>2 DEF Begin, PagesSoFar, CompleteRead
<1>3. CASE LastPage
  <2>1. ASSUME NEW p \in 1 .. floor PROVE p \in got'
    BY <1>3, PageAdds DEF LastPage
  <2> QED
    BY <1>3, <2>1 DEF LastPage, PagesSoFar, CompleteRead
<1>4. CASE NextPage
  <2>1. ASSUME NEW p \in 1 .. floor,
               IF listing = "oldest" THEN p =< LastEntry ELSE p > book - LastEntry
        PROVE  p \in got'
    BY <1>4, <2>1, PageAdds DEF NextPage
  <2> QED
    BY <1>4, <2>1 DEF NextPage, PagesSoFar, CompleteRead
<1>5. CASE ReadFails
  BY <1>5 DEF ReadFails, PagesSoFar, CompleteRead
<1>6. CASE UNCHANGED vars
  BY <1>6 DEF vars, PagesSoFar, CompleteRead
<1> QED
  BY <1>1, <1>2, <1>3, <1>4, <1>5, <1>6 DEF Next

\* Both hold in every reachable state.
LEMMA PagesHold == Spec => [](TypeOK /\ PagesSoFar)
<1>1. Init => PagesSoFar
  BY DEF Init, PagesSoFar, CompleteRead
<1>2. TypeOK /\ PagesSoFar /\ [Next]_vars => (TypeOK /\ PagesSoFar)'
  BY NextType, NextPages
<1> QED
  BY <1>1, <1>2, InitType, PTL DEF Spec

\* A read that succeeds misses no order that was listed when it began, whatever
\* arrives between its pages and in whichever order the broker lists.
THEOREM ReadIsComplete == Spec => []CompleteRead
<1>1. PagesSoFar => CompleteRead
  BY DEF PagesSoFar
<1> QED
  BY <1>1, PagesHold, PTL

-----------------------------------------------------------------------------
(* The read that the resolver takes it for. *)

\* The pages implement the one read of HistoryRead.
THEOREM ReadRefines == Spec => ImplementsRead
<1>1. Init => Read!ReadInit
  BY PagesAssumption DEF Init, Read!ReadInit
<1>2. TypeOK /\ PagesSoFar /\ (TypeOK /\ PagesSoFar)' /\ [Next]_vars
        => [Read!ReadNext]_(Read!readVars)
  <2> SUFFICES ASSUME TypeOK, TypeOK', PagesSoFar', [Next]_vars
               PROVE  [Read!ReadNext]_(Read!readVars)
    OBVIOUS
  <2>1. CASE Arrive
    BY <2>1 DEF Arrive, Read!ReadNext, Read!List
  <2>2. ASSUME NEW r \in Readers, Begin(r) PROVE Read!Ask
    BY <2>2 DEF Begin, Read!Ask
  <2>3. CASE LastPage
    <3>1. 1 .. floor \subseteq got' /\ got' \subseteq 1 .. book
      BY <2>3 DEF LastPage, PagesSoFar, CompleteRead, TypeOK
    <3> QED
      BY <2>3, <3>1 DEF LastPage, Read!ReadNext, Read!Succeed
  <2>4. CASE NextPage
    BY <2>4 DEF NextPage, Read!readVars
  <2>5. CASE ReadFails
    BY <2>5 DEF ReadFails, Read!ReadNext, Read!Fail
  <2>6. CASE UNCHANGED vars
    BY <2>6 DEF vars, Read!readVars
  <2> QED
    BY <2>1, <2>2, <2>3, <2>4, <2>5, <2>6 DEF Next, Read!ReadNext
<1> QED
  BY <1>1, <1>2, PagesHold, PTL DEF Spec, ImplementsRead, Read!ReadSpec

-----------------------------------------------------------------------------
(* Repeats. *)

\* The numbers from a to b, and the sets of them.
LEMMA Between ==
  ASSUME NEW a \in Int, NEW b \in Int, a =< b, NEW S, S \subseteq a + 1 .. b
  PROVE  IsFiniteSet(S) /\ Cardinality(S) \in Nat /\ Cardinality(S) =< b - a
<1>1. IsFiniteSet(a + 1 .. b) /\ Cardinality(a + 1 .. b) = IF a + 1 > b THEN 0 ELSE b - (a + 1) + 1
  BY FS_Interval
<1>2. IsFiniteSet(S) /\ Cardinality(S) =< Cardinality(a + 1 .. b)
  BY <1>1, FS_Subset
<1> QED
  BY <1>1, <1>2, FS_CardinalityType

\* How far a page brings b: by its length, to the end of the list at most.
Onward(b) == IF b + (LastEntry - cursor) < book THEN b + (LastEntry - cursor) ELSE book

\* A page repeats at most as many orders as it brings b on.
LEMMA PageRepeats ==
  ASSUME TypeOK, listing = "newest", NEW b \in floor .. book, \A p \in got : p > b - cursor,
         Cardinality(repeats) =< b - floor
  PROVE  Cardinality(repeats \union (got \intersect Entries)) =< Onward(b) - floor
<1> DEFINE again == got \intersect Entries
           below == IF book - LastEntry < b - cursor THEN b - cursor ELSE book - LastEntry
<1>1. /\ b \in Int /\ book \in Int /\ cursor \in Int /\ floor \in Int /\ LastEntry \in Int
      /\ b =< book /\ cursor =< LastEntry
  BY PageBounds DEF TypeOK
<1>2. again \subseteq below + 1 .. book - cursor
  <2>1. ASSUME NEW p \in again PROVE p \in Int /\ p > below /\ p =< book - cursor
    BY <1>1, <2>1, NewestPage DEF TypeOK
  <2> QED
    BY <1>1, <2>1
<1>3. /\ below \in Int /\ book - cursor \in Int /\ below =< book - cursor
      /\ (book - cursor) - below = Onward(b) - b
  BY <1>1 DEF Onward
<1>4. IsFiniteSet(again) /\ Cardinality(again) \in Nat /\ Cardinality(again) =< Onward(b) - b
  <2> HIDE DEF below, again
  <2> QED
    BY <1>2, <1>3, Between
<1>5. IsFiniteSet(repeats) /\ Cardinality(repeats) \in Nat
  <2>1. repeats \subseteq 1 .. book /\ IsFiniteSet(1 .. book)
    BY <1>1, FS_Interval DEF TypeOK
  <2> QED
    BY <2>1, FS_Subset, FS_CardinalityType
<1>6. /\ Cardinality(repeats \union again) =
           Cardinality(repeats) + Cardinality(again) - Cardinality(repeats \intersect again)
      /\ Cardinality(repeats \intersect again) \in Nat
  <2>1. IsFiniteSet(repeats \intersect again)
    BY <1>5, FS_Subset
  <2> QED
    BY <1>4, <1>5, <2>1, FS_Union, FS_CardinalityType
<1>7. Onward(b) \in Int
  BY <1>1 DEF Onward
<1> HIDE DEF again
<1>8. Cardinality(repeats \union again) =< Onward(b) - floor
  BY <1>1, <1>4, <1>5, <1>6, <1>7
<1> QED
  BY <1>8 DEF again

\* A page leaves FewRepeats true.
LEMMA PageFew ==
  ASSUME TypeOK, FewRepeats, Append, cursor' = LastEntry, UNCHANGED <<book, listing, reader, floor>>
  PROVE  FewRepeats'
<1> USE DEF TypeOK
<1>1. CASE reader = "domestic" /\ listing = "newest"
  <2>1. PICK b \in floor .. book : Cardinality(repeats) =< b - floor /\ \A p \in got : p > b - cursor
    BY <1>1 DEF FewRepeats
  <2>2. Cardinality(repeats') =< Onward(b) - floor
    BY <1>1, <2>1, PageRepeats DEF Append
  <2>3. /\ b \in Int /\ cursor \in Int /\ LastEntry \in Int /\ book \in Int /\ floor \in Int
        /\ floor =< b /\ b =< book /\ cursor =< LastEntry
    BY PageBounds
  <2>4. /\ Onward(b) \in floor .. book
        /\ Onward(b) - LastEntry =< b - cursor /\ Onward(b) - LastEntry =< book - LastEntry
    BY <2>3 DEF Onward
  <2>5. ASSUME NEW p \in got' PROVE p > Onward(b) - LastEntry
    <3>1. CASE p \in Entries
      <4>1. p > book - LastEntry /\ p \in Int
        BY <1>1, <3>1, NewestPage, PageBounds
      <4> QED
        BY <2>3, <2>4, <4>1
    <3>2. CASE p \in got
      <4>1. p > b - cursor /\ p \in Int
        BY <2>1, <3>2
      <4> QED
        BY <2>3, <2>4, <4>1
    <3> QED
      BY <2>5, <3>1, <3>2 DEF Append
  <2> QED
    BY <1>1, <2>2, <2>4, <2>5 DEF FewRepeats
<1>2. CASE ~(reader = "domestic" /\ listing = "newest")
  <2>1. repeats' = {}
    <3>1. CASE reader = "domestic"
      <4>1. listing = "oldest"
        BY <1>2, <3>1
      <4>2. got \intersect Entries = {}
        BY <1>2, <4>1, PageBounds DEF FewRepeats, Entries
      <4> QED
        BY <1>2, <3>1, <4>2 DEF FewRepeats, Append
    <3>2. CASE reader # "domestic"
      BY <1>2, <3>2 DEF FewRepeats, Append
    <3> QED
      BY <3>1, <3>2
  <2>2. ASSUME listing = "oldest" PROVE got' \subseteq 1 .. LastEntry
    <3>1. got \subseteq 1 .. cursor
      BY <1>2, <2>2 DEF FewRepeats
    <3>2. Entries \subseteq 1 .. LastEntry
      BY <2>2, PageBounds DEF Entries
    <3> QED
      BY <3>1, <3>2, PageBounds DEF Append
  <2> QED
    BY <1>2, <2>1, <2>2 DEF FewRepeats
<1> QED
  BY <1>1, <1>2

\* Every step keeps the bound on repetitions.
LEMMA NextFew == ASSUME TypeOK, FewRepeats, [Next]_vars PROVE FewRepeats'
<1> USE DEF TypeOK
<1>1. CASE Arrive
  <2>1. floor .. book \subseteq floor .. book'
    BY <1>1 DEF Arrive
  <2> QED
    BY <1>1, <2>1 DEF Arrive, FewRepeats
<1>2. ASSUME NEW r \in Readers, Begin(r) PROVE FewRepeats'
  <2>1. Cardinality({}) = 0 /\ book \in Nat
    BY FS_EmptySet
  <2>2. floor' = book /\ book' = book /\ repeats' = {} /\ got' = {}
    BY <1>2 DEF Begin
  <2>3. book \in book .. book /\ Cardinality({}) =< book - book
    BY <2>1
  <2> QED
    BY <2>2, <2>3 DEF FewRepeats
<1>3. CASE LastPage
  BY <1>3, PageFew DEF LastPage
<1>4. CASE NextPage
  BY <1>4, PageFew DEF NextPage
<1>5. CASE ReadFails
  BY <1>5 DEF ReadFails, FewRepeats
<1>6. CASE UNCHANGED vars
  BY <1>6 DEF vars, FewRepeats
<1> QED
  BY <1>1, <1>2, <1>3, <1>4, <1>5, <1>6 DEF Next

\* Only the domestic history repeats orders, only if it is listed newest first,
\* and no more of them than arrived during the read.
THEOREM FewAreRepeated == Spec => []RepeatsAreMoves
<1>1. Init => FewRepeats
  <2>1. Cardinality({}) = 0
    BY FS_EmptySet
  <2> QED
    BY <2>1 DEF Init, FewRepeats
<1>2. TypeOK /\ FewRepeats /\ [Next]_vars => FewRepeats'
  BY NextFew
<1>3. TypeOK /\ FewRepeats => RepeatsAreMoves
  <2> SUFFICES ASSUME TypeOK, FewRepeats PROVE RepeatsAreMoves
    OBVIOUS
  <2>1. CASE reader = "domestic" /\ listing = "newest"
    <3>1. PICK b \in floor .. book : Cardinality(repeats) =< b - floor
      BY <2>1 DEF FewRepeats
    <3>2. IsFiniteSet(1 .. book) /\ repeats \subseteq 1 .. book
      BY FS_Interval DEF TypeOK
    <3>3. Cardinality(repeats) \in Nat
      BY <3>2, FS_Subset, FS_CardinalityType
    <3> QED
      BY <2>1, <3>1, <3>3 DEF RepeatsAreMoves, TypeOK
  <2>2. CASE ~(reader = "domestic" /\ listing = "newest")
    BY <2>2, FS_EmptySet DEF FewRepeats, RepeatsAreMoves
  <2> QED
    BY <2>1, <2>2
<1> QED
  BY <1>1, <1>2, <1>3, TypeCorrect, PTL DEF Spec
=============================================================================
