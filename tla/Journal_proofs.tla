--------------------------- MODULE Journal_proofs ---------------------------
(***************************************************************************)
(* Proofs about Journal, for any users, accounts, periods and manual       *)
(* batches, and any number of them.                                        *)
(*                                                                         *)
(* ReversalsPair holds step by step because of two facts: a reversal is    *)
(* younger than what it reverses (a part of JournalTypeOK), so a new batch *)
(* is nobody's original yet; and only a posted batch is reversed, which by *)
(* ReversalsPair itself had no reversal before.                            *)
(***************************************************************************)
EXTENDS Journal, Sums, SequenceTheorems, TLAPS

-----------------------------------------------------------------------------
(* Rows: how the table of batches changes *)

\* What the steps write: a row of another status, and the table with it.
Turned(row, s) == [row EXCEPT !.status = s]
WithTurned(rows, b, s) == [rows EXCEPT ![b].status = s]

\* Setting the status of a row keeps the rest of it.
LEMMA StatusTurned ==
  ASSUME NEW row \in Batch, NEW s \in {"DRAFT", "POSTED", "REVERSED"}
  PROVE  /\ Turned(row, s) \in Batch
         /\ Turned(row, s).status = s
         /\ Turned(row, s).key = row.key
         /\ Turned(row, s).event = row.event
         /\ Turned(row, s).source = row.source
         /\ Turned(row, s).day = row.day
         /\ Turned(row, s).lines = row.lines
         /\ Turned(row, s).reverses = row.reverses
  BY DEF Turned, Batch

\* It keeps the other rows, and the number of rows.
LEMMA StatusSet ==
  ASSUME NEW rows \in Seq(Batch), NEW b \in DOMAIN rows, NEW s \in {"DRAFT", "POSTED", "REVERSED"}
  PROVE  /\ rows[b] \in Batch
         /\ WithTurned(rows, b, s) \in Seq(Batch)
         /\ Len(WithTurned(rows, b, s)) = Len(rows)
         /\ DOMAIN WithTurned(rows, b, s) = DOMAIN rows
         /\ \A c \in DOMAIN rows : c # b => WithTurned(rows, b, s)[c] = rows[c]
         /\ WithTurned(rows, b, s)[b] = Turned(rows[b], s)
  <1>1. rows[b] \in Batch
    OBVIOUS
  <1>2. Turned(rows[b], s) \in Batch
    BY <1>1, StatusTurned
  <1> QED
    BY <1>1, <1>2 DEF WithTurned, Turned

\* A row that is added comes last.
LEMMA RowAdded ==
  ASSUME NEW rows \in Seq(Batch), NEW row \in Batch, NEW new, new = Append(rows, row)
  PROVE  /\ new \in Seq(Batch)
         /\ DOMAIN new = DOMAIN rows \cup {Len(rows) + 1}
         /\ DOMAIN rows = 1 .. Len(rows)
         /\ Len(rows) \in Nat
         /\ \A c \in DOMAIN rows : new[c] = rows[c]
         /\ new[Len(rows) + 1] = row
  OBVIOUS

\* The opposite of journal lines are journal lines.
LEMMA OppositeTyped ==
  ASSUME NEW lines \in Seq(Line)
  PROVE  Opposite(lines) \in Seq(Line)
  <1>1. \A i \in DOMAIN lines : lines[i] \in Line
    OBVIOUS
  <1>2. \A l \in Line : [l EXCEPT !.debit = -@] \in Line
    BY DEF Line
  <1>3. lines \in [1 .. Len(lines) -> Line] /\ Len(lines) \in Nat /\ DOMAIN lines = 1 .. Len(lines)
    OBVIOUS
  <1>4. Opposite(lines) \in [1 .. Len(lines) -> Line]
    BY <1>1, <1>2, <1>3 DEF Opposite
  <1> QED
    BY <1>3, <1>4, SeqDef

\* A draft is a typed row.
LEMMA DraftTyped ==
  ASSUME NEW token \in Tokens, NEW day \in Days, NEW lines \in Drafts
  PROVE  NewBatch(<<"manual", token, "">>, NoSource, "MANUAL", day, lines, "DRAFT", 0) \in Batch
  <1>1. token \in Nat /\ lines \in Seq(Line)
    BY JournalAssumption
  <1>2. <<"manual", token, "">> \in Key
    BY <1>1 DEF Key, Models, Events
  <1>3. NoSource \in Source
    BY DEF NoSource, Source, Models
  <1> QED
    BY <1>1, <1>2, <1>3 DEF NewBatch, Batch, Events

\* A reversal is a typed row.
LEMMA ReversalTyped ==
  ASSUME NEW rows \in Seq(Batch), NEW b \in DOMAIN rows, NEW day \in Days
  PROVE  NewBatch(<<"manual-reversal", b, "">>, <<"JournalBatch", b>>, "REVERSAL", day,
                  Opposite(rows[b].lines), "POSTED", b) \in Batch
  <1>1. rows[b] \in Batch /\ b \in Nat
    OBVIOUS
  <1>2. Opposite(rows[b].lines) \in Seq(Line)
    BY <1>1, OppositeTyped DEF Batch
  <1>3. <<"manual-reversal", b, "">> \in Key
    BY <1>1 DEF Key, Models, Events
  <1>4. <<"JournalBatch", b>> \in Source
    BY <1>1 DEF Source, Models
  <1> QED
    BY <1>1, <1>2, <1>3, <1>4 DEF NewBatch, Batch, Events

-----------------------------------------------------------------------------
(* The four ways a step changes the table of batches *)

\* A step of the journal leaves the batches alone, adds a fresh draft, posts a
\* draft, or reverses a posted batch by a fresh one.
Unchanged == batches' = batches

AddsDraft ==
    \E token \in Tokens, day \in Days, lines \in Drafts :
        /\ Fresh(<<"manual", token, "">>, NoSource, "MANUAL")
        /\ batches' = Append(batches, NewBatch(<<"manual", token, "">>, NoSource, "MANUAL",
                                               day, lines, "DRAFT", 0))

PostsDraft ==
    \E b \in DOMAIN batches :
        /\ Manual(b)
        /\ batches[b].status = "DRAFT"
        /\ batches' = WithTurned(batches, b, "POSTED")

Reverses ==
    \E b \in DOMAIN batches :
        /\ Manual(b)
        /\ batches[b].status = "POSTED"
        /\ Fresh(<<"manual-reversal", b, "">>, <<"JournalBatch", b>>, "REVERSAL")
        /\ batches' = Append(WithTurned(batches, b, "REVERSED"),
                             NewBatch(<<"manual-reversal", b, "">>, <<"JournalBatch", b>>, "REVERSAL",
                                      today, Opposite(batches[b].lines), "POSTED", b))

\* Every step is one of the four.
LEMMA StepKinds ==
  ASSUME [JournalNext]_journalVars
  PROVE  Unchanged \/ AddsDraft \/ PostsDraft \/ Reverses
  <1> USE DEF Unchanged, AddsDraft, PostsDraft, Reverses
  <1>1. ASSUME NEW u \in Users, NEW token \in Tokens, NEW day \in Days, NEW lines \in Drafts,
               PrepareBatch(u, token, day, lines)
        PROVE  AddsDraft
    BY <1>1 DEF PrepareBatch
  <1>2. ASSUME NEW u \in Users, NEW b \in DOMAIN batches, PostBatch(u, b) PROVE PostsDraft
    BY <1>2 DEF PostBatch, WithTurned
  <1>3. ASSUME NEW u \in Users, NEW b \in DOMAIN batches, ReverseBatch(u, b) PROVE Reverses
    BY <1>3 DEF ReverseBatch, Reversal, WithTurned
  <1>4. ASSUME NEW u \in Users, NEW form \in PeriodForms, CreatePeriod(u, form) PROVE Unchanged
    BY <1>4 DEF CreatePeriod
  <1>5. CASE NextDay
    BY <1>5 DEF NextDay
  <1>6. CASE UNCHANGED journalVars
    BY <1>6 DEF journalVars
  <1> QED
    BY <1>1, <1>2, <1>3, <1>4, <1>5, <1>6 DEF JournalNext

-----------------------------------------------------------------------------
(* What the batches are after a step that changes them *)

\* A new draft is the last row, and no reversal.
LEMMA AfterDraft ==
  ASSUME JournalTypeOK, AddsDraft
  PROVE  \E row \in Batch, token \in Tokens :
            /\ row.key = <<"manual", token, "">> /\ row.source = NoSource
            /\ row.status = "DRAFT" /\ row.reverses = 0
            /\ row.event = "MANUAL" /\ row.lines \in Drafts
            /\ Fresh(row.key, NoSource, "MANUAL")
            /\ batches' \in Seq(Batch)
            /\ DOMAIN batches' = DOMAIN batches \cup {Len(batches) + 1}
            /\ DOMAIN batches = 1 .. Len(batches) /\ Len(batches) \in Nat
            /\ \A c \in DOMAIN batches : batches'[c] = batches[c]
            /\ batches'[Len(batches) + 1] = row
  <1>1. PICK token \in Tokens, day \in Days, lines \in Drafts :
           /\ Fresh(<<"manual", token, "">>, NoSource, "MANUAL")
           /\ batches' = Append(batches, NewBatch(<<"manual", token, "">>, NoSource, "MANUAL",
                                                  day, lines, "DRAFT", 0))
    BY DEF AddsDraft
  <1> DEFINE row == NewBatch(<<"manual", token, "">>, NoSource, "MANUAL", day, lines, "DRAFT", 0)
  <1>2. /\ row \in Batch /\ row.key = <<"manual", token, "">> /\ row.source = NoSource
        /\ row.status = "DRAFT" /\ row.reverses = 0
        /\ row.event = "MANUAL" /\ row.lines \in Drafts
    BY DraftTyped DEF NewBatch
  <1> HIDE DEF row
  <1>3. batches' = Append(batches, row)
    BY <1>1 DEF row
  <1>4. /\ batches' \in Seq(Batch)
        /\ DOMAIN batches' = DOMAIN batches \cup {Len(batches) + 1}
        /\ DOMAIN batches = 1 .. Len(batches) /\ Len(batches) \in Nat
        /\ \A c \in DOMAIN batches : batches'[c] = batches[c]
        /\ batches'[Len(batches) + 1] = row
    <2>1. batches \in Seq(Batch)
      BY DEF JournalTypeOK
    <2>2. row \in Batch
      BY <1>2
    <2> QED
      BY <1>3, <2>1, <2>2, RowAdded
  <1>5. Fresh(row.key, NoSource, "MANUAL")
    BY <1>1, <1>2
  <1> QED
    BY <1>2, <1>4, <1>5

\* A draft that is posted changes its status only.
LEMMA AfterPosting ==
  ASSUME JournalTypeOK, PostsDraft
  PROVE  \E b \in DOMAIN batches :
            /\ batches[b] \in Batch /\ Manual(b) /\ batches[b].status = "DRAFT"
            /\ batches' \in Seq(Batch)
            /\ DOMAIN batches' = DOMAIN batches
            /\ \A c \in DOMAIN batches : c # b => batches'[c] = batches[c]
            /\ batches'[b] = Turned(batches[b], "POSTED")
  <1>1. PICK b \in DOMAIN batches :
           Manual(b) /\ batches[b].status = "DRAFT" /\ batches' = WithTurned(batches, b, "POSTED")
    BY DEF PostsDraft
  <1>2. batches \in Seq(Batch)
    BY DEF JournalTypeOK
  <1> QED
    BY <1>1, <1>2, StatusSet

\* A posted batch that is reversed changes its status only, and its reversal
\* is the last row.
LEMMA AfterReversal ==
  ASSUME JournalTypeOK, Reverses
  PROVE  \E b \in DOMAIN batches, row \in Batch :
            /\ batches[b] \in Batch /\ batches[b].status = "POSTED" /\ b \in Nat /\ b # 0
            /\ Manual(b)
            /\ row.key = <<"manual-reversal", b, "">> /\ row.source = <<"JournalBatch", b>>
            /\ row.event = "REVERSAL" /\ row.status = "POSTED" /\ row.reverses = b
            /\ row.lines = Opposite(batches[b].lines)
            /\ Fresh(row.key, row.source, row.event)
            /\ batches' \in Seq(Batch)
            /\ DOMAIN batches' = DOMAIN batches \cup {Len(batches) + 1}
            /\ DOMAIN batches = 1 .. Len(batches) /\ Len(batches) \in Nat
            /\ \A c \in DOMAIN batches : c # b => batches'[c] = batches[c]
            /\ batches'[b] = Turned(batches[b], "REVERSED")
            /\ batches'[Len(batches) + 1] = row
  <1>1. PICK b \in DOMAIN batches :
           /\ Manual(b)
           /\ batches[b].status = "POSTED"
           /\ Fresh(<<"manual-reversal", b, "">>, <<"JournalBatch", b>>, "REVERSAL")
           /\ batches' = Append(WithTurned(batches, b, "REVERSED"),
                                NewBatch(<<"manual-reversal", b, "">>, <<"JournalBatch", b>>, "REVERSAL",
                                         today, Opposite(batches[b].lines), "POSTED", b))
    BY DEF Reverses
  <1> DEFINE marked == WithTurned(batches, b, "REVERSED")
             row == NewBatch(<<"manual-reversal", b, "">>, <<"JournalBatch", b>>, "REVERSAL",
                             today, Opposite(batches[b].lines), "POSTED", b)
  <1>2. /\ batches[b] \in Batch
        /\ marked \in Seq(Batch) /\ Len(marked) = Len(batches) /\ DOMAIN marked = DOMAIN batches
        /\ \A c \in DOMAIN batches : c # b => marked[c] = batches[c]
        /\ marked[b] = Turned(batches[b], "REVERSED")
    BY StatusSet DEF JournalTypeOK
  <1>3. b \in Nat /\ b # 0
    BY DEF JournalTypeOK
  <1>4. row \in Batch
    BY ReversalTyped DEF JournalTypeOK
  <1>5. /\ row.key = <<"manual-reversal", b, "">> /\ row.source = <<"JournalBatch", b>>
        /\ row.event = "REVERSAL" /\ row.status = "POSTED" /\ row.reverses = b
        /\ row.lines = Opposite(batches[b].lines)
    BY DEF NewBatch
  <1> HIDE DEF marked, row
  <1>6. batches' = Append(marked, row)
    BY <1>1 DEF marked, row
  <1>7. /\ batches' \in Seq(Batch)
        /\ DOMAIN batches' = DOMAIN batches \cup {Len(batches) + 1}
        /\ DOMAIN batches = 1 .. Len(batches) /\ Len(batches) \in Nat
        /\ \A c \in DOMAIN batches : batches'[c] = marked[c]
        /\ batches'[Len(batches) + 1] = row
    BY <1>2, <1>4, <1>6, RowAdded
  <1>8. /\ Manual(b)
        /\ batches[b].status = "POSTED"
        /\ Fresh(row.key, row.source, row.event)
        /\ \A c \in DOMAIN batches : c # b => batches'[c] = batches[c]
        /\ batches'[b] = Turned(batches[b], "REVERSED")
    BY <1>1, <1>2, <1>5, <1>7
  <1> QED
    BY <1>2, <1>3, <1>4, <1>5, <1>7, <1>8, Zenon

-----------------------------------------------------------------------------
(* Types *)

LEMMA JournalTypeStep ==
  ASSUME JournalTypeOK, [JournalNext]_journalVars
  PROVE  JournalTypeOK'
  <1> USE DEF JournalTypeOK
  <1> DEFINE Rest == today' \in Days /\ DOMAIN cached' = FinAccounts /\ periods' \subseteq Period
  <1>1. Rest
    <2>1. ASSUME NEW u \in Users, NEW token \in Tokens, NEW day \in Days, NEW lines \in Drafts,
                 PrepareBatch(u, token, day, lines)
          PROVE  Rest
      BY <2>1 DEF PrepareBatch
    <2>2. ASSUME NEW u \in Users, NEW b \in DOMAIN batches, PostBatch(u, b) PROVE Rest
      BY <2>2 DEF PostBatch, Post
    <2>3. ASSUME NEW u \in Users, NEW b \in DOMAIN batches, ReverseBatch(u, b) PROVE Rest
      BY <2>3 DEF ReverseBatch, Reversal, Post
    <2>4. ASSUME NEW u \in Users, NEW form \in PeriodForms, CreatePeriod(u, form) PROVE Rest
      BY <2>4, JournalAssumption DEF CreatePeriod
    <2>5. CASE NextDay
      BY <2>5, JournalAssumption DEF NextDay, Days
    <2>6. CASE UNCHANGED journalVars
      BY <2>6 DEF journalVars
    <2> QED
      BY <2>1, <2>2, <2>3, <2>4, <2>5, <2>6 DEF JournalNext
  <1>2. batches' \in Seq(Batch) /\ (\A b \in DOMAIN batches' : batches'[b].reverses < b)
    <2>1. CASE Unchanged
      BY <2>1 DEF Unchanged
    <2>2. CASE AddsDraft
      <3>1. PICK row \in Batch, token \in Tokens :
               /\ row.reverses = 0
               /\ batches' \in Seq(Batch)
               /\ DOMAIN batches' = DOMAIN batches \cup {Len(batches) + 1}
               /\ Len(batches) \in Nat
               /\ \A c \in DOMAIN batches : batches'[c] = batches[c]
               /\ batches'[Len(batches) + 1] = row
        BY <2>2, AfterDraft
      <3> QED
        BY <3>1
    <2>3. CASE PostsDraft
      <3>1. PICK b \in DOMAIN batches :
               /\ batches[b] \in Batch
               /\ batches' \in Seq(Batch)
               /\ DOMAIN batches' = DOMAIN batches
               /\ \A c \in DOMAIN batches : c # b => batches'[c] = batches[c]
               /\ batches'[b] = Turned(batches[b], "POSTED")
        BY <2>3, AfterPosting
      <3>2. batches'[b].reverses = batches[b].reverses
        BY <3>1, StatusTurned
      <3> QED
        BY <3>1, <3>2
    <2>4. CASE Reverses
      <3>1. PICK b \in DOMAIN batches, row \in Batch :
               /\ batches[b] \in Batch /\ b \in Nat /\ row.reverses = b
               /\ batches' \in Seq(Batch)
               /\ DOMAIN batches' = DOMAIN batches \cup {Len(batches) + 1}
               /\ DOMAIN batches = 1 .. Len(batches) /\ Len(batches) \in Nat
               /\ \A c \in DOMAIN batches : c # b => batches'[c] = batches[c]
               /\ batches'[b] = Turned(batches[b], "REVERSED")
               /\ batches'[Len(batches) + 1] = row
        BY <2>4, AfterReversal
      <3>2. batches'[b].reverses = batches[b].reverses
        BY <3>1, StatusTurned
      <3> QED
        BY <3>1, <3>2
    <2> QED
      BY <2>1, <2>2, <2>3, <2>4, StepKinds
  <1> QED
    BY <1>1, <1>2

\* Types are kept, and a reversal is always younger than what it reverses.
THEOREM JournalTypeCorrect == JournalSpec => []JournalTypeOK
  <1>1. JournalInit => JournalTypeOK
    BY JournalAssumption DEF JournalInit, JournalTypeOK, Days
  <1>2. JournalTypeOK /\ [JournalNext]_journalVars => JournalTypeOK'
    BY JournalTypeStep
  <1> QED
    BY <1>1, <1>2, PTL DEF JournalSpec

-----------------------------------------------------------------------------
(* One batch per event *)

\* What OneBatchPerEvent says of a row and another.
Apart(x, y) ==
    /\ x.key # y.key
    /\ x.source # NoSource => <<x.source, x.event>> # <<y.source, y.event>>

LEMMA ApartTurned ==
  ASSUME NEW x \in Batch, NEW y, NEW s \in {"DRAFT", "POSTED", "REVERSED"}
  PROVE  /\ Apart(x, y) => Apart(Turned(x, s), y)
         /\ Apart(y, x) => Apart(y, Turned(x, s))
  BY StatusTurned DEF Apart

\* A fresh row is apart from every row, in both orders.
LEMMA FreshApart ==
  ASSUME NEW row, Fresh(row.key, row.source, row.event), NEW c \in DOMAIN batches
  PROVE  Apart(row, batches[c]) /\ Apart(batches[c], row)
  BY DEF Fresh, Apart

LEMMA OneBatchStep ==
  ASSUME JournalTypeOK, OneBatchPerEvent, [JournalNext]_journalVars
  PROVE  OneBatchPerEvent'
  <1>1. \A b, c \in DOMAIN batches : b = c \/ Apart(batches[b], batches[c])
    BY DEF OneBatchPerEvent, Apart
  <1>2. SUFFICES \A b, c \in DOMAIN batches' : b = c \/ Apart(batches'[b], batches'[c])
    BY DEF OneBatchPerEvent, Apart
  <1>3. CASE Unchanged
    BY <1>1, <1>3 DEF Unchanged
  <1>4. CASE AddsDraft
    <2>1. PICK row \in Batch, token \in Tokens :
             /\ row.source = NoSource
             /\ Fresh(row.key, NoSource, "MANUAL")
             /\ DOMAIN batches' = DOMAIN batches \cup {Len(batches) + 1}
             /\ \A c \in DOMAIN batches : batches'[c] = batches[c]
             /\ batches'[Len(batches) + 1] = row
      BY <1>4, AfterDraft
    <2>2. ASSUME NEW c \in DOMAIN batches PROVE Apart(row, batches[c]) /\ Apart(batches[c], row)
      BY <2>1 DEF Fresh, Apart
    <2> QED
      BY <1>1, <2>1, <2>2
  <1>5. CASE PostsDraft
    <2>1. PICK b \in DOMAIN batches :
             /\ batches[b] \in Batch
             /\ DOMAIN batches' = DOMAIN batches
             /\ \A c \in DOMAIN batches : c # b => batches'[c] = batches[c]
             /\ batches'[b] = Turned(batches[b], "POSTED")
      BY <1>5, AfterPosting
    <2> QED
      BY <1>1, <2>1, ApartTurned
  <1>6. CASE Reverses
    <2>1. PICK b \in DOMAIN batches, row \in Batch :
             /\ batches[b] \in Batch
             /\ Fresh(row.key, row.source, row.event)
             /\ DOMAIN batches' = DOMAIN batches \cup {Len(batches) + 1}
             /\ \A c \in DOMAIN batches : c # b => batches'[c] = batches[c]
             /\ batches'[b] = Turned(batches[b], "REVERSED")
             /\ batches'[Len(batches) + 1] = row
      BY <1>6, AfterReversal
    <2>2. ASSUME NEW c \in DOMAIN batches PROVE Apart(row, batches'[c]) /\ Apart(batches'[c], row)
      BY <2>1, FreshApart, ApartTurned
    <2>3. ASSUME NEW c \in DOMAIN batches, NEW d \in DOMAIN batches, c # d
          PROVE  Apart(batches'[c], batches'[d])
      BY <1>1, <2>1, <2>3, ApartTurned
    <2> QED
      BY <2>1, <2>2, <2>3
  <1> QED
    BY <1>3, <1>4, <1>5, <1>6, StepKinds

\* However often a batch is submitted or reversed again, its key and its event
\* are booked once.
THEOREM EventsAreBookedOnce == JournalSpec => []OneBatchPerEvent
  <1>1. JournalInit => JournalTypeOK /\ OneBatchPerEvent
    BY JournalAssumption DEF JournalInit, JournalTypeOK, OneBatchPerEvent, Days
  <1>2. (JournalTypeOK /\ OneBatchPerEvent) /\ [JournalNext]_journalVars
           => (JournalTypeOK /\ OneBatchPerEvent)'
    BY JournalTypeStep, OneBatchStep
  <1> QED
    BY <1>1, <1>2, PTL DEF JournalSpec

-----------------------------------------------------------------------------
(* A batch and its reversal *)

\* ReversalsPair batch by batch, without sets.
Unreversed(b) == \A r \in DOMAIN batches : batches[r].reverses # b
ReversedBy(b, r) ==
    /\ r > b
    /\ batches[r].reverses = b
    /\ batches[r].status \in Booked
    /\ batches[r].lines = Opposite(batches[b].lines)
    /\ \A q \in DOMAIN batches : batches[q].reverses = b => q = r
Paired(b) ==
    /\ batches[b].status # "REVERSED" => Unreversed(b)
    /\ batches[b].status = "REVERSED" => \E r \in DOMAIN batches : ReversedBy(b, r)

LEMMA PairedIsPair == ReversalsPair <=> \A b \in DOMAIN batches : Paired(b)
  BY DEF ReversalsPair, Paired, Unreversed, ReversedBy

LEMMA PairedAfterPosting ==
  ASSUME JournalTypeOK, \A b \in DOMAIN batches : Paired(b), PostsDraft
  PROVE  \A b \in DOMAIN batches' : Paired(b)'
  <1>1. PICK p \in DOMAIN batches :
           /\ batches[p] \in Batch /\ batches[p].status = "DRAFT"
           /\ DOMAIN batches' = DOMAIN batches
           /\ \A c \in DOMAIN batches : c # p => batches'[c] = batches[c]
           /\ batches'[p] = Turned(batches[p], "POSTED")
    BY AfterPosting
  <1>2. /\ batches'[p].reverses = batches[p].reverses
        /\ batches'[p].lines = batches[p].lines
        /\ batches'[p].status = "POSTED"
    BY <1>1, StatusTurned
  <1>3. \A c \in DOMAIN batches : /\ batches'[c].reverses = batches[c].reverses
                                  /\ batches'[c].lines = batches[c].lines
                                  /\ batches[c].status \in Booked => batches'[c].status \in Booked
                                  /\ batches'[c].status = "REVERSED" <=> batches[c].status = "REVERSED"
    BY <1>1, <1>2 DEF Booked
  <1>4. ASSUME NEW b \in DOMAIN batches PROVE Paired(b)'
    <2>1. ASSUME batches'[b].status # "REVERSED" PROVE Unreversed(b)'
      BY <1>1, <1>3, <2>1 DEF Paired, Unreversed
    <2>2. ASSUME batches'[b].status = "REVERSED" PROVE \E r \in DOMAIN batches' : ReversedBy(b, r)'
      <3>1. PICK r \in DOMAIN batches : ReversedBy(b, r)
        BY <1>3, <2>2 DEF Paired
      <3>2. ReversedBy(b, r)'
        BY <1>1, <1>3, <3>1 DEF ReversedBy
      <3> QED
        BY <1>1, <3>2
    <2> QED
      BY <2>1, <2>2 DEF Paired
  <1> QED
    BY <1>1, <1>4

\* A new row that is no reversal has none either: it is younger than all.
LEMMA PairedAfterDraft ==
  ASSUME JournalTypeOK, \A b \in DOMAIN batches : Paired(b), AddsDraft
  PROVE  \A b \in DOMAIN batches' : Paired(b)'
  <1>1. PICK row \in Batch, token \in Tokens :
           /\ row.status = "DRAFT" /\ row.reverses = 0
           /\ DOMAIN batches' = DOMAIN batches \cup {Len(batches) + 1}
           /\ DOMAIN batches = 1 .. Len(batches) /\ Len(batches) \in Nat
           /\ \A c \in DOMAIN batches : batches'[c] = batches[c]
           /\ batches'[Len(batches) + 1] = row
    BY AfterDraft
  <1>2. \A c \in DOMAIN batches : batches[c].reverses < c
    BY DEF JournalTypeOK
  <1>3. batches \in Seq(Batch)
    BY DEF JournalTypeOK
  <1>4. \A c \in DOMAIN batches : batches[c].reverses \in Nat
    <2>1. \A x \in Batch : x.reverses \in Nat
      BY DEF Batch
    <2> QED
      BY <1>3, <2>1
  <1>5. ASSUME NEW b \in DOMAIN batches PROVE Paired(b)'
    <2>1. ASSUME batches'[b].status # "REVERSED" PROVE Unreversed(b)'
      BY <1>1, <2>1 DEF Paired, Unreversed
    <2>2. ASSUME batches'[b].status = "REVERSED" PROVE \E r \in DOMAIN batches' : ReversedBy(b, r)'
      <3>1. PICK r \in DOMAIN batches : ReversedBy(b, r)
        BY <1>1, <2>2 DEF Paired
      <3>2. ReversedBy(b, r)'
        BY <1>1, <3>1 DEF ReversedBy
      <3> QED
        BY <1>1, <3>2
    <2> QED
      BY <2>1, <2>2 DEF Paired
  <1>6. ASSUME NEW n, n = Len(batches) + 1 PROVE Paired(n)'
    BY <1>1, <1>2, <1>4, <1>6 DEF Paired, Unreversed
  <1> QED
    BY <1>1, <1>5, <1>6

\* The original was posted, so it had no reversal; now it has the new one.
LEMMA PairedAfterReversal ==
  ASSUME JournalTypeOK, \A b \in DOMAIN batches : Paired(b), Reverses
  PROVE  \A b \in DOMAIN batches' : Paired(b)'
  <1>1. PICK o \in DOMAIN batches, row \in Batch :
           /\ batches[o] \in Batch /\ batches[o].status = "POSTED" /\ o \in Nat /\ o # 0
           /\ row.status = "POSTED" /\ row.reverses = o
           /\ row.lines = Opposite(batches[o].lines)
           /\ DOMAIN batches' = DOMAIN batches \cup {Len(batches) + 1}
           /\ DOMAIN batches = 1 .. Len(batches) /\ Len(batches) \in Nat
           /\ \A c \in DOMAIN batches : c # o => batches'[c] = batches[c]
           /\ batches'[o] = Turned(batches[o], "REVERSED")
           /\ batches'[Len(batches) + 1] = row
    BY AfterReversal
  <1>2. \A c \in DOMAIN batches : batches[c].reverses < c
    BY DEF JournalTypeOK
  <1>3. batches \in Seq(Batch)
    BY DEF JournalTypeOK
  <1>4. \A c \in DOMAIN batches : batches[c].reverses \in Nat
    <2>1. \A x \in Batch : x.reverses \in Nat
      BY DEF Batch
    <2> QED
      BY <1>3, <2>1
  <1>5. /\ batches'[o].reverses = batches[o].reverses
        /\ batches'[o].lines = batches[o].lines
        /\ batches'[o].status = "REVERSED"
    BY <1>1, StatusTurned
  <1>6. \A c \in DOMAIN batches : /\ batches'[c].reverses = batches[c].reverses
                                  /\ batches'[c].lines = batches[c].lines
                                  /\ batches[c].status \in Booked => batches'[c].status \in Booked
                                  /\ c # o => batches'[c].status = batches[c].status
    BY <1>1, <1>5 DEF Booked
  <1>7. ASSUME NEW b \in DOMAIN batches, b # o PROVE Paired(b)'
    <2>1. ASSUME batches'[b].status # "REVERSED" PROVE Unreversed(b)'
      BY <1>1, <1>6, <1>7, <2>1 DEF Paired, Unreversed
    <2>2. ASSUME batches'[b].status = "REVERSED" PROVE \E r \in DOMAIN batches' : ReversedBy(b, r)'
      <3>1. PICK r \in DOMAIN batches : ReversedBy(b, r)
        BY <1>6, <1>7, <2>2 DEF Paired
      <3>2. ReversedBy(b, r)'
        BY <1>1, <1>6, <1>7, <3>1 DEF ReversedBy
      <3> QED
        BY <1>1, <3>2
    <2> QED
      BY <2>1, <2>2 DEF Paired
  <1>8. Paired(o)'
    <2>1. Unreversed(o)
      BY <1>1 DEF Paired
    <2>2. ASSUME NEW n, n = Len(batches) + 1 PROVE ReversedBy(o, n)'
      <3>1. n > o /\ Opposite(batches'[o].lines) = Opposite(batches[o].lines)
        BY <1>1, <1>5, <2>2
      <3>2. \A q \in DOMAIN batches' : batches'[q].reverses = o => q = n
        BY <1>1, <1>6, <2>1, <2>2 DEF Unreversed
      <3> QED
        BY <1>1, <2>2, <3>1, <3>2 DEF ReversedBy, Booked
    <2> QED
      BY <1>1, <1>5, <2>2 DEF Paired
  <1>9. ASSUME NEW n, n = Len(batches) + 1 PROVE Paired(n)'
    BY <1>1, <1>2, <1>4, <1>6, <1>9 DEF Paired, Unreversed
  <1> QED
    BY <1>1, <1>7, <1>8, <1>9

LEMMA PairStep ==
  ASSUME JournalTypeOK, ReversalsPair, [JournalNext]_journalVars
  PROVE  ReversalsPair'
  <1>1. \A b \in DOMAIN batches : Paired(b)
    BY PairedIsPair
  <1>2. \A b \in DOMAIN batches' : Paired(b)'
    <2>1. CASE Unchanged
      BY <1>1, <2>1 DEF Unchanged, Paired, Unreversed, ReversedBy
    <2> QED
      BY <1>1, <2>1, StepKinds, PairedAfterDraft, PairedAfterPosting, PairedAfterReversal
  <1>3. ReversalsPair' <=> \A b \in DOMAIN batches' : Paired(b)'
    BY DEF ReversalsPair, Paired, Unreversed, ReversedBy
  <1> QED
    BY <1>2, <1>3

\* A reversed batch has exactly one reversal, younger, booked and of the
\* opposite lines; every other batch has none.
THEOREM ReversalsAlwaysPair == JournalSpec => []ReversalsPair
  <1>1. JournalInit => JournalTypeOK /\ ReversalsPair
    BY JournalAssumption DEF JournalInit, JournalTypeOK, ReversalsPair, Days
  <1>2. (JournalTypeOK /\ ReversalsPair) /\ [JournalNext]_journalVars
           => (JournalTypeOK /\ ReversalsPair)'
    BY JournalTypeStep, PairStep
  <1> QED
    BY <1>1, <1>2, PTL DEF JournalSpec

-----------------------------------------------------------------------------
(* Posted batches *)

LEMMA PostedStep ==
  ASSUME JournalTypeOK, [JournalNext]_journalVars, NEW b \in DOMAIN batches, batches[b].status \in Booked
  PROVE  \/ batches'[b] = batches[b]
         \/ /\ batches[b].status = "POSTED"
            /\ batches'[b] = [batches[b] EXCEPT !.status = "REVERSED"]
  <1>1. CASE Unchanged
    BY <1>1 DEF Unchanged
  <1>2. CASE AddsDraft
    <2>1. \A c \in DOMAIN batches : batches'[c] = batches[c]
      BY <1>2, AfterDraft
    <2> QED
      BY <2>1
  <1>3. CASE PostsDraft
    <2>1. PICK p \in DOMAIN batches : /\ batches[p].status = "DRAFT"
                                      /\ \A c \in DOMAIN batches : c # p => batches'[c] = batches[c]
      BY <1>3, AfterPosting
    <2> QED
      BY <2>1 DEF Booked
  <1>4. CASE Reverses
    <2>1. PICK o \in DOMAIN batches : /\ batches[o].status = "POSTED"
                                      /\ \A c \in DOMAIN batches : c # o => batches'[c] = batches[c]
                                      /\ batches'[o] = Turned(batches[o], "REVERSED")
      BY <1>4, AfterReversal
    <2> QED
      BY <2>1 DEF Turned
  <1> QED
    BY <1>1, <1>2, <1>3, <1>4, StepKinds

\* Once posted a batch is what it is, but that it may become reversed.
THEOREM PostedBatchesStayFinal == JournalSpec => PostedIsFinal
  <1>1. JournalTypeOK /\ [JournalNext]_journalVars
           => [\A b \in DOMAIN batches :
                 batches[b].status \in Booked =>
                     \/ batches'[b] = batches[b]
                     \/ /\ batches[b].status = "POSTED"
                        /\ batches'[b] = [batches[b] EXCEPT !.status = "REVERSED"]]_journalVars
    BY PostedStep
  <1> QED
    BY <1>1, JournalTypeCorrect, PTL DEF JournalSpec, PostedIsFinal

-----------------------------------------------------------------------------
(* Bookings: the batches that count, and what they debit *)

Bookings(rows) == {b \in DOMAIN rows : rows[b].status \in Booked /\ rows[b].day < LastDay + 1}
DebitOf(rows, a) == SumFunction([b \in Bookings(rows) |-> DebitTo(rows[b].lines, a)])

LEMMA BalanceIsDebit == \A a : LedgerBalance(a) = Natural(a, DebitOf(batches, a))
BY DEF LedgerBalance, BalanceBefore, BalanceIn, DebitOf, Bookings

\* Positions of a sequence are finitely many.
LEMMA PositionsFinite ==
  ASSUME NEW R, NEW rows \in Seq(R), NEW T \in SUBSET DOMAIN rows
  PROVE  IsFiniteSet(T)
<1>1. Len(rows) \in Int /\ DOMAIN rows = 1 .. Len(rows)
  OBVIOUS
<1>2. IsFiniteSet(1 .. Len(rows))
  BY <1>1, FS_Interval
<1> QED
  BY <1>1, <1>2, FS_Subset

\* What lines debit to an account is a number.
LEMMA DebitToInt ==
  ASSUME NEW lines \in Seq(Line), NEW a
  PROVE  DebitTo(lines, a) \in Int
<1> DEFINE S == {i \in DOMAIN lines : lines[i].account = a}
           f == [i \in S |-> lines[i].debit]
<1>1. \A i \in DOMAIN lines : lines[i].debit \in Int
  <2>1. \A l \in Line : l.debit \in Int
    BY DEF Line
  <2> QED
    BY <2>1
<1>2. f \in [S -> Int]
  BY <1>1
<1>3. IsFiniteSet(S)
  <2>1. S \in SUBSET DOMAIN lines
    OBVIOUS
  <2> HIDE DEF S
  <2> QED
    BY <2>1, PositionsFinite
<1>4. SumFunction(f) \in Int
  <2> HIDE DEF f, S
  <2> QED
    BY <1>2, <1>3, SumInt
<1> QED
  BY <1>4 DEF DebitTo

LEMMA DebitOfInt ==
  ASSUME NEW rows \in Seq(Batch), NEW a
  PROVE  /\ IsFiniteSet(Bookings(rows))
         /\ [b \in Bookings(rows) |-> DebitTo(rows[b].lines, a)] \in [Bookings(rows) -> Int]
         /\ DebitOf(rows, a) \in Int
<1>1. IsFiniteSet(Bookings(rows))
  <2>1. Bookings(rows) \in SUBSET DOMAIN rows
    BY DEF Bookings
  <2> QED
    BY <2>1, PositionsFinite
<1> DEFINE f == [b \in Bookings(rows) |-> DebitTo(rows[b].lines, a)]
<1>2. f \in [Bookings(rows) -> Int]
  <2>1. \A b \in Bookings(rows) : rows[b] \in Batch
    BY DEF Bookings
  <2>2. \A b \in Bookings(rows) : DebitTo(rows[b].lines, a) \in Int
    BY <2>1, DebitToInt DEF Batch
  <2> QED
    BY <2>2
<1>3. SumFunction(f) \in Int
  <2> HIDE DEF f
  <2> QED
    BY <1>1, <1>2, SumInt
<1> QED
  BY <1>1, <1>2, <1>3 DEF DebitOf

\* The same bookings, or one more.
SameBookings(old, new) ==
    /\ Bookings(new) = Bookings(old)
    /\ \A b \in Bookings(old) : new[b].lines = old[b].lines
OneMore(old, new, x) ==
    /\ x \notin Bookings(old)
    /\ Bookings(new) = Bookings(old) \cup {x}
    /\ \A b \in Bookings(old) : new[b].lines = old[b].lines

LEMMA DebitSame ==
  ASSUME NEW old, NEW new, SameBookings(old, new), NEW a
  PROVE  DebitOf(new, a) = DebitOf(old, a)
<1>1. [b \in Bookings(new) |-> DebitTo(new[b].lines, a)]
         = [b \in Bookings(old) |-> DebitTo(old[b].lines, a)]
  BY DEF SameBookings
<1> QED
  BY <1>1 DEF DebitOf

LEMMA DebitMore ==
  ASSUME NEW old \in Seq(Batch), NEW new \in Seq(Batch), NEW x, OneMore(old, new, x), NEW a
  PROVE  DebitOf(new, a) = DebitOf(old, a) + DebitTo(new[x].lines, a)
<1> DEFINE f == [b \in Bookings(old) |-> DebitTo(old[b].lines, a)]
           g == [b \in Bookings(new) |-> DebitTo(new[b].lines, a)]
<1>1. x \notin Bookings(old) /\ Bookings(new) = Bookings(old) \cup {x}
  BY DEF OneMore
<1>2. IsFiniteSet(Bookings(old)) /\ g \in [Bookings(old) \cup {x} -> Int]
  BY <1>1, DebitOfInt
<1>3. g[x] = DebitTo(new[x].lines, a)
  BY <1>1
<1>4. Restrict(g, Bookings(old)) = f
  BY <1>1 DEF OneMore, Restrict
<1>5. SumFunction(g) = SumFunction(Restrict(g, Bookings(old))) + g[x]
  <2> HIDE DEF f, g
  <2> QED
    BY <1>1, <1>2, SumMore
<1> QED
  BY <1>3, <1>4, <1>5 DEF DebitOf

-----------------------------------------------------------------------------
(* How a step changes the bookings *)

\* Every row has a day that counts.
LEMMA BookingsAre ==
  ASSUME NEW rows \in Seq(Batch)
  PROVE  Bookings(rows) = {b \in DOMAIN rows : rows[b].status \in Booked}
<1>1. \A b \in DOMAIN rows : rows[b] \in Batch
  OBVIOUS
<1>2. \A r \in Batch : r.day \in 0 .. LastDay
  BY DEF Batch, Days
<1>3. \A r \in Batch : r.day < LastDay + 1
  BY <1>2, JournalAssumption
<1> QED
  BY <1>1, <1>3 DEF Bookings

LEMMA AddedBooks ==
  ASSUME NEW rows \in Seq(Batch), NEW row \in Batch, NEW new, new = Append(rows, row), NEW x, x = Len(rows) + 1
  PROVE  /\ row.status \notin Booked => SameBookings(rows, new)
         /\ row.status \in Booked => OneMore(rows, new, x)
<1>1. /\ new \in Seq(Batch)
      /\ DOMAIN new = DOMAIN rows \cup {x}
      /\ x \notin DOMAIN rows
      /\ \A c \in DOMAIN rows : new[c] = rows[c]
      /\ new[x] = row
  <2>1. /\ new \in Seq(Batch)
        /\ DOMAIN new = DOMAIN rows \cup {Len(rows) + 1}
        /\ DOMAIN rows = 1 .. Len(rows)
        /\ Len(rows) \in Nat
        /\ \A c \in DOMAIN rows : new[c] = rows[c]
        /\ new[Len(rows) + 1] = row
    BY RowAdded
  <2> QED
    BY <2>1
<1>2. /\ Bookings(rows) = {b \in DOMAIN rows : rows[b].status \in Booked}
      /\ Bookings(new) = {b \in DOMAIN new : new[b].status \in Booked}
  BY <1>1, BookingsAre
<1> QED
  BY <1>1, <1>2, Zenon DEF SameBookings, OneMore

LEMMA TurnedBooks ==
  ASSUME NEW rows \in Seq(Batch), NEW b \in DOMAIN rows, NEW s \in Booked, NEW new, new = WithTurned(rows, b, s)
  PROVE  /\ rows[b].status \in Booked => SameBookings(rows, new)
         /\ rows[b].status \notin Booked => OneMore(rows, new, b)
<1>0. s \in {"DRAFT", "POSTED", "REVERSED"}
  BY DEF Booked
<1>1. /\ rows[b] \in Batch
      /\ new \in Seq(Batch)
      /\ DOMAIN new = DOMAIN rows
      /\ \A c \in DOMAIN rows : c # b => new[c] = rows[c]
      /\ new[b] = Turned(rows[b], s)
  BY <1>0, StatusSet
<1>2. new[b].status = s /\ new[b].lines = rows[b].lines
  BY <1>0, <1>1, StatusTurned
<1>3. /\ Bookings(rows) = {c \in DOMAIN rows : rows[c].status \in Booked}
      /\ Bookings(new) = {c \in DOMAIN new : new[c].status \in Booked}
  BY <1>1, BookingsAre
<1> QED
  BY <1>1, <1>2, <1>3, Zenon DEF SameBookings, OneMore

\* A step of the journal books nothing and leaves the balances, or books in
\* both one batch: the lines of a manual batch, or their opposite.
BookRow ==
    \/ cached' = cached /\ SameBookings(batches, batches')
    \/ \E x : /\ OneMore(batches, batches', x)
              /\ Balanced(batches'[x].lines)
              /\ cached' = [a \in FinAccounts |-> cached[a] + Natural(a, DebitTo(batches'[x].lines, a))]
              /\ \E b \in DOMAIN batches :
                    Manual(b) /\ batches'[x].lines \in {batches[b].lines, Opposite(batches[b].lines)}

LEMMA StepBooks ==
  ASSUME JournalTypeOK, [JournalNext]_journalVars
  PROVE  BookRow
<1>0. batches \in Seq(Batch) /\ today \in Days
  BY DEF JournalTypeOK
<1>1. ASSUME UNCHANGED <<cached, batches>> PROVE BookRow
  BY <1>1 DEF BookRow, SameBookings
<1>2. ASSUME NEW u \in Users, NEW token \in Tokens, NEW day \in Days, NEW lines \in Drafts,
             PrepareBatch(u, token, day, lines)
      PROVE  BookRow
  <2> DEFINE row == NewBatch(<<"manual", token, "">>, NoSource, "MANUAL", day, lines, "DRAFT", 0)
  <2>1. row \in Batch /\ row.status \notin Booked
    BY DraftTyped DEF NewBatch, Booked
  <2>2. batches' = Append(batches, row) /\ cached' = cached
    BY <1>2 DEF PrepareBatch
  <2> HIDE DEF row
  <2>3. SameBookings(batches, batches')
    BY <1>0, <2>1, <2>2, AddedBooks
  <2> QED
    BY <2>2, <2>3 DEF BookRow
<1>3. ASSUME NEW u \in Users, NEW b \in DOMAIN batches, PostBatch(u, b)
      PROVE  BookRow
  <2>1. /\ batches' = WithTurned(batches, b, "POSTED")
        /\ batches[b].status \notin Booked /\ Manual(b)
        /\ "POSTED" \in Booked
    BY <1>3 DEF PostBatch, WithTurned, Booked
  <2>2. OneMore(batches, batches', b)
    BY <1>0, <2>1, TurnedBooks
  <2>3. batches'[b].lines = batches[b].lines
    <3>1. batches[b] \in Batch /\ batches'[b] = Turned(batches[b], "POSTED")
      BY <1>0, <2>1, StatusSet
    <3> QED
      BY <3>1, StatusTurned
  <2>4. /\ Balanced(batches[b].lines)
        /\ cached' = [a \in FinAccounts |-> cached[a] + Natural(a, DebitTo(batches[b].lines, a))]
    BY <1>3 DEF PostBatch, Post
  <2> QED
    BY <2>1, <2>2, <2>3, <2>4, Zenon DEF BookRow
<1>4. ASSUME NEW u \in Users, NEW b \in DOMAIN batches, ReverseBatch(u, b)
      PROVE  BookRow
  <2> DEFINE marked == WithTurned(batches, b, "REVERSED")
             row == NewBatch(<<"manual-reversal", b, "">>, <<"JournalBatch", b>>, "REVERSAL",
                             today, Opposite(batches[b].lines), "POSTED", b)
  <2>1. /\ batches' = Append(marked, row) /\ Manual(b)
        /\ row.lines = Opposite(batches[b].lines)
        /\ batches[b].status \in Booked /\ "REVERSED" \in Booked
        /\ Balanced(row.lines)
        /\ cached' = [a \in FinAccounts |-> cached[a] + Natural(a, DebitTo(row.lines, a))]
    BY <1>4 DEF ReverseBatch, Reversal, Post, WithTurned, Booked, NewBatch
  <2>2. row \in Batch /\ row.status \in Booked
    <3>1. row.status \in Booked
      BY DEF NewBatch, Booked
    <3> QED
      BY <1>0, <3>1, ReversalTyped
  <2>3. marked \in Seq(Batch) /\ DOMAIN marked = DOMAIN batches
    BY <1>0, StatusSet
  <2>4. SameBookings(batches, marked)
    BY <1>0, <2>1, TurnedBooks
  <2> HIDE DEF marked, row
  <2>5. PICK x : x = Len(marked) + 1
    OBVIOUS
  <2>6. OneMore(marked, batches', x)
    BY <2>1, <2>2, <2>3, <2>5, AddedBooks
  <2>7. OneMore(batches, batches', x)
    BY <2>4, <2>6 DEF SameBookings, OneMore
  <2>8. batches'[x] = row
    BY <2>1, <2>2, <2>3, <2>5, RowAdded
  <2> QED
    BY <2>1, <2>7, <2>8, Zenon DEF BookRow
<1>5. ASSUME NEW u \in Users, NEW form \in PeriodForms, CreatePeriod(u, form) PROVE BookRow
  BY <1>1, <1>5 DEF CreatePeriod
<1>6. CASE NextDay
  BY <1>1, <1>6 DEF NextDay
<1>7. CASE UNCHANGED journalVars
  BY <1>1, <1>7 DEF journalVars
<1> QED
  BY <1>2, <1>3, <1>4, <1>5, <1>6, <1>7 DEF JournalNext

\* What that does to the balances and to the debits: the same lines reach both.
BooksLines(lines) ==
    /\ cached' = [a \in FinAccounts |-> cached[a] + Natural(a, DebitTo(lines, a))]
    /\ \A a : DebitOf(batches', a) = DebitOf(batches, a) + DebitTo(lines, a)

BooksNothing == cached' = cached /\ \A a : DebitOf(batches', a) = DebitOf(batches, a)

BookStep == BooksNothing \/ \E lines \in Seq(Line) : Balanced(lines) /\ BooksLines(lines)

LEMMA JournalBooks ==
  ASSUME JournalTypeOK, JournalTypeOK', [JournalNext]_journalVars
  PROVE  \/ BooksNothing
         \/ \E b \in DOMAIN batches, lines \in Seq(Line) :
               /\ Manual(b) /\ lines \in {batches[b].lines, Opposite(batches[b].lines)}
               /\ Balanced(lines) /\ BooksLines(lines)
<1>0. batches \in Seq(Batch) /\ batches' \in Seq(Batch)
  BY DEF JournalTypeOK
<1>1. CASE cached' = cached /\ SameBookings(batches, batches')
  BY <1>1, DebitSame DEF BooksNothing
<1>2. ASSUME NEW x, OneMore(batches, batches', x), NEW b \in DOMAIN batches, Manual(b),
             batches'[x].lines \in {batches[b].lines, Opposite(batches[b].lines)},
             Balanced(batches'[x].lines),
             cached' = [a \in FinAccounts |-> cached[a] + Natural(a, DebitTo(batches'[x].lines, a))]
      PROVE  \E lines \in Seq(Line) :
               /\ lines \in {batches[b].lines, Opposite(batches[b].lines)}
               /\ Balanced(lines) /\ BooksLines(lines)
  <2>1. batches'[x].lines \in Seq(Line)
    <3>1. batches'[x] \in Batch
      BY <1>0, <1>2 DEF OneMore, Bookings
    <3> QED
      BY <3>1 DEF Batch
  <2>2. \A a : DebitOf(batches', a) = DebitOf(batches, a) + DebitTo(batches'[x].lines, a)
    BY <1>0, <1>2, DebitMore
  <2>3. BooksLines(batches'[x].lines)
    BY <1>2, <2>2 DEF BooksLines
  <2> QED
    BY <1>2, <2>1, <2>3
<1>3. BookRow
  BY StepBooks
<1> QED
  BY <1>1, <1>2, <1>3, Zenon DEF BookRow

LEMMA BookSteps ==
  ASSUME JournalTypeOK, JournalTypeOK', [JournalNext]_journalVars
  PROVE  BookStep
  BY JournalBooks, Zenon DEF BookStep

-----------------------------------------------------------------------------
(* The cached balances *)

LEMMA NaturalPlus ==
  ASSUME NEW a, NEW x \in Int, NEW y \in Int
  PROVE  /\ Natural(a, x) \in Int
         /\ Natural(a, x + y) = Natural(a, x) + Natural(a, y)
         /\ Natural(a, Natural(a, x)) = x
  BY DEF Natural

LEMMA CachedStep ==
  ASSUME JournalTypeOK, JournalTypeOK', CachedIsLedger, BookStep
  PROVE  CachedIsLedger'
<1>0. batches \in Seq(Batch) /\ batches' \in Seq(Batch)
  BY DEF JournalTypeOK
<1>1. \A a \in FinAccounts : cached[a] = Natural(a, DebitOf(batches, a))
  BY BalanceIsDebit DEF CachedIsLedger
<1>2. ASSUME NEW a \in FinAccounts PROVE cached'[a] = Natural(a, DebitOf(batches', a))
  <2>1. CASE BooksNothing
    BY <1>1, <2>1 DEF BooksNothing
  <2>2. ASSUME NEW lines \in Seq(Line), BooksLines(lines)
        PROVE  cached'[a] = Natural(a, DebitOf(batches', a))
    <3>1. DebitOf(batches', a) = DebitOf(batches, a) + DebitTo(lines, a)
      BY <2>2 DEF BooksLines
    <3>2. DebitOf(batches, a) \in Int /\ DebitTo(lines, a) \in Int
      BY <1>0, DebitOfInt, DebitToInt
    <3>3. cached'[a] = Natural(a, DebitOf(batches, a)) + Natural(a, DebitTo(lines, a))
      BY <1>1, <2>2 DEF BooksLines
    <3> QED
      BY <3>1, <3>2, <3>3, NaturalPlus
  <2> QED
    BY <2>1, <2>2 DEF BookStep
<1>3. \A a : LedgerBalance(a)' = Natural(a, DebitOf(batches', a))
  BY DEF LedgerBalance, BalanceBefore, BalanceIn, DebitOf, Bookings, Natural, DebitPositive
<1> QED
  BY <1>2, <1>3 DEF CachedIsLedger

LEMMA NoBookings ==
  ASSUME NEW a, batches = <<>>
  PROVE  LedgerBalance(a) = 0
<1>1. [b \in Bookings(batches) |-> DebitTo(batches[b].lines, a)]
         = [b \in {} |-> DebitTo(batches[b].lines, a)]
  BY DEF Bookings
<1>2. DebitOf(batches, a) = 0
  BY <1>1, SumEmpty DEF DebitOf
<1> QED
  BY <1>2, BalanceIsDebit DEF Natural

\* Whatever is posted and reversed, the balance an account keeps in cache is
\* the balance of its entries (reconcile_account finds no difference).
THEOREM CacheFollowsEntries == JournalSpec => []CachedIsLedger
<1>1. JournalInit => JournalTypeOK /\ CachedIsLedger
  BY JournalAssumption, NoBookings DEF JournalInit, JournalTypeOK, CachedIsLedger, Days
<1>2. (JournalTypeOK /\ CachedIsLedger) /\ [JournalNext]_journalVars
         => (JournalTypeOK /\ CachedIsLedger)'
  BY JournalTypeStep, BookSteps, CachedStep
<1> QED
  BY <1>1, <1>2, PTL DEF JournalSpec

-----------------------------------------------------------------------------
(* Double entry *)

Of(c) == {a \in FinAccounts : Currency[a] = c}
DebitsOf(rows, c) == [a \in Of(c) |-> DebitOf(rows, a)]
DebitsTo(lines, c) == [a \in Of(c) |-> DebitTo(lines, a)]

LEMMA OfFinite == \A c : IsFiniteSet(Of(c))
<1>1. \A c : Of(c) \in SUBSET FinAccounts
  BY DEF Of
<1> QED
  BY <1>1, JournalAssumption, FS_Subset

\* Account by account or line by line, what lines debit in a currency is the
\* same.
LEMMA LinesByAccount ==
  ASSUME NEW lines \in Seq(Line), NEW c
  PROVE  SumFunction(DebitsTo(lines, c)) = DebitIn(lines, c)
<1> DEFINE S == {i \in DOMAIN lines : Currency[lines[i].account] = c}
           f == [i \in S |-> lines[i].debit]
           p == [i \in S |-> lines[i].account]
           Fibre(a) == {i \in S : p[i] = a}
<1>1. \A i \in DOMAIN lines : lines[i].debit \in Int /\ lines[i].account \in FinAccounts
  <2>1. \A l \in Line : l.debit \in Int /\ l.account \in FinAccounts
    BY DEF Line
  <2> QED
    BY <2>1
<1>2. IsFiniteSet(S)
  <2>1. S \in SUBSET DOMAIN lines
    OBVIOUS
  <2> HIDE DEF S
  <2> QED
    BY <2>1, PositionsFinite
<1>3. f \in [S -> Int] /\ p \in [S -> Of(c)]
  BY <1>1 DEF Of
<1>4. ASSUME NEW a \in Of(c) PROVE SumFunction(Restrict(f, Fibre(a))) = DebitTo(lines, a)
  <2>1. Fibre(a) = {i \in DOMAIN lines : lines[i].account = a}
    BY DEF Of
  <2>2. Restrict(f, Fibre(a)) = [i \in Fibre(a) |-> lines[i].debit]
    BY DEF Restrict
  <2> HIDE DEF f, Fibre
  <2>3. Restrict(f, Fibre(a)) = [i \in {j \in DOMAIN lines : lines[j].account = a} |-> lines[i].debit]
    BY <2>1, <2>2
  <2> QED
    BY <2>3 DEF DebitTo
<1> HIDE DEF f, p, S
<1>5. SumFunction(f) = SumFunction([a \in Of(c) |-> SumFunction(Restrict(f, Fibre(a)))])
  BY <1>2, <1>3, OfFinite, SumFibres
<1>6. [a \in Of(c) |-> SumFunction(Restrict(f, Fibre(a)))] = DebitsTo(lines, c)
  BY <1>4 DEF DebitsTo
<1> QED
  BY <1>5, <1>6 DEF f, S, DebitIn

\* Balanced lines debit nothing in all, in no currency.
LEMMA BalancedLines ==
  ASSUME NEW lines \in Seq(Line), Balanced(lines), NEW c
  PROVE  DebitIn(lines, c) = 0
<1>1. CASE \E i \in DOMAIN lines : Currency[lines[i].account] = c
  BY <1>1 DEF Balanced
<1>2. CASE ~ \E i \in DOMAIN lines : Currency[lines[i].account] = c
  <2>1. {j \in DOMAIN lines : Currency[lines[j].account] = c} = {}
    BY <1>2
  <2> QED
    BY <2>1, SumEmpty DEF DebitIn
<1> QED
  BY <1>1, <1>2

\* BooksBalance, by debits.
DebitsCancel == \A c \in {Currency[a] : a \in FinAccounts} : SumFunction(DebitsOf(batches, c)) = 0

LEMMA BooksAreDebits ==
  ASSUME batches \in Seq(Batch)
  PROVE  BooksBalance <=> DebitsCancel
<1>1. ASSUME NEW a PROVE Natural(a, LedgerBalance(a)) = DebitOf(batches, a)
  BY BalanceIsDebit, DebitOfInt, NaturalPlus
<1>2. \A c : [a \in {b \in FinAccounts : Currency[b] = c} |-> Natural(a, LedgerBalance(a))] = DebitsOf(batches, c)
  BY <1>1 DEF DebitsOf, Of
<1> QED
  BY <1>2 DEF BooksBalance, DebitsCancel

LEMMA CancelStep ==
  ASSUME batches \in Seq(Batch), batches' \in Seq(Batch), DebitsCancel, BookStep
  PROVE  DebitsCancel'
<1> SUFFICES ASSUME NEW c \in {Currency[a] : a \in FinAccounts}
             PROVE  SumFunction(DebitsOf(batches', c)) = 0
  BY DEF DebitsCancel, DebitsOf, DebitOf, Bookings
<1>1. SumFunction(DebitsOf(batches, c)) = 0
  BY DEF DebitsCancel
<1>2. ASSUME BooksNothing
      PROVE  SumFunction(DebitsOf(batches', c)) = 0
  <2>1. DebitsOf(batches', c) = DebitsOf(batches, c)
    BY <1>2 DEF BooksNothing, DebitsOf
  <2> QED
    BY <1>1, <2>1
<1>3. ASSUME NEW lines \in Seq(Line), Balanced(lines), BooksLines(lines)
      PROVE  SumFunction(DebitsOf(batches', c)) = 0
  <2>2. \A a : DebitOf(batches', a) = DebitOf(batches, a) + DebitTo(lines, a)
    BY <1>3 DEF BooksLines
  <2>3. \A a : /\ DebitOf(batches, a) \in Int
               /\ DebitOf(batches', a) \in Int
               /\ DebitTo(lines, a) \in Int
    BY DebitOfInt, DebitToInt
  <2>4. /\ DebitsOf(batches, c) \in [Of(c) -> Int]
        /\ DebitsOf(batches', c) \in [Of(c) -> Int]
        /\ DebitsTo(lines, c) \in [Of(c) -> Int]
    BY <2>3 DEF DebitsOf, DebitsTo
  <2>5. \A a \in Of(c) : DebitsOf(batches', c)[a] = DebitsOf(batches, c)[a] + DebitsTo(lines, c)[a]
    BY <2>2 DEF DebitsOf, DebitsTo
  <2>6. SumFunction(DebitsOf(batches', c))
           = SumFunction(DebitsOf(batches, c)) + SumFunction(DebitsTo(lines, c))
    <3>1. IsFiniteSet(Of(c))
      BY OfFinite
    <3> QED
      BY <2>4, <2>5, <3>1, SumPlus
  <2>7. SumFunction(DebitsTo(lines, c)) = 0
    BY <1>3, LinesByAccount, BalancedLines
  <2> QED
    BY <1>1, <2>6, <2>7
<1> QED
  BY <1>2, <1>3 DEF BookStep

LEMMA CancelInit == batches = <<>> => DebitsCancel
<1> SUFFICES ASSUME batches = <<>>, NEW c PROVE SumFunction(DebitsOf(batches, c)) = 0
  BY DEF DebitsCancel
<1>1. \A a : DebitOf(batches, a) = 0
  <2>1. \A a : [b \in Bookings(batches) |-> DebitTo(batches[b].lines, a)]
                  = [b \in {} |-> DebitTo(batches[b].lines, a)]
    BY DEF Bookings
  <2> QED
    BY <2>1, SumEmpty DEF DebitOf
<1>2. DebitsOf(batches, c) \in [Of(c) -> Int] /\ \A a \in Of(c) : DebitsOf(batches, c)[a] = 0
  BY <1>1 DEF DebitsOf
<1> QED
  BY <1>2, OfFinite, SumZero

\* In every currency debits and credits cancel, whatever is posted and
\* reversed: no batch is posted across currencies.
THEOREM BooksAlwaysBalance == JournalSpec => []BooksBalance
<1>1. JournalInit => JournalTypeOK /\ DebitsCancel
  BY JournalAssumption, CancelInit DEF JournalInit, JournalTypeOK, Days
<1>2. (JournalTypeOK /\ DebitsCancel) /\ [JournalNext]_journalVars
         => (JournalTypeOK /\ DebitsCancel)'
  BY JournalTypeStep, BookSteps, CancelStep DEF JournalTypeOK
<1>3. JournalTypeOK /\ DebitsCancel => BooksBalance
  BY BooksAreDebits DEF JournalTypeOK
<1> QED
  BY <1>1, <1>2, <1>3, PTL DEF JournalSpec

-----------------------------------------------------------------------------
(* What lines debit, line by line *)

\* No lines debit nothing.
LEMMA DebitToNothing == \A a : DebitTo(<<>>, a) = 0
  BY SumEmpty DEF DebitTo

\* One more line debits its own account, and no other.
LEMMA DebitToNext ==
  ASSUME NEW lines \in Seq(Line), NEW line \in Line, NEW a
  PROVE  DebitTo(Append(lines, line), a) = DebitTo(lines, a) + (IF line.account = a THEN line.debit ELSE 0)
<1> DEFINE more == Append(lines, line)
           x == Len(lines) + 1
           O == {j \in DOMAIN lines : lines[j].account = a}
           P == {j \in DOMAIN more : more[j].account = a}
           f == [i \in O |-> lines[i].debit]
           g == [i \in P |-> more[i].debit]
<1>1. /\ more \in Seq(Line) /\ DOMAIN more = DOMAIN lines \cup {x} /\ x \notin DOMAIN lines
      /\ \A i \in DOMAIN lines : more[i] = lines[i] /\ lines[i] \in Line
      /\ more[x] = line
  OBVIOUS
<1> HIDE DEF more, x
<1>2. /\ x \notin O /\ (P = O \/ P = O \cup {x}) /\ (x \in P <=> line.account = a)
      /\ \A i \in O : i \in P /\ g[i] = f[i]
      /\ x \in P => g[x] = line.debit
  BY <1>1
<1>3. IsFiniteSet(O)
  <2>1. O \in SUBSET DOMAIN lines
    OBVIOUS
  <2> HIDE DEF O
  <2> QED
    BY <2>1, PositionsFinite
<1>4. f \in [O -> Int] /\ g \in [P -> Int]
  <2>1. \A l \in Line : l.debit \in Int
    BY DEF Line
  <2> QED
    BY <1>1, <2>1
<1>5. SumFunction(f) = DebitTo(lines, a) /\ SumFunction(g) = DebitTo(more, a)
  BY DEF DebitTo
<1> HIDE DEF O, P, f, g
<1>6. SumFunction(g) = SumFunction(f) + (IF x \in P THEN g[x] ELSE 0)
  BY <1>2, <1>3, <1>4, SumNext
<1> QED
  BY <1>2, <1>5, <1>6 DEF more

\* The opposite lines debit the opposite.
LEMMA DebitToOpposite ==
  ASSUME NEW lines \in Seq(Line), NEW a
  PROVE  DebitTo(Opposite(lines), a) = -DebitTo(lines, a)
<1> DEFINE O == {j \in DOMAIN lines : lines[j].account = a}
           f == [i \in O |-> lines[i].debit]
           g == [i \in O |-> -lines[i].debit]
           h == [i \in O |-> 0]
<1>1. \A i \in DOMAIN lines : lines[i] \in Line /\ lines[i].debit \in Int
  <2>1. \A l \in Line : l.debit \in Int
    BY DEF Line
  <2> QED
    BY <2>1
<1>2. /\ DOMAIN Opposite(lines) = DOMAIN lines
      /\ \A i \in DOMAIN lines : /\ Opposite(lines)[i].account = lines[i].account
                                /\ Opposite(lines)[i].debit = -lines[i].debit
  BY <1>1 DEF Opposite, Line
<1>3. {j \in DOMAIN Opposite(lines) : Opposite(lines)[j].account = a} = O
  BY <1>2
<1>4. [i \in O |-> Opposite(lines)[i].debit] = g
  BY <1>2
<1>5. DebitTo(Opposite(lines), a) = SumFunction(g) /\ DebitTo(lines, a) = SumFunction(f)
  BY <1>3, <1>4 DEF DebitTo
<1>6. IsFiniteSet(O)
  <2>1. O \in SUBSET DOMAIN lines
    OBVIOUS
  <2> HIDE DEF O
  <2> QED
    BY <2>1, PositionsFinite
<1>7. f \in [O -> Int] /\ g \in [O -> Int] /\ h \in [O -> Int]
  BY <1>1
<1>8. \A i \in O : h[i] = f[i] + g[i]
  BY <1>1
<1>9. \A i \in O : h[i] = 0
  OBVIOUS
<1> HIDE DEF O, f, g, h
<1>10. SumFunction(h) = SumFunction(f) + SumFunction(g)
  <2>1. \A p, q, r \in [O -> Int] :
           (\A i \in O : r[i] = p[i] + q[i]) => SumFunction(r) = SumFunction(p) + SumFunction(q)
    BY <1>6, SumPlus
  <2> QED
    BY <1>7, <1>8, <2>1
<1>11. SumFunction(h) = 0
  BY <1>6, <1>7, <1>9, SumZero
<1>12. SumFunction(f) \in Int /\ SumFunction(g) \in Int
  BY <1>6, <1>7, SumInt
<1> QED
  BY <1>5, <1>10, <1>11, <1>12

=============================================================================
