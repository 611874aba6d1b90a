------------------------- MODULE ChunkedUploadProofs -------------------------
(***************************************************************************)
(* Proofs about ChunkedUpload, for every set of sessions, requests and     *)
(* deleters, every chunk size, quota and bound on faults: the types, and   *)
(* the bound on how far the quota can be overrun.  Then, for agents that    *)
(* wait for each other: the ledger of the user, stored bytes and rows, and  *)
(* the contents of finished files.                                         *)
(***************************************************************************)
EXTENDS ChunkedUpload, FiniteSetTheorems, SequenceTheorems, TLAPS

(* A request past its lookup works on a chunk that starts within what the   *)
(* placeholder had, and knows a size no larger than the declared one.       *)
ReqOK ==
    \A r \in Request : req[r].at \in AfterLookup =>
        /\ Start(req[r].i) <= req[r].size
        /\ req[r].size <= Size[req[r].s]

(* A request about to write has a file to write to: who removes the file    *)
(* sends the request to "writeGone".                                        *)
WriterHasBlob ==
    \A r \in Request : req[r].at = "write" => blob[req[r].s] # NoBlob

TypeInv == TypeOK /\ ReqOK /\ WriterHasBlob

-----------------------------------------------------------------------------
(* Arithmetic of chunks *)

(* The chunk with index i begins at a natural number, ends ChunkLen later,  *)
(* and a chunk that begins within the file ends within it.                  *)
LEMMA ChunkArithmetic ==
    ASSUME NEW s \in Session, NEW i \in Nat
    PROVE  /\ Start(i) \in Nat
           /\ ChunkLen(s, i) \in Int
           /\ ChunkLen(s, i) <= LongestChunk
           /\ End(s, i) \in Int
           /\ Start(i) <= Size[s] => /\ Start(i) <= End(s, i)
                                     /\ End(s, i) <= Size[s]
<1> DEFINE T == Start(i)
<1>1. T \in Nat /\ ChunkSize \in Nat /\ Size[s] \in Nat /\ Size[s] <= MaxFileSize
      /\ MaxFileSize \in Nat
  BY SizesAssumption DEF Start
<1>2. Start(i + 1) = T + ChunkSize
  BY SizesAssumption DEF Start
<1>3. ChunkSize = 0 => T = 0
  BY SizesAssumption DEF Start
<1> HIDE DEF T
<1>4. ChunkLen(s, i) = IF ChunkSize = 0 \/ T + ChunkSize >= Size[s]
                         THEN Size[s] - T ELSE ChunkSize
  BY <1>2 DEF ChunkLen, IsLastChunk, T
<1>5. End(s, i) = T + ChunkLen(s, i)
  BY DEF End, T
<1>6. ChunkLen(s, i) \in Int /\ ChunkLen(s, i) <= LongestChunk
  BY <1>1, <1>3, <1>4 DEF LongestChunk
<1>7. T <= Size[s] => T <= End(s, i) /\ End(s, i) <= Size[s]
  BY <1>1, <1>4, <1>5
<1> QED
  BY <1>1, <1>5, <1>6, <1>7 DEF T

(* What a chunk writes and what a cut leaves are sequences of bytes. *)
LEMMA SequencesOfBytes ==
    /\ \A from \in Int, n \in Int : Slice(from, n) \in Seq(Int)
    /\ \A data \in Seq(Int), n \in Nat : Resize(data, n) \in Seq(Int)
<1>1. ASSUME NEW from \in Int, NEW n \in Int
      PROVE  Slice(from, n) \in Seq(Int)
  <2>1. CASE n \in Nat
    BY <2>1 DEF Slice
  <2>2. CASE n \notin Nat
    <3>1. 1 .. n = 1 .. 0
      BY <2>2
    <3> QED
      BY <3>1 DEF Slice
  <2> QED
    BY <2>1, <2>2
<1>2. ASSUME NEW data \in Seq(Int), NEW n \in Nat
      PROVE  Resize(data, n) \in Seq(Int)
  <2>1. \A k \in 1 .. n : (IF k \in 1 .. Len(data) THEN data[k] ELSE Hole) \in Int
    BY DEF Hole
  <2> QED
    BY <2>1 DEF Resize
<1> QED
  BY <1>1, <1>2
-----------------------------------------------------------------------------
(* Types *)

Stages == BeforeLookup \cup AfterLookup

(* A request that is not idle has its four fields. *)
LEMMA WorkingRequest ==
    ASSUME TypeOK, NEW r \in Request, ~ReqIdle(r)
    PROVE  /\ req[r] \in Working(Stages)
           /\ req[r].at \in Stages /\ req[r].s \in Session
           /\ req[r].i \in Nat /\ req[r].size \in Nat
<1>1. req[r] \in Working(Stages) \cup {Quiet}
  BY DEF TypeOK, Stages
<1>2. req[r] # Quiet
  BY DEF ReqIdle, Quiet
<1>3. req[r] \in Working(Stages)
  BY <1>1, <1>2
<1> QED
  BY <1>3 DEF Working

(* A deleter that is not idle has its four fields. *)
LEMMA WorkingDeleter ==
    ASSUME TypeOK, NEW d \in Agents, del[d] # Idle
    PROVE  /\ del[d] \in Deleting
           /\ del[d].todo \in SUBSET Session /\ del[d].found \in SUBSET Session
           /\ del[d].sizes \in [Session -> Nat]
<1>1. del[d] \in Deleting
  BY DEF TypeOK
<1> QED
  BY <1>1 DEF Deleting

(* UpdateSize keeps rows within their declared sizes. *)
LEMMA UpdateSizeTypes ==
    ASSUME TypeOK, NEW s \in Session, NEW known \in Int, NEW value \in Nat,
           value <= Size[s], UpdateSize(s, known, value)
    PROVE  /\ row' \in [Session -> Row \cup {NoRow}]
           /\ \A t \in Session : Exists(t)' => row'[t].size <= Size[t]
           /\ storage' = storage + (value - known) /\ storage' \in Int
<1>1. /\ row \in [Session -> Row \cup {NoRow}] /\ storage \in Int
      /\ \A t \in Session : row[t] # NoRow => row[t].size <= Size[t]
  BY DEF TypeOK, Exists
<1>2. storage' = storage + (value - known) /\ storage' \in Int
  BY <1>1 DEF UpdateSize
<1>3. CASE row' = row
  BY <1>1, <1>2, <1>3 DEF Exists
<1>4. CASE row[s] # NoRow /\ row' = [row EXCEPT ![s].size = value]
  <2>1. row[s] \in Row
    BY <1>1, <1>4
  <2>2. [row[s] EXCEPT !.size = value] \in Row
        /\ [row[s] EXCEPT !.size = value].size = value
    BY <2>1 DEF Row
  <2>3. row' = [row EXCEPT ![s] = [row[s] EXCEPT !.size = value]]
    BY <1>4
  <2>4. \A t \in Session : row'[t] = IF t = s THEN [row[s] EXCEPT !.size = value]
                                            ELSE row[t]
    BY <1>1, <2>3
  <2> QED
    BY <1>1, <1>2, <2>2, <2>3, <2>4 DEF Exists
<1> QED
  BY <1>3, <1>4 DEF UpdateSize, Exists

ReqType == req \in [Request -> Working(Stages) \cup {Quiet}]

(* No request comes to the point of writing. *)
NoNewWriter ==
    \A q \in Request : req'[q].at = "write" =>
        req[q].at = "write" /\ req'[q].s = req[q].s

(* Only one request moves, and it stays with its session. *)
OnlyMoves(r) ==
    \A q \in Request : req'[q].s = req[q].s /\ (q # r => req'[q] = req[q])

(* A request moves to another stage, leaves, or takes up a chunk. *)
LEMMA MoveRequest ==
    ASSUME TypeInv, NEW r \in Request, NEW at \in Stages, ~ReqIdle(r),
           req[r].at \in AfterLookup \/ at \notin AfterLookup, Goto(r, at)
    PROVE  /\ ReqType' /\ ReqOK'
           /\ at # "write" => NoNewWriter
           /\ OnlyMoves(r)
<1> DEFINE v == [req[r] EXCEPT !.at = at]
<1>1. /\ req[r] \in Working(Stages) /\ req[r].at \in Stages
      /\ req \in [Request -> Working(Stages) \cup {Quiet}]
  BY WorkingRequest DEF TypeInv, TypeOK, Stages
<1>2. v \in Working(Stages) /\ v.at = at /\ v.s = req[r].s
      /\ v.i = req[r].i /\ v.size = req[r].size
  BY <1>1 DEF Working
<1>3. req' = [req EXCEPT ![r] = v]
  BY DEF Goto
<1> HIDE DEF v
<1>4. \A q \in Request : req'[q] = IF q = r THEN v ELSE req[q]
  BY <1>1, <1>3
<1>5. ReqType'
  BY <1>1, <1>2, <1>3 DEF ReqType
<1>6. ReqOK'
  BY <1>2, <1>4 DEF ReqOK, TypeInv, Start
<1> QED
  BY <1>2, <1>4, <1>5, <1>6 DEF NoNewWriter, OnlyMoves

(* A request that leaves disturbs no other. *)
LEMMA LeaveRequest ==
    ASSUME TypeInv, NEW r \in Request, Leave(r)
    PROVE  ReqType' /\ ReqOK' /\ NoNewWriter
<1>1. req \in [Request -> Working(Stages) \cup {Quiet}]
  BY DEF TypeInv, TypeOK, Stages
<1>2. ReqType'
  BY <1>1 DEF ReqType, Leave
<1>3. \A q \in Request : req'[q] = IF q = r THEN Quiet ELSE req[q]
  BY <1>1 DEF Leave
<1>4. Quiet.at \notin AfterLookup
  BY DEF Quiet, AfterLookup
<1>5. ReqOK'
  BY <1>3, <1>4 DEF ReqOK, TypeInv, Start
<1>6. NoNewWriter
  BY <1>3 DEF NoNewWriter, Quiet
<1> QED
  BY <1>2, <1>5, <1>6

(* A request gets a state that is well typed and within its session's size. *)
LEMMA AssignRequest ==
    ASSUME TypeInv, NEW r \in Request, NEW v \in Working(Stages),
           v.at \in AfterLookup => Start(v.i) <= v.size /\ v.size <= Size[v.s],
           req' = [req EXCEPT ![r] = v]
    PROVE  ReqType' /\ ReqOK' /\ (v.at # "write" => NoNewWriter)
<1>1. req \in [Request -> Working(Stages) \cup {Quiet}]
  BY DEF TypeInv, TypeOK, Stages
<1>2. ReqType'
  BY <1>1 DEF ReqType
<1>3. \A q \in Request : req'[q] = IF q = r THEN v ELSE req[q]
  BY <1>1
<1>5. ReqOK'
  BY <1>3 DEF ReqOK, TypeInv, Start
<1> QED
  BY <1>2, <1>3, <1>5 DEF NoNewWriter

(* No file goes away and no request comes to write: every writer keeps one. *)
LEMMA KeepWriters ==
    ASSUME TypeInv, NoNewWriter, ReqType',
           \A s \in Session : blob[s] # NoBlob => blob'[s] # NoBlob
    PROVE  WriterHasBlob'
<1>1. ASSUME NEW q \in Request, req'[q].at = "write"
      PROVE  blob'[req'[q].s] # NoBlob
  <2>1. req[q].at = "write" /\ req'[q].s = req[q].s
    BY <1>1 DEF NoNewWriter
  <2>2. ~ReqIdle(q)
    BY <2>1 DEF ReqIdle
  <2>3. req[q].s \in Session
    BY <2>2, WorkingRequest DEF TypeInv
  <2> QED
    BY <2>1, <2>3 DEF TypeInv, WriterHasBlob
<1> QED
  BY <1>1 DEF WriterHasBlob

DelType == del \in [Agents -> Deleting \cup {Idle}]
RowType == /\ row \in [Session -> Row \cup {NoRow}]
           /\ \A s \in Session : Exists(s) => row[s].size <= Size[s]
BlobType == blob \in [Session -> Seq(Int) \cup {NoBlob}]
SetsType == /\ storage \in Int /\ cached \subseteq Session
            /\ issued \subseteq Session /\ asked \subseteq Session
            /\ hangups \subseteq [s : Session, i : Nat]
            /\ budget \in [{"cuts", "txFails", "cancels", "restarts"} -> Nat]

(* The parts of the invariant, one for each group of variables. *)
LEMMA TypeParts ==
    /\ TypeInv <=> RowType /\ BlobType /\ SetsType /\ ReqType /\ DelType
                   /\ ReqOK /\ WriterHasBlob
    /\ TypeInv' <=> RowType' /\ BlobType' /\ SetsType' /\ ReqType' /\ DelType'
                    /\ ReqOK' /\ WriterHasBlob'
BY DEF TypeInv, TypeOK, RowType, BlobType, SetsType, ReqType, DelType, Stages

(* Spending a fault keeps the budget a record of natural numbers. *)
LEMMA Budget ==
    ASSUME TypeOK, NEW b \in {"cuts", "txFails", "cancels", "restarts"}, Spend(b)
    PROVE  budget' \in [{"cuts", "txFails", "cancels", "restarts"} -> Nat]
<1>1. budget \in [{"cuts", "txFails", "cancels", "restarts"} -> Nat]
  BY DEF TypeOK
<1> QED
  BY <1>1 DEF Spend

(* Nothing exists and nobody works at the start. *)
LEMMA TypeInit == Init => TypeInv
<1> SUFFICES ASSUME Init PROVE TypeInv
  OBVIOUS
<1>1. TypeOK
  <2>1. /\ budget \in [{"cuts", "txFails", "cancels", "restarts"} -> Nat]
    BY BoundsAssumption DEF Init
  <2> QED
    BY <2>1 DEF Init, TypeOK, Exists
<1>2. ReqOK
  BY DEF Init, ReqOK, Quiet, AfterLookup
<1>3. WriterHasBlob
  BY DEF Init, WriterHasBlob, Quiet
<1> QED
  BY <1>1, <1>2, <1>3 DEF TypeInv


(* The steps of a request preserve the invariant. *)
LEMMA TypeRequestStep ==
    ASSUME TypeInv, NEW r \in Request, RequestStep(r)
    PROVE  TypeInv'
<1> DEFINE s == req[r].s
           i == req[r].i
<1>0. /\ TypeOK /\ ReqOK /\ RowType /\ BlobType /\ SetsType /\ ReqType /\ DelType
  BY TypeParts DEF TypeInv
<1>a. ~ReqIdle(r)
  BY DEF RequestStep, InsertPlaceholder, InsertPlaceholderFails, RegisterSession,
         LookupPlaceholder, CheckNotExists, OpenBlob, WriteChunk, WritePartOfChunk, ChargeChunk,
         ChargeChunkFails, PromotePlaceholder, PromotePlaceholderFails,
         UnregisterSession, TruncateChunk, RefundChunk, RefundChunkFails, ReqIdle
<1>b. /\ req[r] \in Working(Stages) /\ s \in Session /\ i \in Nat
      /\ req[r].size \in Nat /\ req[r].at \in Stages
  BY <1>0, <1>a, WorkingRequest
<1>c. /\ Start(i) \in Nat /\ ChunkLen(s, i) \in Int /\ Size[s] \in Nat
      /\ req[r].at \in AfterLookup =>
           /\ Start(i) <= Size[s] /\ Start(i) <= req[r].size /\ req[r].size <= Size[s]
           /\ Start(i) <= End(s, i) /\ End(s, i) <= Size[s] /\ End(s, i) \in Nat
  BY <1>0, <1>b, ChunkArithmetic, SizesAssumption DEF ReqOK
<1>d. ASSUME NEW at \in Stages, Goto(r, at),
             req[r].at \in AfterLookup \/ at \notin AfterLookup
      PROVE  /\ ReqType' /\ ReqOK'
             /\ at # "write" => NoNewWriter
             /\ OnlyMoves(r)
  BY <1>a, <1>d, MoveRequest
<1>e. Leave(r) => ReqType' /\ ReqOK' /\ NoNewWriter
  BY LeaveRequest
<1>f. UNCHANGED blob /\ NoNewWriter /\ ReqType' => WriterHasBlob'
  BY KeepWriters
<1>g. UNCHANGED row => RowType'
  BY <1>0 DEF RowType, Exists
<1> HIDE DEF s, i
<1>1. CASE InsertPlaceholder(r)
  <2>1. CASE Leave(r) /\ UNCHANGED row
    BY <1>0, <1>1, <1>e, <1>f, <1>g, <2>1, TypeParts
       DEF InsertPlaceholder, BlobType, SetsType, DelType
  <2>2. CASE row' = [row EXCEPT ![s] = [size |-> 0, pending |-> TRUE]]
             /\ Goto(r, "register")
    <3>1. RowType'
      <4> DEFINE new == [size |-> 0, pending |-> TRUE]
      <4>1. new \in Row /\ new.size <= Size[s]
        BY <1>c DEF Row
      <4>2. row' = [row EXCEPT ![s] = new]
        BY <2>2
      <4> HIDE DEF new
      <4> QED
        BY <1>0, <1>b, <4>1, <4>2 DEF RowType, Exists
    <3>2. "register" \in Stages /\ "register" \notin AfterLookup
      BY DEF Stages, BeforeLookup, AfterLookup
    <3> QED
      BY <1>0, <1>1, <1>d, <1>f, <2>2, <3>1, <3>2, TypeParts
         DEF InsertPlaceholder, BlobType, SetsType, DelType
  <2> QED
    BY <1>1, <2>1, <2>2 DEF InsertPlaceholder, s
<1>2. CASE RegisterSession(r)
  <2>1. cached' \subseteq Session
    BY <1>0, <1>2, <1>b DEF RegisterSession, SetsType, s
  <2> QED
    BY <1>0, <1>2, <1>e, <1>f, <1>g, <2>1, TypeParts
       DEF RegisterSession, BlobType, SetsType, DelType
<1>3. CASE LookupPlaceholder(r)
  <2>1. CASE Leave(r)
    BY <1>0, <1>3, <1>e, <1>f, <1>g, <2>1, TypeParts
       DEF LookupPlaceholder, BlobType, SetsType, DelType
  <2>2. CASE /\ Pending(s) /\ row[s].size >= Start(i)
             /\ req' = [req EXCEPT
                         ![r].at = IF i = 0 THEN "check" ELSE "open",
                         ![r].size = row[s].size]
    <3> DEFINE at == IF i = 0 THEN "check" ELSE "open"
               v == [req[r] EXCEPT !.at = at, !.size = row[s].size]
    <3>1. row[s].size \in Nat /\ row[s].size <= Size[s]
      BY <1>0, <1>b, <2>2 DEF RowType, Row, Pending, Exists
    <3>2. v \in Working(Stages) /\ v.at = at /\ v.s = s /\ v.i = i
          /\ v.size = row[s].size
      BY <1>b, <3>1 DEF Working, Stages, AfterLookup, s, i
    <3>3. req' = [req EXCEPT ![r] = v]
      BY <2>2
    <3>4. Start(v.i) <= v.size /\ v.size <= Size[v.s] /\ v.at # "write"
      BY <1>c, <2>2, <3>1, <3>2
    <3> HIDE DEF v
    <3>5. ReqType' /\ ReqOK' /\ NoNewWriter
      BY <3>2, <3>3, <3>4, AssignRequest
    <3> QED
      BY <1>0, <1>3, <1>f, <1>g, <3>5, TypeParts
         DEF LookupPlaceholder, BlobType, SetsType, DelType
  <2> QED
    BY <1>3, <2>1, <2>2 DEF LookupPlaceholder, s, i
<1>4. CASE CheckNotExists(r)
  <2>1. Leave(r) \/ Goto(r, "open")
    BY <1>4 DEF CheckNotExists
  <2>2. "open" \in Stages /\ req[r].at \in AfterLookup
    BY <1>4 DEF CheckNotExists, Stages, AfterLookup
  <2> QED
    BY <1>0, <1>4, <1>d, <1>e, <1>f, <1>g, <2>1, <2>2, TypeParts
       DEF CheckNotExists, BlobType, SetsType, DelType
<1>5. CASE OpenBlob(r)
  <2> DEFINE data == IF blob[s] = NoBlob THEN <<>> ELSE blob[s]
  <2>1. req[r].at \in AfterLookup /\ "write" \in Stages
    BY <1>5 DEF OpenBlob, Stages, AfterLookup
  <2>2. data \in Seq(Int) /\ Resize(data, Start(i)) \in Seq(Int)
    <3>1. data \in Seq(Int)
      BY <1>0, <1>b DEF BlobType
    <3> QED
      BY <1>c, <3>1, SequencesOfBytes
  <2>3. PICK new \in Seq(Int) : blob' = [blob EXCEPT ![s] = new]
    BY <1>5, <2>2 DEF OpenBlob, s, i
  <2>4. BlobType' /\ blob'[s] # NoBlob
        /\ \A t \in Session : blob[t] # NoBlob => blob'[t] # NoBlob
    BY <1>0, <1>b, <2>3, MarkersAssumption DEF BlobType
  <2>5. ReqType' /\ ReqOK' /\ WriterHasBlob'
    <3>1. CASE Leave(r)
      BY <1>e, <2>4, <3>1, KeepWriters
    <3>2. CASE Goto(r, "write")
      <4>1. /\ ReqType' /\ ReqOK'
            /\ \A q \in Request : req'[q].s = req[q].s /\ (q # r => req'[q] = req[q])
        BY <1>d, <2>1, <3>2 DEF OnlyMoves
      <4>2. ASSUME NEW q \in Request, req'[q].at = "write"
            PROVE  blob'[req'[q].s] # NoBlob
        <5>1. CASE q = r
          BY <2>4, <4>1, <5>1 DEF s
        <5>2. CASE q # r
          <6>1. req[q].at = "write" /\ ~ReqIdle(q) /\ req'[q].s = req[q].s
            BY <4>1, <4>2, <5>2 DEF ReqIdle
          <6> QED
            BY <1>0, <2>4, <6>1, WorkingRequest DEF TypeInv, WriterHasBlob
        <5> QED
          BY <5>1, <5>2
      <4> QED
        BY <4>1, <4>2 DEF WriterHasBlob
    <3> QED
      BY <1>5, <3>1, <3>2 DEF OpenBlob
  <2> QED
    BY <1>0, <1>5, <1>g, <2>4, <2>5, TypeParts DEF OpenBlob, SetsType, DelType
<1>6. CASE WriteChunk(r) \/ WritePartOfChunk(r)
  <2>1. PICK n \in Int : AppendChunk(r, n)
    BY <1>6, <1>c DEF WriteChunk, WritePartOfChunk, s, i
  <2>2. BlobType' /\ \A t \in Session : blob[t] # NoBlob => blob'[t] # NoBlob
    <3>1. CASE req[r].at = "writeGone"
      BY <1>0, <2>1, <3>1 DEF AppendChunk, BlobType
    <3>2. CASE req[r].at = "write"
      <4>1. blob[s] \in Seq(Int) /\ Slice(Start(i), n) \in Seq(Int)
        <5>1. blob[s] # NoBlob
          BY <3>2 DEF TypeInv, WriterHasBlob, s
        <5>2. blob[s] \in Seq(Int)
          BY <1>0, <1>b, <5>1 DEF BlobType
        <5>3. Start(i) \in Int
          BY <1>c
        <5> QED
          BY <5>2, <5>3, SequencesOfBytes
      <4>2. blob[s] \o Slice(Start(i), n) \in Seq(Int)
        BY <4>1
      <4>3. blob' = [blob EXCEPT ![s] = blob[s] \o Slice(Start(i), n)]
        BY <2>1, <3>2 DEF AppendChunk, s, i
      <4> QED
        BY <1>0, <1>b, <4>2, <4>3, MarkersAssumption DEF BlobType
    <3> QED
      BY <2>1, <3>1, <3>2 DEF AppendChunk
  <2>3. req[r].at \in AfterLookup /\ "charge" \in Stages
    BY <2>1 DEF AppendChunk, Stages, AfterLookup
  <2>4. ReqType' /\ ReqOK' /\ NoNewWriter
    BY <1>6, <1>d, <1>e, <2>3 DEF WriteChunk, WritePartOfChunk
  <2>5. WriterHasBlob'
    BY <2>2, <2>4, KeepWriters
  <2>6. SetsType'
    BY <1>0, <1>6, Budget DEF WriteChunk, WritePartOfChunk, SetsType
  <2> QED
    BY <1>0, <1>6, <1>g, <2>2, <2>4, <2>5, <2>6, TypeParts
       DEF WriteChunk, WritePartOfChunk, DelType
<1>7. CASE ChargeChunk(r)
  <2>1. req[r].at \in AfterLookup
    BY <1>7 DEF ChargeChunk, AfterLookup
  <2>2. RowType' /\ storage' \in Int
    BY <1>0, <1>7, <1>b, <1>c, <2>1, UpdateSizeTypes DEF ChargeChunk, RowType, s, i
  <2>3. ReqType' /\ ReqOK' /\ NoNewWriter
    <3>1. CASE req' = [req EXCEPT ![r].at = "promote", ![r].size = End(s, i)]
      <4> DEFINE v == [req[r] EXCEPT !.at = "promote", !.size = End(s, i)]
      <4>1. req' = [req EXCEPT ![r] = v]
        BY <3>1
      <4>2. v \in Working(Stages) /\ v.at # "write" /\ v.s = s /\ v.i = i
            /\ v.size = End(s, i)
        BY <1>b, <1>c, <2>1 DEF Working, Stages, AfterLookup, s, i
      <4>3. Start(v.i) <= v.size /\ v.size <= Size[v.s]
        BY <1>c, <2>1, <4>2
      <4> HIDE DEF v
      <4> QED
        BY <4>1, <4>2, <4>3, AssignRequest
    <3> QED
      BY <1>7, <1>e, <3>1 DEF ChargeChunk, s, i
  <2> QED
    BY <1>0, <1>7, <1>f, <2>2, <2>3, TypeParts DEF ChargeChunk, BlobType, SetsType, DelType
<1>8. CASE ChargeChunkFails(r)
  <2>1. req[r].at \in AfterLookup
    BY <1>8 DEF ChargeChunkFails, AfterLookup
  <2>2. PICK known \in {req[r].size, End(s, i)} :
          req' = [req EXCEPT ![r].at = "truncate", ![r].size = known]
    BY <1>8 DEF ChargeChunkFails, s, i
  <2> DEFINE v == [req[r] EXCEPT !.at = "truncate", !.size = known]
  <2>3. req' = [req EXCEPT ![r] = v]
    BY <2>2
  <2>4. known \in Nat /\ Start(i) <= known /\ known <= Size[s]
    BY <1>b, <1>c, <2>1
  <2>5. v \in Working(Stages) /\ v.at # "write" /\ v.s = s /\ v.i = i
        /\ v.size = known
    BY <1>b, <2>4 DEF Working, Stages, AfterLookup, s, i
  <2> HIDE DEF v
  <2>6. ReqType' /\ ReqOK' /\ NoNewWriter
    BY <2>3, <2>4, <2>5, AssignRequest
  <2> QED
    BY <1>0, <1>8, <1>f, <1>g, <2>6, Budget, TypeParts
       DEF ChargeChunkFails, BlobType, SetsType, DelType
<1>9. CASE PromotePlaceholder(r)
  <2>1. RowType'
    <3>1. CASE row[s] # NoRow /\ row' = [row EXCEPT ![s].pending = FALSE]
      <4> DEFINE new == [row[s] EXCEPT !.pending = FALSE]
      <4>1. row[s] \in Row
        BY <1>0, <1>b, <3>1 DEF RowType
      <4>2. new \in Row /\ new.size = row[s].size
        BY <4>1 DEF Row
      <4>3. row' = [row EXCEPT ![s] = new]
        BY <3>1
      <4> HIDE DEF new
      <4> QED
        BY <1>0, <1>b, <3>1, <4>2, <4>3 DEF RowType, Exists
    <3> QED
      BY <1>9, <1>g, <3>1 DEF PromotePlaceholder, Exists, s
  <2>2. "unregister" \in Stages /\ req[r].at \in AfterLookup
    BY <1>9 DEF PromotePlaceholder, Stages, AfterLookup
  <2>3. ReqType' /\ ReqOK' /\ NoNewWriter
    BY <1>9, <1>d, <2>2 DEF PromotePlaceholder
  <2> QED
    BY <1>0, <1>9, <1>f, <2>1, <2>3, TypeParts
       DEF PromotePlaceholder, BlobType, SetsType, DelType
<1>10. CASE PromotePlaceholderFails(r)
  <2>1. "truncate" \in Stages /\ req[r].at \in AfterLookup
    BY <1>10 DEF PromotePlaceholderFails, Stages, AfterLookup
  <2>2. ReqType' /\ ReqOK' /\ NoNewWriter
    BY <1>10, <1>d, <2>1 DEF PromotePlaceholderFails
  <2> QED
    BY <1>0, <1>10, <1>f, <1>g, <2>2, Budget, TypeParts
       DEF PromotePlaceholderFails, BlobType, SetsType, DelType
<1>11. CASE UnregisterSession(r)
  BY <1>0, <1>11, <1>e, <1>f, <1>g, TypeParts
     DEF UnregisterSession, BlobType, SetsType, DelType
<1>12. CASE TruncateChunk(r)
  <2>1. BlobType' /\ \A t \in Session : blob[t] # NoBlob => blob'[t] # NoBlob
    <3>1. CASE blob[s] # NoBlob /\ blob' = [blob EXCEPT ![s] = Resize(@, Start(i))]
      <4>1. blob[s] \in Seq(Int)
        BY <1>0, <1>b, <3>1 DEF BlobType
      <4>2. Resize(blob[s], Start(i)) \in Seq(Int)
        BY <1>c, <4>1, SequencesOfBytes
      <4> QED
        BY <1>0, <1>b, <3>1, <4>2, MarkersAssumption DEF BlobType
    <3> QED
      BY <1>0, <1>12, <3>1 DEF TruncateChunk, BlobType, s, i
  <2>2. "refund" \in Stages /\ req[r].at \in AfterLookup
    BY <1>12 DEF TruncateChunk, Stages, AfterLookup
  <2>3. ReqType' /\ ReqOK' /\ NoNewWriter
    BY <1>12, <1>d, <1>e, <2>2 DEF TruncateChunk
  <2>4. WriterHasBlob'
    BY <2>1, <2>3, KeepWriters
  <2> QED
    BY <1>0, <1>12, <1>g, <2>1, <2>3, <2>4, TypeParts DEF TruncateChunk, SetsType, DelType
<1>13. CASE RefundChunk(r)
  <2>1. req[r].at \in AfterLookup
    BY <1>13 DEF RefundChunk, AfterLookup
  <2>2. RowType' /\ storage' \in Int
    BY <1>0, <1>13, <1>b, <1>c, <2>1, UpdateSizeTypes DEF RefundChunk, RowType, s, i
  <2> QED
    BY <1>0, <1>13, <1>e, <1>f, <2>2, TypeParts DEF RefundChunk, BlobType, SetsType, DelType
<1>14. CASE RefundChunkFails(r)
  BY <1>0, <1>14, <1>e, <1>f, <1>g, Budget, TypeParts
     DEF RefundChunkFails, BlobType, SetsType, DelType
<1>15. CASE InsertPlaceholderFails(r)
  BY <1>0, <1>15, <1>e, <1>f, <1>g, Budget, TypeParts
     DEF InsertPlaceholderFails, BlobType, SetsType, DelType
<1> QED
  BY <1>1, <1>2, <1>3, <1>4, <1>5, <1>6, <1>7, <1>8, <1>9, <1>10, <1>11, <1>12,
     <1>13, <1>14, <1>15 DEF RequestStep

(* Erasing rows never charges the user for more. *)
LEMMA EraseFrees ==
    ASSUME storage \in Int, NEW d \in Agents, EraseRows(d)
    PROVE  storage' \in Int /\ storage' <= storage
<1> DEFINE freed == FoldFunctionOnSet(+, 0, del[d].sizes, del[d].found)
<1>1. \/ freed \in Nat /\ storage' = storage - freed
      \/ storage' = storage
  BY DEF EraseRows
<1> HIDE DEF freed
<1> QED
  BY <1>1

(* So do the steps of a deletion, *)
LEMMA TypeDeleteStep ==
    ASSUME TypeInv, NEW d \in Agents, DeleteStep(d)
    PROVE  TypeInv'
<1>0. /\ TypeOK /\ RowType /\ BlobType /\ SetsType /\ ReqType /\ DelType /\ ReqOK
      /\ WriterHasBlob
  BY TypeParts DEF TypeInv
<1>a. del[d] # Idle
  BY DEF DeleteStep, ListFiles, CancelSessions, EraseRows, EraseRowsFails, UnlinkBlob,
         UnlinkBlobFails
<1>b. /\ del[d] \in Deleting
      /\ del[d].todo \in SUBSET Session /\ del[d].found \in SUBSET Session
      /\ del[d].sizes \in [Session -> Nat]
  BY <1>0, <1>a, WorkingDeleter
<1>c. UNCHANGED <<req, blob>> => ReqType' /\ BlobType' /\ ReqOK' /\ WriterHasBlob'
  BY <1>0 DEF ReqType, BlobType, ReqOK, WriterHasBlob
<1>d. UNCHANGED row => RowType'
  BY <1>0 DEF RowType, Exists
<1>e. ASSUME NEW v \in Deleting, del' = [del EXCEPT ![d] = v]
      PROVE  DelType'
  BY <1>0, <1>e DEF DelType
<1>1. CASE ListFiles(d)
  <2> DEFINE found == {s \in del[d].found : Exists(s)}
             sizes == [s \in Session |-> IF s \in found THEN row[s].size ELSE 0]
             v == [at |-> "cancel", todo |-> {s \in found : Pending(s)},
                   found |-> found, sizes |-> sizes]
  <2>1. \A s \in Session : s \in found => row[s].size \in Nat
    BY <1>0 DEF RowType, Row, Exists
  <2>2. sizes \in [Session -> Nat]
    BY <2>1
  <2>3. found \in SUBSET Session /\ {s \in found : Pending(s)} \in SUBSET Session
    BY <1>b
  <2> HIDE DEF found, sizes
  <2>4. v \in Deleting
    BY <2>2, <2>3 DEF Deleting
  <2>5. del' = [del EXCEPT ![d] = v]
    BY <1>1 DEF ListFiles, found, sizes
  <2> HIDE DEF v
  <2>6. DelType'
    BY <1>e, <2>4, <2>5
  <2> QED
    BY <1>0, <1>1, <1>c, <1>d, <2>6, TypeParts DEF ListFiles, SetsType
<1>2. CASE CancelSessions(d)
  <2> DEFINE v == [del[d] EXCEPT !.at = "unlink", !.todo = del[d].found]
  <2>1. v \in Deleting
    BY <1>b DEF Deleting
  <2>2. del' = [del EXCEPT ![d] = v]
    BY <1>2 DEF CancelSessions
  <2> HIDE DEF v
  <2>3. DelType'
    BY <1>e, <2>1, <2>2
  <2> QED
    BY <1>0, <1>2, <1>c, <1>d, <2>3, TypeParts DEF CancelSessions, SetsType
<1>3. ASSUME NEW s \in Session, UnlinkBlob(d, s)
      PROVE  TypeInv'
  <2> DEFINE v == [del[d] EXCEPT !.todo = del[d].todo \ {s}]
  <2>1. v \in Deleting
    BY <1>b DEF Deleting
  <2>2. del' = [del EXCEPT ![d] = v]
    BY <1>3 DEF UnlinkBlob
  <2> HIDE DEF v
  <2>3. DelType'
    BY <1>e, <2>1, <2>2
  <2>4. BlobType' /\ \A t \in Session : t # s => blob'[t] = blob[t]
    BY <1>0, <1>3 DEF UnlinkBlob, BlobType
  <2>5. ASSUME NEW q \in Request
        PROVE  /\ req'[q] \in Working(Stages) \cup {Quiet}
               /\ req'[q].at = "write" => req'[q] = req[q] /\ req[q].s # s
               /\ req'[q].at \in AfterLookup =>
                    /\ req[q].at \in AfterLookup /\ req'[q].i = req[q].i
                    /\ req'[q].size = req[q].size /\ req'[q].s = req[q].s
    <3>1. CASE req[q].at = "write" /\ req[q].s = s
      <4> DEFINE w == [req[q] EXCEPT !.at = "writeGone"]
      <4>1. req'[q] = w
        BY <1>3, <3>1 DEF UnlinkBlob
      <4>2. req[q] \in Working(Stages)
        BY <1>0, <3>1, WorkingRequest DEF ReqIdle
      <4>3. w \in Working(Stages) /\ w.at = "writeGone" /\ w.i = req[q].i
            /\ w.size = req[q].size /\ w.s = req[q].s
        BY <4>2 DEF Working, Stages, AfterLookup
      <4>4. req[q].at \in AfterLookup
        BY <3>1 DEF AfterLookup
      <4> HIDE DEF w
      <4> QED
        BY <4>1, <4>3, <4>4
    <3>2. CASE ~(req[q].at = "write" /\ req[q].s = s)
      <4>1. req'[q] = req[q]
        BY <1>3, <3>2 DEF UnlinkBlob
      <4>2. req[q] \in Working(Stages) \cup {Quiet}
        BY <1>0 DEF ReqType
      <4> QED
        BY <3>2, <4>1, <4>2
    <3> QED
      BY <3>1, <3>2
  <2>6. ReqType'
    <3>1. req' = [q \in Request |-> req'[q]]
      BY <1>3 DEF UnlinkBlob
    <3> QED
      BY <2>5, <3>1 DEF ReqType
  <2>7. ReqOK'
    BY <1>0, <2>5 DEF ReqOK, Start
  <2>8. WriterHasBlob'
    <3>1. ASSUME NEW q \in Request, req'[q].at = "write"
          PROVE  blob'[req'[q].s] # NoBlob
      <4>1. req'[q] = req[q] /\ req[q].s # s /\ req[q].at = "write" /\ ~ReqIdle(q)
        BY <2>5, <3>1 DEF ReqIdle
      <4>2. req[q].s \in Session
        BY <1>0, <4>1, WorkingRequest
      <4> QED
        BY <1>0, <2>4, <4>1, <4>2 DEF WriterHasBlob
    <3> QED
      BY <3>1 DEF WriterHasBlob
  <2> QED
    BY <1>0, <1>3, <1>d, <2>3, <2>4, <2>6, <2>7, <2>8, TypeParts
       DEF UnlinkBlob, SetsType
<1>4. ASSUME NEW s \in Session, UnlinkBlobFails(d, s)
      PROVE  TypeInv'
  <2> DEFINE v == [del[d] EXCEPT !.todo = del[d].todo \ {s},
                                 !.found = del[d].found \ {s}]
  <2>1. v \in Deleting
    BY <1>b DEF Deleting
  <2>2. del' = [del EXCEPT ![d] = v]
    BY <1>4 DEF UnlinkBlobFails
  <2> HIDE DEF v
  <2>3. DelType'
    BY <1>e, <2>1, <2>2
  <2> QED
    BY <1>0, <1>4, <1>c, <1>d, <2>3, Budget, TypeParts DEF UnlinkBlobFails, SetsType
<1>5. CASE EraseRows(d)
  <2>1. DelType'
    BY <1>0, <1>5 DEF EraseRows, DelType
  <2>2. storage' \in Int
    BY <1>0, <1>5, EraseFrees DEF SetsType
  <2>3. RowType'
    <3>1. CASE row' = Removed(del[d].found)
      BY <1>0, <3>1 DEF Removed, RowType, Exists
    <3> QED
      BY <1>5, <1>d, <3>1 DEF EraseRows
  <2> QED
    BY <1>0, <1>5, <1>c, <2>1, <2>2, <2>3, TypeParts DEF EraseRows, SetsType
<1>6. CASE EraseRowsFails(d)
  <2>1. DelType'
    BY <1>0, <1>6 DEF EraseRowsFails, DelType
  <2> QED
    BY <1>0, <1>6, <1>c, <1>d, <2>1, Budget, TypeParts DEF EraseRowsFails, SetsType
<1> QED
  BY <1>1, <1>2, <1>3, <1>4, <1>5, <1>6 DEF DeleteStep

(* and the steps of the cron job before it deletes. *)
LEMMA TypeCollectStep ==
    ASSUME TypeInv, CollectStep
    PROVE  TypeInv'
<1>0. /\ TypeOK /\ RowType /\ BlobType /\ SetsType /\ ReqType /\ DelType /\ ReqOK
      /\ WriterHasBlob /\ Cron \in Agents
  BY TypeParts DEF TypeInv, Agents
<1>1. UNCHANGED <<row, storage, blob, cached, req, hangups, issued, asked, budget>>
  BY DEF CollectStep, ListPlaceholders, CollectExpired, SiftPlaceholder
<1>2. RowType' /\ BlobType' /\ SetsType' /\ ReqType' /\ ReqOK' /\ WriterHasBlob'
  BY <1>0, <1>1 DEF RowType, BlobType, SetsType, ReqType, ReqOK, WriterHasBlob, Exists
<1>3. DelType'
  <2>1. ASSUME NEW v \in Deleting \cup {Idle}, del' = [del EXCEPT ![Cron] = v]
        PROVE  DelType'
    BY <1>0, <2>1 DEF DelType
  <2>2. CASE ListPlaceholders
    <3> DEFINE v == [at |-> "sift", todo |-> {s \in Session : Pending(s)},
                     found |-> {}, sizes |-> NoSizes]
    <3>1. v \in Deleting
      BY DEF Deleting, NoSizes
    <3>2. del' = [del EXCEPT ![Cron] = v]
      BY <2>2 DEF ListPlaceholders
    <3> HIDE DEF v
    <3> QED
      BY <2>1, <3>1, <3>2
  <2>3. ASSUME NEW s \in Session, SiftPlaceholder(s)
        PROVE  DelType'
    <3> DEFINE found == IF s \in cached THEN del[Cron].found ELSE del[Cron].found \cup {s}
               v == [del[Cron] EXCEPT !.todo = del[Cron].todo \ {s}, !.found = found]
    <3>1. /\ del[Cron] \in Deleting
          /\ del[Cron].todo \in SUBSET Session /\ del[Cron].found \in SUBSET Session
      BY <1>0, <2>3, WorkingDeleter DEF SiftPlaceholder
    <3>2. found \in SUBSET Session
      BY <3>1
    <3>3. del' = [del EXCEPT ![Cron] = v]
      BY <2>3 DEF SiftPlaceholder
    <3> HIDE DEF found
    <3>4. v \in Deleting
      BY <3>1, <3>2 DEF Deleting
    <3> HIDE DEF v
    <3> QED
      BY <2>1, <3>3, <3>4
  <2>4. CASE CollectExpired
    <3> DEFINE v == [del[Cron] EXCEPT !.at = "list"]
    <3>1. del[Cron] \in Deleting
      BY <1>0, <2>4, WorkingDeleter DEF CollectExpired
    <3>2. v \in Deleting
      BY <3>1 DEF Deleting
    <3>3. del' = [del EXCEPT ![Cron] = Idle] \/ del' = [del EXCEPT ![Cron] = v]
      BY <2>4 DEF CollectExpired
    <3> HIDE DEF v
    <3> QED
      BY <2>1, <3>2, <3>3
  <2> QED
    BY <2>2, <2>3, <2>4 DEF CollectStep
<1> QED
  BY <1>2, <1>3, TypeParts

(* The steps that start an activity of a request, a client, a deleter, the  *)
(* cache or the server, *)
LEMMA TypeOtherSteps ==
    ASSUME TypeInv,
           \/ \E r \in Request, s \in Session : BeginCreate(r, s)
           \/ \E r \in Request, s \in Session, i \in 0 .. MaxIndex : BeginChunk(r, s, i)
           \/ \E r \in Request : HangUp(r)
           \/ \E h \in hangups : TruncateCanceled(h)
           \/ \E d \in Deleter, S \in SUBSET Session : BeginDelete(d, S)
           \/ \E s \in Session : Expire(s)
           \/ Restart
    PROVE  TypeInv'
<1>0. /\ TypeOK /\ RowType /\ BlobType /\ SetsType /\ ReqType /\ DelType /\ ReqOK
      /\ WriterHasBlob
  BY TypeParts DEF TypeInv
<1>a. UNCHANGED <<req, blob>> => ReqType' /\ BlobType' /\ ReqOK' /\ WriterHasBlob'
  BY <1>0 DEF ReqType, BlobType, ReqOK, WriterHasBlob
<1>b. UNCHANGED row => RowType'
  BY <1>0 DEF RowType, Exists
<1>c. UNCHANGED del => DelType'
  BY <1>0 DEF DelType
<1>d. UNCHANGED blob /\ NoNewWriter /\ ReqType' => WriterHasBlob'
  BY KeepWriters
<1>e. UNCHANGED blob => BlobType'
  BY <1>0 DEF BlobType
<1>1. ASSUME NEW r \in Request, NEW s \in Session, NEW i \in Nat,
             NEW at \in BeforeLookup,
             req' = [req EXCEPT ![r] = [at |-> at, s |-> s, i |-> i, size |-> 0]]
      PROVE  ReqType' /\ ReqOK' /\ NoNewWriter
  <2> DEFINE v == [at |-> at, s |-> s, i |-> i, size |-> 0]
  <2>1. v \in Working(Stages) /\ v.at \notin AfterLookup /\ v.at # "write"
    BY <1>1 DEF Working, Stages, BeforeLookup, AfterLookup
  <2>2. req' = [req EXCEPT ![r] = v]
    BY <1>1
  <2> HIDE DEF v
  <2> QED
    BY <2>1, <2>2, AssignRequest
<1>2. ASSUME NEW r \in Request, NEW s \in Session, BeginCreate(r, s)
      PROVE  TypeInv'
  <2>1. "insert" \in BeforeLookup /\ 0 \in Nat
    BY DEF BeforeLookup
  <2>2. ReqType' /\ ReqOK' /\ NoNewWriter
    BY <1>1, <1>2, <2>1 DEF BeginCreate
  <2>3. SetsType'
    BY <1>0, <1>2 DEF BeginCreate, SetsType
  <2> QED
    BY <1>2, <1>b, <1>c, <1>d, <1>e, <2>2, <2>3, TypeParts DEF BeginCreate
<1>3. ASSUME NEW r \in Request, NEW s \in Session, NEW i \in 0 .. MaxIndex,
             BeginChunk(r, s, i)
      PROVE  TypeInv'
  <2>1. "lookup" \in BeforeLookup /\ i \in Nat
    BY BoundsAssumption DEF BeforeLookup
  <2>2. ReqType' /\ ReqOK' /\ NoNewWriter
    BY <1>1, <1>3, <2>1 DEF BeginChunk
  <2> QED
    BY <1>0, <1>3, <1>b, <1>c, <1>d, <1>e, <2>2, TypeParts DEF BeginChunk, SetsType
<1>4. ASSUME NEW r \in Request, HangUp(r)
      PROVE  TypeInv'
  <2>1. req[r].s \in Session /\ req[r].i \in Nat
    <3>1. ~ReqIdle(r)
      BY <1>4 DEF HangUp, ReqIdle
    <3> QED
      BY <1>0, <3>1, WorkingRequest
  <2>2. hangups' \subseteq [s : Session, i : Nat]
    BY <1>0, <1>4, <2>1 DEF HangUp, SetsType
  <2>3. SetsType'
    BY <1>0, <1>4, <2>2, Budget DEF HangUp, SetsType
  <2> QED
    BY <1>4, <1>a, <1>b, <1>c, <2>3, TypeParts DEF HangUp
<1>5. ASSUME NEW h \in hangups, TruncateCanceled(h)
      PROVE  TypeInv'
  <2>1. h.s \in Session /\ h.i \in Nat
    BY <1>0 DEF SetsType
  <2>2. BlobType' /\ \A t \in Session : blob[t] # NoBlob => blob'[t] # NoBlob
    <3>1. CASE blob[h.s] # NoBlob
      <4>1. blob[h.s] \in Seq(Int) /\ Start(h.i) \in Nat
        BY <1>0, <2>1, <3>1, ChunkArithmetic DEF BlobType
      <4>2. Resize(blob[h.s], Start(h.i)) \in Seq(Int)
        BY <4>1, SequencesOfBytes
      <4>3. blob' = [blob EXCEPT ![h.s] = Resize(blob[h.s], Start(h.i))]
        BY <1>5, <3>1 DEF TruncateCanceled
      <4> QED
        BY <1>0, <2>1, <4>2, <4>3, MarkersAssumption DEF BlobType
    <3> QED
      BY <1>0, <1>5, <3>1 DEF TruncateCanceled, BlobType
  <2>3. ReqType' /\ ReqOK' /\ NoNewWriter
    BY <1>0, <1>5 DEF TruncateCanceled, ReqType, ReqOK, NoNewWriter
  <2>4. WriterHasBlob'
    BY <2>2, <2>3, KeepWriters
  <2>5. SetsType'
    BY <1>0, <1>5 DEF TruncateCanceled, SetsType
  <2> QED
    BY <1>5, <1>b, <1>c, <2>2, <2>3, <2>4, <2>5, TypeParts DEF TruncateCanceled
<1>6. ASSUME NEW d \in Deleter, NEW S \in SUBSET Session, BeginDelete(d, S)
      PROVE  TypeInv'
  <2> DEFINE v == [at |-> "list", todo |-> {}, found |-> S, sizes |-> NoSizes]
  <2>1. v \in Deleting
    BY DEF Deleting, NoSizes
  <2>2. del' = [del EXCEPT ![d] = v] /\ d \in Agents
    BY <1>6 DEF BeginDelete, Agents
  <2> HIDE DEF v
  <2>3. DelType'
    BY <1>0, <2>1, <2>2 DEF DelType
  <2>4. SetsType'
    BY <1>0, <1>6 DEF BeginDelete, SetsType
  <2> QED
    BY <1>6, <1>a, <1>b, <2>3, <2>4, TypeParts DEF BeginDelete
<1>7. ASSUME NEW s \in Session, Expire(s)
      PROVE  TypeInv'
  <2>1. SetsType'
    BY <1>0, <1>7 DEF Expire, SetsType
  <2> QED
    BY <1>7, <1>a, <1>b, <1>c, <2>1, TypeParts DEF Expire
<1>8. CASE Restart
  <2>1. SetsType'
    BY <1>0, <1>8, Budget DEF Restart, SetsType
  <2>2. ReqType' /\ DelType'
    BY <1>8 DEF Restart, ReqType, DelType
  <2>3. ReqOK' /\ WriterHasBlob'
    BY <1>8 DEF Restart, ReqOK, WriterHasBlob, Quiet, AfterLookup
  <2> QED
    BY <1>8, <1>b, <1>e, <2>1, <2>2, <2>3, TypeParts DEF Restart
<1> QED
  BY <1>2, <1>3, <1>4, <1>5, <1>6, <1>7, <1>8

(* hence every step, stuttering included. *)
LEMMA TypeNext == TypeInv /\ [Next]_vars => TypeInv'
<1> SUFFICES ASSUME TypeInv, [Next]_vars PROVE TypeInv'
  OBVIOUS
<1>1. CASE Next
  BY <1>1, TypeRequestStep, TypeDeleteStep, TypeCollectStep, TypeOtherSteps DEF Next
<1>2. CASE UNCHANGED vars
  BY <1>2 DEF vars, TypeInv, TypeOK, ReqOK, WriterHasBlob, Exists
<1> QED
  BY <1>1, <1>2

(* Whatever requests, deletions, faults and restarts are interleaved, every *)
(* variable keeps its type and no row outgrows its declared size.           *)
THEOREM TypeCorrect == Spec => []TypeOK
<1>1. TypeInv => TypeOK
  BY DEF TypeInv
<1> QED
  BY <1>1, TypeInit, TypeNext, PTL DEF Spec
-----------------------------------------------------------------------------
(* The quota.  Every request in flight has passed the capacity check for a  *)
(* chunk it has not been charged for.  The one that passed it last, b, did  *)
(* so when the charge and its chunk were within the quota together; each of *)
(* the others can add one chunk to that.                                    *)

Uncharged == {"lookup", "check", "open", "write", "writeGone", "charge"}
InFlight == {r \in Request : req[r].at \in Uncharged
                             /\ ChunkLen(req[r].s, req[r].i) > 0}
Due(r) == IF r \in InFlight THEN ChunkLen(req[r].s, req[r].i) ELSE 0
Limit == Quota + (Cardinality(Request) - 1) * LongestChunk
QuotaInv ==
    \E b \in Request :
        storage + Due(b) + LongestChunk * Cardinality(InFlight \ {b}) <= Limit

(* No request comes into flight, and those in flight keep their chunks. *)
Calm == \A q \in Request : req'[q].at \in Uncharged =>
            req[q].at \in Uncharged /\ req'[q].s = req[q].s /\ req'[q].i = req[q].i

(* Products with the longest chunk grow with the number of requests. *)
LEMMA Monotone ==
    ASSUME NEW m \in Nat, NEW n \in Nat, m <= n
    PROVE  /\ LongestChunk \in Nat /\ LongestChunk * m \in Nat
           /\ LongestChunk * m <= LongestChunk * n
           /\ LongestChunk * (m + 1) = LongestChunk * m + LongestChunk
<1>1. LongestChunk \in Nat
  BY SizesAssumption DEF LongestChunk
<1> DEFINE L == LongestChunk
<1>2. L \in Nat
  BY <1>1
<1> HIDE DEF L
<1>3. PICK k \in Nat : n = m + k
  BY n - m \in Nat
<1>4. L * n = L * m + L * k /\ L * k \in Nat /\ L * m \in Nat
  BY <1>2, <1>3
<1>5. L * (m + 1) = L * m + L
  BY <1>2
<1> QED
  BY <1>2, <1>4, <1>5 DEF L

(* Requests in flight are finitely many, and each owes at most one chunk. *)
LEMMA DueBounds ==
    ASSUME NEW r \in Request, TypeOK
    PROVE  /\ Due(r) \in Nat /\ Due(r) <= LongestChunk
           /\ IsFiniteSet(InFlight \ {r}) /\ Cardinality(InFlight \ {r}) \in Nat
<1>1. IsFiniteSet(InFlight \ {r}) /\ Cardinality(InFlight \ {r}) \in Nat
  <2>1. InFlight \ {r} \subseteq Request
    BY DEF InFlight
  <2> QED
    BY <2>1, FS_Subset, FS_CardinalityType, AgentsAssumption
<1>2. CASE r \in InFlight
  <2>1. ~ReqIdle(r)
    BY <1>2 DEF InFlight, Uncharged, ReqIdle
  <2>2. req[r].s \in Session /\ req[r].i \in Nat
    BY <2>1, WorkingRequest
  <2> QED
    BY <1>1, <1>2, <2>2, ChunkArithmetic DEF Due, InFlight
<1>3. CASE r \notin InFlight
  BY <1>1, <1>3, SizesAssumption DEF Due, LongestChunk
<1> QED
  BY <1>2, <1>3

(* Steps that charge nothing and put nothing in flight keep the invariant. *)
LEMMA CalmStep ==
    ASSUME TypeOK, TypeOK', QuotaInv, Calm, storage' <= storage
    PROVE  QuotaInv'
<1>1. PICK b \in Request :
        storage + Due(b) + LongestChunk * Cardinality(InFlight \ {b}) <= Limit
  BY DEF QuotaInv
<1>2. InFlight' \subseteq InFlight
  BY DEF Calm, InFlight, ChunkLen, IsLastChunk, Start
<1>3. Due(b) \in Nat /\ Due(b)' \in Nat /\ Due(b)' <= Due(b)
  <2>1. Due(b) \in Nat
    BY DueBounds
  <2>2. CASE b \in InFlight'
    <3>1. req'[b].s = req[b].s /\ req'[b].i = req[b].i /\ b \in InFlight
      BY <1>2, <2>2 DEF Calm, InFlight
    <3>2. Due(b)' = Due(b)
      BY <2>2, <3>1 DEF Due, ChunkLen, IsLastChunk, Start
    <3> QED
      BY <2>1, <3>2
  <2>3. CASE b \notin InFlight'
    BY <2>1, <2>3 DEF Due
  <2> QED
    BY <2>2, <2>3
<1>4. /\ IsFiniteSet(InFlight \ {b}) /\ Cardinality(InFlight \ {b}) \in Nat
      /\ InFlight' \ {b} \subseteq InFlight \ {b}
  BY <1>2, DueBounds
<1>5. /\ Cardinality(InFlight' \ {b}) \in Nat
      /\ Cardinality(InFlight' \ {b}) <= Cardinality(InFlight \ {b})
  BY <1>4, FS_Subset, FS_CardinalityType
<1>6. /\ LongestChunk * Cardinality(InFlight' \ {b}) \in Nat
      /\ LongestChunk * Cardinality(InFlight \ {b}) \in Nat
      /\ LongestChunk * Cardinality(InFlight' \ {b})
           <= LongestChunk * Cardinality(InFlight \ {b})
  BY <1>4, <1>5, Monotone
<1>7. storage \in Int /\ storage' \in Int /\ Limit \in Int
  <2>1. Cardinality(Request) \in Nat /\ LongestChunk \in Nat /\ Quota \in Nat
    BY FS_CardinalityType, AgentsAssumption, SizesAssumption DEF LongestChunk
  <2> QED
    BY <2>1 DEF TypeOK, Limit
<1>8. storage' + Due(b)' + LongestChunk * Cardinality(InFlight' \ {b}) <= Limit
  BY <1>1, <1>3, <1>6, <1>7
<1>9. (storage + Due(b) + LongestChunk * Cardinality(InFlight \ {b}) <= Limit)'
  BY <1>8 DEF Limit, LongestChunk
<1> QED
  BY <1>9 DEF QuotaInv

(* A request that passes the check: it is the last to have done so. *)
LEMMA QuotaBeginChunk ==
    ASSUME TypeInv, TypeInv', QuotaInv,
           NEW r \in Request, NEW s \in Session, NEW i \in 0 .. MaxIndex,
           BeginChunk(r, s, i)
    PROVE  QuotaInv'
<1>0. TypeOK /\ TypeOK' /\ i \in Nat
  BY BoundsAssumption DEF TypeInv
<1>1. /\ storage' = storage /\ storage \in Int /\ HasCapacity(ChunkLen(s, i))
      /\ req' = [req EXCEPT ![r] = [at |-> "lookup", s |-> s, i |-> i, size |-> 0]]
      /\ req[r].at = "idle"
  BY <1>0 DEF BeginChunk, TypeOK, ReqIdle
<1>2. \A q \in Request : req'[q] = IF q = r
        THEN [at |-> "lookup", s |-> s, i |-> i, size |-> 0] ELSE req[q]
  BY <1>0, <1>1 DEF TypeOK
<1>3. ChunkLen(s, i) \in Int
  BY <1>0, ChunkArithmetic
<1>4. CASE ChunkLen(s, i) > 0
  <2>1. storage + ChunkLen(s, i) <= Quota
    BY <1>1, <1>3, <1>4, SizesAssumption DEF HasCapacity
  <2>2. Due(r)' = ChunkLen(s, i)
    BY <1>2, <1>4, "lookup" \in Uncharged
       DEF Due, InFlight, Uncharged, ChunkLen, IsLastChunk, Start
  <2>3. /\ IsFiniteSet(Request \ {r})
        /\ Cardinality(Request \ {r}) = Cardinality(Request) - 1
        /\ Cardinality(Request \ {r}) \in Nat
    BY AgentsAssumption, FS_RemoveElement, FS_CardinalityType
  <2>4. /\ InFlight' \ {r} \subseteq Request \ {r}
        /\ Cardinality(InFlight' \ {r}) <= Cardinality(Request \ {r})
        /\ Cardinality(InFlight' \ {r}) \in Nat
    <3>1. InFlight' \ {r} \subseteq Request \ {r}
      BY DEF InFlight
    <3> QED
      BY <2>3, <3>1, FS_Subset, FS_CardinalityType
  <2>5. /\ LongestChunk * Cardinality(InFlight' \ {r})
             <= LongestChunk * Cardinality(Request \ {r})
        /\ LongestChunk * Cardinality(InFlight' \ {r}) \in Nat
        /\ LongestChunk * Cardinality(Request \ {r}) \in Nat
    BY <2>3, <2>4, Monotone
  <2>6. Limit = Quota + LongestChunk * Cardinality(Request \ {r}) /\ Quota \in Nat
    <3>1. Cardinality(Request) - 1 \in Nat /\ LongestChunk \in Nat /\ Quota \in Nat
      BY <2>3, SizesAssumption DEF LongestChunk
    <3> QED
      BY <2>3, <3>1 DEF Limit
  <2>7. storage' + Due(r)' + LongestChunk * Cardinality(InFlight' \ {r}) <= Limit
    BY <1>1, <1>3, <2>1, <2>2, <2>5, <2>6
  <2>8. (storage + Due(r) + LongestChunk * Cardinality(InFlight \ {r}) <= Limit)'
    BY <2>7 DEF Limit, LongestChunk
  <2> QED
    BY <2>8 DEF QuotaInv
<1>5. CASE ~(ChunkLen(s, i) > 0)
  <2>1. InFlight' = InFlight
    BY <1>1, <1>2, <1>5 DEF InFlight, ChunkLen, IsLastChunk, Start, Uncharged
  <2>2. \A q \in Request : Due(q)' = Due(q)
    <3>1. ASSUME NEW q \in Request PROVE Due(q)' = Due(q)
      <4>1. CASE q \in InFlight
        <5>1. q # r
          BY <1>1, <4>1 DEF InFlight, Uncharged
        <5> QED
          BY <1>2, <2>1, <4>1, <5>1 DEF Due, ChunkLen, IsLastChunk, Start
      <4>2. CASE q \notin InFlight
        BY <2>1, <4>2 DEF Due
      <4> QED
        BY <4>1, <4>2
    <3> QED
      BY <3>1
  <2>3. PICK b \in Request :
          storage + Due(b) + LongestChunk * Cardinality(InFlight \ {b}) <= Limit
    BY DEF QuotaInv
  <2>4. (storage + Due(b) + LongestChunk * Cardinality(InFlight \ {b}) <= Limit)'
    BY <1>1, <2>1, <2>2, <2>3 DEF Limit, LongestChunk
  <2> QED
    BY <2>4 DEF QuotaInv
<1> QED
  BY <1>4, <1>5

(* A request that is charged: it was in flight for at least that much. *)
LEMMA QuotaChargeChunk ==
    ASSUME TypeInv, TypeInv', QuotaInv, NEW r \in Request, ChargeChunk(r)
    PROVE  QuotaInv'
<1> DEFINE len == ChunkLen(req[r].s, req[r].i)
<1>0. TypeOK /\ TypeOK' /\ ReqOK /\ req[r].at = "charge" /\ ~ReqIdle(r)
      /\ storage \in Int /\ storage' \in Int
  BY DEF TypeInv, TypeOK, ChargeChunk, ReqIdle
<1>1. /\ req[r].s \in Session /\ req[r].i \in Nat /\ req[r].size \in Nat
      /\ req[r] \in Working(Stages)
  BY <1>0, WorkingRequest
<1>2. len \in Int /\ len <= LongestChunk
  BY <1>1, ChunkArithmetic
<1>3. storage' <= storage + len
  <2>1. Start(req[r].i) \in Nat /\ Start(req[r].i) <= req[r].size
    BY <1>0, <1>1, ChunkArithmetic DEF ReqOK, AfterLookup
  <2>2. storage' = storage + (End(req[r].s, req[r].i) - req[r].size)
    BY DEF ChargeChunk, UpdateSize
  <2>3. End(req[r].s, req[r].i) = Start(req[r].i) + len
    BY DEF End
  <2> HIDE DEF len
  <2> QED
    BY <1>0, <1>1, <1>2, <2>1, <2>2, <2>3
<1> HIDE DEF len
<1>4. /\ \A q \in Request \ {r} : req'[q] = req[q]
      /\ req'[r].at \notin Uncharged
  <2>1. req \in [Request -> Working(Stages) \cup {Quiet}]
    BY <1>0 DEF TypeOK, Stages
  <2>2. CASE Leave(r)
    BY <2>1, <2>2 DEF Leave, Quiet, Uncharged
  <2>3. CASE req' = [req EXCEPT ![r].at = "promote",
                                ![r].size = End(req[r].s, req[r].i)]
    <3> DEFINE v == [req[r] EXCEPT !.at = "promote",
                                   !.size = End(req[r].s, req[r].i)]
    <3>1. v.at = "promote"
      BY <1>1 DEF Working
    <3>2. req' = [req EXCEPT ![r] = v]
      BY <2>3
    <3> HIDE DEF v
    <3> QED
      BY <2>1, <3>1, <3>2 DEF Uncharged
  <2> QED
    BY <2>2, <2>3 DEF ChargeChunk
<1>5. Calm
  BY <1>4 DEF Calm
<1>6. CASE len <= 0
  BY <1>0, <1>2, <1>3, <1>5, <1>6, CalmStep
<1>7. CASE len > 0
  <2>1. InFlight' = InFlight \ {r} /\ r \in InFlight
    <3>1. r \in InFlight /\ r \notin InFlight'
      BY <1>0, <1>4, <1>7 DEF InFlight, Uncharged, len
    <3>2. \A q \in Request \ {r} : q \in InFlight' <=> q \in InFlight
      BY <1>4 DEF InFlight, ChunkLen, IsLastChunk, Start
    <3>3. InFlight \subseteq Request /\ InFlight' \subseteq Request
      BY DEF InFlight
    <3> QED
      BY <3>1, <3>2, <3>3
  <2>2. \A q \in Request : Due(q)' = IF q = r THEN 0 ELSE Due(q)
    <3>1. ASSUME NEW q \in Request \ {r} PROVE Due(q)' = Due(q)
      BY <1>4, <2>1, <3>1 DEF Due, ChunkLen, IsLastChunk, Start
    <3>2. Due(r)' = 0
      BY <2>1 DEF Due
    <3> QED
      BY <3>1, <3>2
  <2>3. PICK b \in Request :
          storage + Due(b) + LongestChunk * Cardinality(InFlight \ {b}) <= Limit
    BY DEF QuotaInv
  <2>4. /\ IsFiniteSet(InFlight \ {b}) /\ Cardinality(InFlight \ {b}) \in Nat
        /\ Due(b) \in Nat
    BY <1>0, DueBounds
  <2>5. Limit \in Int /\ LongestChunk \in Nat
    <3>1. Cardinality(Request) \in Nat /\ LongestChunk \in Nat /\ Quota \in Nat
      BY FS_CardinalityType, AgentsAssumption, SizesAssumption DEF LongestChunk
    <3> QED
      BY <3>1 DEF Limit
  <2>6. storage' + Due(b)' + LongestChunk * Cardinality(InFlight' \ {b}) <= Limit
    <3>1. CASE b = r
      <4>1. Due(b) = len /\ Due(b)' = 0 /\ InFlight' \ {b} = InFlight \ {b}
        BY <2>1, <2>2, <3>1 DEF Due, len
      <4>2. LongestChunk * Cardinality(InFlight \ {b}) \in Nat
        BY <2>4, Monotone
      <4> QED
        BY <1>0, <1>2, <1>3, <2>3, <2>5, <4>1, <4>2
    <3>2. CASE b # r
      <4> DEFINE m == Cardinality(InFlight' \ {b})
      <4>1. InFlight' \ {b} = (InFlight \ {b}) \ {r} /\ r \in InFlight \ {b}
        BY <2>1, <3>2
      <4>2. m \in Nat /\ Cardinality(InFlight \ {b}) = m + 1
        <5>1. /\ IsFiniteSet((InFlight \ {b}) \ {r})
              /\ Cardinality((InFlight \ {b}) \ {r}) = Cardinality(InFlight \ {b}) - 1
          BY <2>4, <4>1, FS_RemoveElement
        <5>2. Cardinality((InFlight \ {b}) \ {r}) \in Nat
          BY <5>1, FS_CardinalityType
        <5> QED
          BY <2>4, <4>1, <5>1, <5>2
      <4> HIDE DEF m
      <4>3. /\ LongestChunk * Cardinality(InFlight \ {b})
                 = LongestChunk * m + LongestChunk
            /\ LongestChunk * m \in Nat
        <5>1. m <= m
          BY <4>2
        <5> QED
          BY <4>2, <5>1, Monotone
      <4>4. Due(b)' = Due(b)
        BY <2>2, <3>2
      <4>5. storage' + Due(b)' + LongestChunk * m <= Limit
        BY <1>0, <1>2, <1>3, <2>3, <2>4, <2>5, <4>3, <4>4
      <4> QED
        BY <4>5 DEF m
    <3> QED
      BY <3>1, <3>2
  <2>7. (storage + Due(b) + LongestChunk * Cardinality(InFlight \ {b}) <= Limit)'
    BY <2>6 DEF Limit, LongestChunk
  <2> QED
    BY <2>7 DEF QuotaInv
<1> QED
  BY <1>2, <1>6, <1>7

(* The steps of a request other than its charge are calm. *)
LEMMA QuotaRequestStep ==
    ASSUME TypeInv, TypeInv', QuotaInv, NEW r \in Request, RequestStep(r)
    PROVE  QuotaInv'
<1>0. TypeOK /\ TypeOK' /\ ReqOK /\ storage \in Int
      /\ req \in [Request -> Working(Stages) \cup {Quiet}]
  BY DEF TypeInv, TypeOK, Stages
<1>a. ASSUME NEW v, req' = [req EXCEPT ![r] = v],
             v.at \in Uncharged => req[r].at \in Uncharged
                                   /\ v.s = req[r].s /\ v.i = req[r].i
      PROVE  Calm
  <2>1. \A q \in Request : req'[q] = IF q = r THEN v ELSE req[q]
    BY <1>0, <1>a
  <2> QED
    BY <1>a, <2>1 DEF Calm
<1>b. Leave(r) => Calm
  <2>1. Quiet.at \notin Uncharged
    BY DEF Quiet, Uncharged
  <2> QED
    BY <1>a, <2>1 DEF Leave
<1>c. ASSUME NEW at, Goto(r, at), ~ReqIdle(r),
             at \in Uncharged => req[r].at \in Uncharged
      PROVE  Calm
  <2> DEFINE v == [req[r] EXCEPT !.at = at]
  <2>1. req[r] \in Working(Stages)
    BY <1>0, <1>c, WorkingRequest
  <2>2. v.at = at /\ v.s = req[r].s /\ v.i = req[r].i
    BY <2>1 DEF Working
  <2>3. req' = [req EXCEPT ![r] = v]
    BY <1>c DEF Goto
  <2> HIDE DEF v
  <2> QED
    BY <1>a, <1>c, <2>2, <2>3
<1>d. Calm /\ storage' = storage => QuotaInv'
  BY <1>0, CalmStep
<1>1. CASE InsertPlaceholder(r)
  BY <1>1, <1>b, <1>c, <1>d DEF InsertPlaceholder, ReqIdle, Uncharged
<1>2. CASE RegisterSession(r)
  BY <1>2, <1>b, <1>d DEF RegisterSession
<1>3. CASE LookupPlaceholder(r)
  <2>1. CASE Leave(r)
    BY <1>3, <1>b, <1>d, <2>1 DEF LookupPlaceholder
  <2>2. CASE req' = [req EXCEPT ![r].at = IF req[r].i = 0 THEN "check" ELSE "open",
                                ![r].size = row[req[r].s].size]
    <3> DEFINE at == IF req[r].i = 0 THEN "check" ELSE "open"
               v == [req[r] EXCEPT !.at = at, !.size = row[req[r].s].size]
    <3>1. req[r] \in Working(Stages) /\ req[r].at \in Uncharged
      BY <1>0, <1>3, WorkingRequest DEF LookupPlaceholder, ReqIdle, Uncharged
    <3>2. v.s = req[r].s /\ v.i = req[r].i
      BY <3>1 DEF Working
    <3>3. req' = [req EXCEPT ![r] = v]
      BY <2>2
    <3> HIDE DEF v
    <3>4. Calm
      BY <1>a, <3>1, <3>2, <3>3
    <3> QED
      BY <1>3, <1>d, <3>4 DEF LookupPlaceholder
  <2> QED
    BY <1>3, <2>1, <2>2 DEF LookupPlaceholder
<1>4. CASE CheckNotExists(r)
  <2>1. req[r].at \in Uncharged /\ ~ReqIdle(r)
    BY <1>4 DEF CheckNotExists, Uncharged, ReqIdle
  <2>2. Calm
    BY <1>4, <1>b, <1>c, <2>1 DEF CheckNotExists
  <2> QED
    BY <1>4, <1>d, <2>2 DEF CheckNotExists
<1>5. CASE OpenBlob(r)
  <2>1. req[r].at \in Uncharged /\ ~ReqIdle(r) /\ (Leave(r) \/ Goto(r, "write"))
    BY <1>5 DEF OpenBlob, Uncharged, ReqIdle
  <2>2. Calm
    BY <1>b, <1>c, <2>1
  <2> QED
    BY <1>5, <1>d, <2>2 DEF OpenBlob
<1>6. CASE WriteChunk(r)
  <2>1. req[r].at \in Uncharged /\ ~ReqIdle(r) /\ Goto(r, "charge")
    BY <1>6 DEF WriteChunk, AppendChunk, Uncharged
  <2>2. Calm
    BY <1>c, <2>1
  <2> QED
    BY <1>6, <1>d, <2>2 DEF WriteChunk
<1>7. CASE WritePartOfChunk(r)
  BY <1>7, <1>b, <1>d DEF WritePartOfChunk
<1>8. CASE ChargeChunk(r)
  BY <1>8, QuotaChargeChunk
<1>9. CASE ChargeChunkFails(r)
  <2>1. req[r] \in Working(Stages)
    BY <1>0, <1>9, WorkingRequest DEF ChargeChunkFails, ReqIdle
  <2>0. PICK known :
          req' = [req EXCEPT ![r].at = "truncate", ![r].size = known]
    BY <1>9 DEF ChargeChunkFails
  <2> DEFINE v == [req[r] EXCEPT !.at = "truncate", !.size = known]
  <2>2. v.at \notin Uncharged
    BY <2>1 DEF Working, Uncharged
  <2>3. req' = [req EXCEPT ![r] = v]
    BY <2>0
  <2> HIDE DEF v
  <2>4. Calm
    BY <1>a, <2>2, <2>3
  <2> QED
    BY <1>9, <1>d, <2>4 DEF ChargeChunkFails
<1>10. CASE PromotePlaceholder(r) \/ PromotePlaceholderFails(r)
  <2>1. /\ ~ReqIdle(r) /\ storage' = storage
        /\ \E at \in {"unregister", "truncate"} : Goto(r, at)
    BY <1>10 DEF PromotePlaceholder, PromotePlaceholderFails, ReqIdle
  <2>2. Calm
    BY <1>c, <2>1 DEF Uncharged
  <2> QED
    BY <1>d, <2>1, <2>2
<1>11. CASE UnregisterSession(r)
  BY <1>11, <1>b, <1>d DEF UnregisterSession
<1>12. CASE TruncateChunk(r)
  <2>1. /\ ~ReqIdle(r) /\ storage' = storage
        /\ Leave(r) \/ Goto(r, "refund")
    BY <1>12 DEF TruncateChunk, ReqIdle
  <2>2. Calm
    BY <1>b, <1>c, <2>1 DEF Uncharged
  <2> QED
    BY <1>d, <2>1, <2>2
<1>13. CASE RefundChunk(r)
  <2>1. ~ReqIdle(r) /\ req[r].at \in AfterLookup
    BY <1>13 DEF RefundChunk, ReqIdle, AfterLookup
  <2>2. /\ req[r].size \in Nat /\ Start(req[r].i) \in Nat
        /\ Start(req[r].i) <= req[r].size
    BY <1>0, <2>1, WorkingRequest, ChunkArithmetic DEF ReqOK
  <2>3. storage' <= storage
    BY <1>0, <1>13, <2>2 DEF RefundChunk, UpdateSize
  <2> QED
    BY <1>0, <1>13, <1>b, <2>3, CalmStep DEF RefundChunk
<1>14. CASE RefundChunkFails(r)
  BY <1>14, <1>b, <1>d DEF RefundChunkFails
<1>15. CASE InsertPlaceholderFails(r)
  BY <1>15, <1>b, <1>d DEF InsertPlaceholderFails
<1> QED
  BY <1>1, <1>2, <1>3, <1>4, <1>5, <1>6, <1>7, <1>8, <1>9, <1>10, <1>11, <1>12,
     <1>13, <1>14, <1>15 DEF RequestStep

(* Deletions take capacity back, and turn writers into writers without a    *)
(* file; nothing else touches the charge.                                   *)
LEMMA QuotaNext ==
    ASSUME TypeInv, TypeInv', QuotaInv, [Next]_vars
    PROVE  QuotaInv'
<1>0. TypeOK /\ TypeOK' /\ storage \in Int
      /\ req \in [Request -> Working(Stages) \cup {Quiet}]
  BY DEF TypeInv, TypeOK, Stages
<1>a. ASSUME UNCHANGED req, storage' <= storage PROVE QuotaInv'
  <2>1. Calm
    BY <1>a DEF Calm
  <2> QED
    BY <1>0, <1>a, <2>1, CalmStep
<1>b. UNCHANGED <<req, storage>> => QuotaInv'
  BY <1>0, <1>a
<1>1. CASE \E r \in Request, s \in Session : BeginCreate(r, s)
  <2>1. PICK r \in Request, s \in Session : BeginCreate(r, s)
    BY <1>1
  <2>2. \A q \in Request : req'[q] = IF q = r
          THEN [at |-> "insert", s |-> s, i |-> 0, size |-> 0] ELSE req[q]
    BY <1>0, <2>1 DEF BeginCreate
  <2>3. Calm
    BY <2>2 DEF Calm, Uncharged
  <2> QED
    BY <1>0, <2>1, <2>3, CalmStep DEF BeginCreate
<1>2. CASE \E r \in Request, s \in Session, i \in 0 .. MaxIndex : BeginChunk(r, s, i)
  BY <1>2, QuotaBeginChunk
<1>3. CASE \E r \in Request : RequestStep(r)
  BY <1>3, QuotaRequestStep
<1>4. CASE \E r \in Request : HangUp(r)
  BY <1>4, <1>b DEF HangUp
<1>5. CASE \E h \in hangups : TruncateCanceled(h)
  BY <1>5, <1>b DEF TruncateCanceled
<1>6. CASE \E d \in Deleter, S \in SUBSET Session : BeginDelete(d, S)
  BY <1>6, <1>b DEF BeginDelete
<1>7. CASE \E d \in Agents : DeleteStep(d)
  <2>1. PICK d \in Agents : DeleteStep(d)
    BY <1>7
  <2>2. CASE ListFiles(d) \/ CancelSessions(d) \/ EraseRowsFails(d)
             \/ \E s \in Session : UnlinkBlobFails(d, s)
    BY <1>b, <2>2 DEF ListFiles, CancelSessions, EraseRowsFails, UnlinkBlobFails
  <2>3. CASE EraseRows(d)
    <3>1. storage' <= storage
      BY <1>0, <2>3, EraseFrees
    <3> QED
      BY <1>a, <2>3, <3>1 DEF EraseRows
  <2>4. ASSUME NEW s \in Session, UnlinkBlob(d, s) PROVE QuotaInv'
    <3>1. ASSUME NEW q \in Request, req'[q].at \in Uncharged
          PROVE  req[q].at \in Uncharged /\ req'[q].s = req[q].s
                 /\ req'[q].i = req[q].i
      <4>1. CASE req[q].at = "write" /\ req[q].s = s
        <5>1. req[q] \in Working(Stages)
          BY <1>0, <4>1, WorkingRequest DEF ReqIdle
        <5>2. req'[q] = [req[q] EXCEPT !.at = "writeGone"]
          BY <2>4, <4>1 DEF UnlinkBlob
        <5> QED
          BY <4>1, <5>1, <5>2 DEF Working, Uncharged
      <4>2. CASE ~(req[q].at = "write" /\ req[q].s = s)
        <5>1. req'[q] = req[q]
          BY <2>4, <4>2 DEF UnlinkBlob
        <5> QED
          BY <3>1, <5>1
      <4> QED
        BY <4>1, <4>2
    <3>2. Calm
      BY <3>1 DEF Calm
    <3> QED
      BY <1>0, <2>4, <3>2, CalmStep DEF UnlinkBlob
  <2> QED
    BY <2>1, <2>2, <2>3, <2>4 DEF DeleteStep
<1>8. CASE CollectStep
  BY <1>8, <1>b DEF CollectStep, ListPlaceholders, CollectExpired, SiftPlaceholder
<1>9. CASE \E s \in Session : Expire(s)
  BY <1>9, <1>b DEF Expire
<1>10. CASE Restart
  <2>1. Calm
    BY <1>10 DEF Restart, Calm, Quiet, Uncharged
  <2> QED
    BY <1>0, <1>10, <2>1, CalmStep DEF Restart
<1>11. CASE UNCHANGED vars
  BY <1>11, <1>b DEF vars
<1> QED
  BY <1>1, <1>2, <1>3, <1>4, <1>5, <1>6, <1>7, <1>8, <1>9, <1>10, <1>11 DEF Next

(* At the start nothing is in flight and nothing charged. *)
LEMMA QuotaInit == Init => QuotaInv
<1> SUFFICES ASSUME Init PROVE QuotaInv
  OBVIOUS
<1>1. InFlight = {}
  BY DEF Init, InFlight, Quiet, Uncharged
<1>2. PICK b : b \in Request
  BY AgentsAssumption
<1>3. Due(b) = 0 /\ Cardinality(InFlight \ {b}) = 0 /\ storage = 0
  BY <1>1, FS_EmptySet DEF Due, Init
<1>4. Limit \in Nat
  <2>1. /\ Cardinality(Request) \in Nat
        /\ Cardinality(Request \ {b}) = Cardinality(Request) - 1
        /\ IsFiniteSet(Request \ {b})
    BY <1>2, AgentsAssumption, FS_CardinalityType, FS_RemoveElement
  <2>2. Cardinality(Request \ {b}) \in Nat
    BY <2>1, FS_CardinalityType
  <2>3. Quota \in Nat /\ LongestChunk \in Nat
    BY SizesAssumption DEF LongestChunk
  <2>4. LongestChunk * Cardinality(Request \ {b}) \in Nat
    BY <2>2, Monotone
  <2>5. Limit = Quota + LongestChunk * Cardinality(Request \ {b})
    BY <2>1, <2>3 DEF Limit
  <2> QED
    BY <2>3, <2>4, <2>5
<1>5. LongestChunk * 0 = 0
  BY SizesAssumption DEF LongestChunk
<1>6. storage + Due(b) + LongestChunk * Cardinality(InFlight \ {b}) <= Limit
  BY <1>3, <1>4, <1>5
<1> QED
  BY <1>2, <1>6 DEF QuotaInv

(* The invariant says more than the bound. *)
LEMMA QuotaBound == TypeInv /\ QuotaInv => OvershootBounded
<1> SUFFICES ASSUME TypeInv, QuotaInv PROVE OvershootBounded
  OBVIOUS
<1>0. TypeOK /\ storage \in Int
  BY DEF TypeInv, TypeOK
<1>1. PICK b \in Request :
        storage + Due(b) + LongestChunk * Cardinality(InFlight \ {b}) <= Limit
  BY DEF QuotaInv
<1>2. Due(b) \in Nat /\ Cardinality(InFlight \ {b}) \in Nat
  BY <1>0, DueBounds
<1>3. LongestChunk * Cardinality(InFlight \ {b}) \in Nat
  BY <1>2, Monotone
<1>4. Limit \in Int
  <2>1. Cardinality(Request) \in Nat /\ LongestChunk \in Nat /\ Quota \in Nat
    BY FS_CardinalityType, AgentsAssumption, SizesAssumption DEF LongestChunk
  <2> QED
    BY <2>1 DEF Limit
<1>5. storage <= Limit
  BY <1>0, <1>1, <1>2, <1>3, <1>4
<1> QED
  BY <1>5 DEF OvershootBounded, Limit

(* For every number of sessions and requests, every chunk size and every    *)
(* quota, the user is never charged for more than the quota and one longest *)
(* chunk for each request beyond the first.                                 *)
THEOREM OvershootSafe == Spec => []OvershootBounded
<1> DEFINE IInv == TypeInv /\ QuotaInv
<1>1. Init => IInv
  BY TypeInit, QuotaInit
<1>2. IInv /\ [Next]_vars => IInv'
  BY TypeNext, QuotaNext
<1>3. IInv => OvershootBounded
  BY QuotaBound
<1> QED
  BY <1>1, <1>2, <1>3, PTL DEF Spec
-----------------------------------------------------------------------------
(* Sums over finite sets.  Ledger adds up the charges of all sessions with   *)
(* the fold of the community modules, which is defined by a recursive       *)
(* function: that the sum changes by what one row changes is proved from    *)
(* its equation, by least counterexamples.                                  *)

(* The sum of f over S. *)
Total(f, S) == FoldFunctionOnSet(+, 0, f, S)

(* A nonempty set of natural numbers has a least element: induction over     *)
(* numbers, by the element that would be the first to break a claim.        *)
LEMMA LeastNatural ==
    ASSUME NEW T \in SUBSET Nat, T # {}
    PROVE  \E n \in T : \A m \in T : n <= m
<1>1. PICK x \in T : \A y \in T : <<y, x>> \notin OpToRel(<, Nat)
  BY NatLessThanWellFounded, WFMin
<1>2. \A y \in T : ~(y < x)
  BY <1>1 DEF OpToRel
<1> QED
  BY <1>2

(* A least subset with a property: induction over finite sets. *)
LEMMA LeastSubset ==
    ASSUME NEW S, IsFiniteSet(S), NEW T \in SUBSET (SUBSET S), T # {}
    PROVE  \E D \in T : \A C \in T : C \subseteq D => C = D
<1>1. /\ IsWellFoundedOn(StrictSubsetOrdering(S), FiniteSubsetsOf(S))
      /\ FiniteSubsetsOf(S) = SUBSET S
  BY FS_StrictSubsetOrderingWellFounded, FS_FiniteSubsetsOfFinite
<1>2. PICK D \in T : \A C \in T : <<C, D>> \notin StrictSubsetOrdering(S)
  BY <1>1, WFMin
<1>3. ASSUME NEW C \in T, C \subseteq D, C # D PROVE FALSE
  <2>1. <<C, D>> \in StrictSubsetOrdering(S)
    BY <1>3 DEF StrictSubsetOrdering
  <2> QED
    BY <1>2, <2>1
<1> QED
  BY <1>3

(* The element the fold takes next, *)
Any(s) == CHOOSE x \in s : TRUE
(* the equation that defines the fold, *)
Equation(g, f, S) ==
  g = [s \in SUBSET S |-> IF s = {} THEN 0 ELSE f[Any(s)] + g[s \ {Any(s)}]]
(* and the same for sets of at most n elements. *)
EquationTo(g, f, S, n) ==
  \A s \in SUBSET S : Cardinality(s) <= n =>
     g[s] = IF s = {} THEN 0 ELSE f[Any(s)] + g[s \ {Any(s)}]

(* The fold of Ledger is the solution of its equation, at the whole set. *)
LEMMA Unfold ==
    ASSUME NEW f, NEW S
    PROVE  Total(f, S) = (CHOOSE g : Equation(g, f, S))[S]
BY DEF Total, FoldFunctionOnSet, MapThenFoldSet, Equation, Any

(* A nonempty part of a finite set has an element to take away. *)
LEMMA TakeAny ==
    ASSUME NEW S, IsFiniteSet(S), NEW s \in SUBSET S, s # {}
    PROVE /\ Any(s) \in s /\ s \ {Any(s)} \in SUBSET S
          /\ IsFiniteSet(s) /\ Cardinality(s) \in Nat
          /\ Cardinality(s \ {Any(s)}) = Cardinality(s) - 1 
<1>1. Any(s) \in s
  BY DEF Any
<1>2. IsFiniteSet(s)
  BY FS_Subset
<1> QED
  BY <1>1, <1>2, FS_RemoveElement, FS_CardinalityType

(* The equation has a solution: one for sets of n elements gives one for     *)
(* sets of n + 1.                                                           *)
LEMMA EquationSolved ==
    ASSUME NEW S, IsFiniteSet(S), NEW f
    PROVE  \E g : Equation(g, f, S)
<1>0. ASSUME NEW s \in SUBSET S 
      PROVE  /\ Cardinality(s) \in Nat /\ IsFiniteSet(s)
             /\ Cardinality(s) <= Cardinality(S) /\ Cardinality(S) \in Nat
             /\ Cardinality(s) = 0 <=> s = {}
  BY FS_Subset, FS_CardinalityType, FS_EmptySet
<1> DEFINE Bad == {n \in Nat : ~ \E g : EquationTo(g, f, S, n)}
<1>1. Bad = {}
  <2>1. SUFFICES ASSUME Bad # {} PROVE FALSE
    OBVIOUS
  <2>2. PICK n \in Bad : \A m \in Bad : n <= m
    BY <2>1, LeastNatural
  <2>3. CASE n = 0
    <3> DEFINE h == [s \in SUBSET S |-> 0]
    <3>1. EquationTo(h, f, S, 0)
      BY <1>0 DEF EquationTo
    <3> HIDE DEF h
    <3> QED
      BY <2>3, <3>1
  <2>4. CASE n # 0
    <3>1. n - 1 \in Nat /\ n - 1 \notin Bad
      BY <2>2, <2>4
    <3>2. PICK g : EquationTo(g, f, S, n - 1)
      BY <3>1
    <3> DEFINE h == [s \in SUBSET S |-> IF Cardinality(s) <= n - 1 THEN g[s]
                       ELSE f[Any(s)] + g[s \ {Any(s)}]]
    <3>3. ASSUME NEW s \in SUBSET S, s # {}, Cardinality(s) <= n
          PROVE  h[s] = f[Any(s)] + h[s \ {Any(s)}]
      <4>1. s \ {Any(s)} \in SUBSET S /\ Cardinality(s \ {Any(s)}) <= n - 1
        BY <3>3, <3>1, TakeAny
      <4>2. h[s \ {Any(s)}] = g[s \ {Any(s)}]
        BY <4>1
      <4>3. Cardinality(s) <= n - 1 => g[s] = f[Any(s)] + g[s \ {Any(s)}]
        BY <3>2, <3>3 DEF EquationTo
      <4> HIDE DEF h
      <4>4. h[s] = f[Any(s)] + g[s \ {Any(s)}]
        BY <4>3 DEF h
      <4> QED
        BY <4>2, <4>4
    <3>4. h[{}] = 0
      <4>1. g[{}] = 0
        <5>1. {} \in SUBSET S /\ Cardinality({}) <= n - 1
          BY <3>1, FS_EmptySet
        <5> HIDE DEF h, Bad
        <5> QED
          BY <3>2, <5>1 DEF EquationTo
      <4> QED
        BY <4>1, FS_EmptySet, <3>1
    <3> HIDE DEF h
    <3>5. EquationTo(h, f, S, n)
      BY <3>3, <3>4 DEF EquationTo
    <3> QED
      BY <3>5, <2>2
  <2> QED
    BY <2>3, <2>4
<1>2. Cardinality(S) \in Nat
  BY FS_CardinalityType
<1>3. PICK g : EquationTo(g, f, S, Cardinality(S))
  BY <1>1, <1>2
<1> DEFINE h == [s \in SUBSET S |-> g[s]]
<1>4. ASSUME NEW s \in SUBSET S
      PROVE h[s] = IF s = {} THEN 0 ELSE f[Any(s)] + h[s \ {Any(s)}]
  BY <1>0, <1>3, TakeAny DEF EquationTo
<1>5. h = [s \in SUBSET S |-> h[s]]
  OBVIOUS
<1> HIDE DEF h
<1>6. Equation(h, f, S)
  BY <1>4, <1>5 DEF Equation
<1> QED
  BY <1>6

(* Solutions agree, those for a smaller set too, or they would disagree on a *)
(* least set.                                                               *)
LEMMA EquationUnique ==
    ASSUME NEW S, IsFiniteSet(S), NEW D \in SUBSET S, NEW f, NEW g, NEW h,
           Equation(g, f, S), Equation(h, f, D)
    PROVE  \A s \in SUBSET D : g[s] = h[s]
<1> DEFINE Bad == {s \in SUBSET D : g[s] # h[s]}
<1>1. SUFFICES ASSUME Bad # {} PROVE FALSE
  OBVIOUS
<1>2. IsFiniteSet(D)
  BY FS_Subset
<1>3. PICK s \in Bad : \A t \in Bad : t \subseteq s => t = s
  <2>1. Bad \in SUBSET (SUBSET D)
    OBVIOUS
  <2> HIDE DEF Bad
  <2> QED
    BY <1>1, <1>2, <2>1, LeastSubset
<1>4. s \in SUBSET D /\ s \in SUBSET S /\ g[s] # h[s]
  BY <1>3
<1>5. s # {}
  BY <1>4 DEF Equation
<1>6. s \ {Any(s)} \in SUBSET D /\ s \ {Any(s)} # s
  BY <1>2, <1>4, <1>5, TakeAny
<1>7. g[s \ {Any(s)}] = h[s \ {Any(s)}]
  BY <1>3, <1>6
<1>8. /\ g[s] = f[Any(s)] + g[s \ {Any(s)}]
      /\ h[s] = f[Any(s)] + h[s \ {Any(s)}]
  BY <1>4, <1>5 DEF Equation
<1> QED
  BY <1>4, <1>7, <1>8

(* The sum over no element is zero, and over more it takes one at a time. *)
LEMMA TotalStep ==
    ASSUME NEW f
    PROVE  /\ Total(f, {}) = 0
           /\ \A D : IsFiniteSet(D) /\ D # {} =>
                Total(f, D) = f[Any(D)] + Total(f, D \ {Any(D)})
<1> DEFINE G(D) == CHOOSE g : Equation(g, f, D)
<1>1. ASSUME NEW D, IsFiniteSet(D)
      PROVE Total(f, D) = G(D)[D] /\ Equation(G(D), f, D)
  BY <1>1, EquationSolved, Unfold
<1>2. Total(f, {}) = 0
  <2>1. Total(f, {}) = G({})[{}] /\ Equation(G({}), f, {})
    BY <1>1, FS_EmptySet
  <2> HIDE DEF G
  <2> QED
    BY <2>1 DEF Equation
<1>3. ASSUME NEW D, IsFiniteSet(D), D # {}
      PROVE  Total(f, D) = f[Any(D)] + Total(f, D \ {Any(D)})
  <2> DEFINE C == D \ {Any(D)}
  <2>1. C \in SUBSET D /\ IsFiniteSet(C)
    BY <1>3, FS_Subset
  <2>2. Total(f, D) = G(D)[D] /\ Equation(G(D), f, D)
    BY <1>1, <1>3
  <2>3. Total(f, C) = G(C)[C] /\ Equation(G(C), f, C)
    BY <1>1, <2>1
  <2> HIDE DEF G
  <2>4. G(D)[C] = G(C)[C]
    BY <1>3, <2>1, <2>2, <2>3, EquationUnique
  <2>5. G(D)[D] = f[Any(D)] + G(D)[C]
    BY <1>3, <2>2 DEF Equation
  <2> QED
    BY <2>2, <2>3, <2>4, <2>5
<1> QED
  BY <1>2, <1>3

(* Sums of natural numbers are natural numbers, sums of integers integers. *)
LEMMA TotalType ==
    ASSUME NEW S, IsFiniteSet(S), NEW V \in {Nat, Int}, NEW f, \A x \in S : f[x] \in V
    PROVE  Total(f, S) \in V
<1> DEFINE Bad == {D \in SUBSET S : Total(f, D) \notin V}
<1>1. SUFFICES ASSUME Bad # {} PROVE FALSE
  OBVIOUS
<1>2. PICK D \in Bad : \A C \in Bad : C \subseteq D => C = D
  <2>1. Bad \in SUBSET (SUBSET S)
    OBVIOUS
  <2> HIDE DEF Bad
  <2> QED
    BY <1>1, <2>1, LeastSubset
<1>3. D \in SUBSET S /\ D # {} /\ IsFiniteSet(D)
  <2>1. Total(f, {}) = 0 /\ 0 \in V
    BY TotalStep
  <2> QED
    BY <1>2, <2>1, FS_Subset
<1>4. Any(D) \in D /\ D \ {Any(D)} \in SUBSET S /\ D \ {Any(D)} \notin Bad
  BY <1>2, <1>3, TakeAny
<1>5. Total(f, D) = f[Any(D)] + Total(f, D \ {Any(D)})
  BY <1>3, TotalStep
<1>6. f[Any(D)] \in V /\ Total(f, D \ {Any(D)}) \in V
  BY <1>3, <1>4
<1> QED
  BY <1>2, <1>5, <1>6

(* Whichever element is taken away first, the sum is the same. *)
LEMMA TotalRemove ==
    ASSUME NEW S, IsFiniteSet(S), NEW f, \A x \in S : f[x] \in Int, NEW e \in S
    PROVE  Total(f, S) = f[e] + Total(f, S \ {e})
<1> DEFINE Bad == {D \in SUBSET S : \E x \in D : Total(f, D) # f[x] + Total(f, D \ {x})}
<1>1. SUFFICES ASSUME Bad # {} PROVE FALSE
  OBVIOUS
<1>2. PICK D \in Bad : \A C \in Bad : C \subseteq D => C = D
  <2>1. Bad \in SUBSET (SUBSET S)
    OBVIOUS
  <2> HIDE DEF Bad
  <2> QED
    BY <1>1, <2>1, LeastSubset
<1>3. PICK x \in D : Total(f, D) # f[x] + Total(f, D \ {x})
  BY <1>2
<1> DEFINE a == Any(D)
           C == D \ {a}
           B == D \ {x}
           A == D \ {a, x}
<1>4. D \in SUBSET S /\ D # {} /\ IsFiniteSet(D) /\ a \in D
  BY <1>2, FS_Subset, TakeAny
<1>5. Total(f, D) = f[a] + Total(f, C)
  BY <1>4, TotalStep
<1>6. a # x
  BY <1>3, <1>5
<1>7. /\ C \in SUBSET S /\ C \notin Bad /\ x \in C /\ C \ {x} = A
      /\ B \in SUBSET S /\ B \notin Bad /\ a \in B /\ B \ {a} = A
  BY <1>2, <1>4, <1>6
<1>8. Total(f, C) = f[x] + Total(f, A)
  BY <1>7
<1>9. Total(f, B) = f[a] + Total(f, A)
  BY <1>7
<1>10. f[a] \in Int /\ f[x] \in Int /\ Total(f, A) \in Int
  <2>1. A \in SUBSET S /\ IsFiniteSet(A)
    BY <1>4, FS_Subset
  <2> QED
    BY <1>4, <2>1, TotalType
<1> HIDE DEF a, A, B, C
<1>11. Total(f, D) = f[x] + Total(f, B)
  BY <1>5, <1>8, <1>9, <1>10
<1> QED
  BY <1>3, <1>11 DEF B

(* g is f with zeros on T. *)
Erased(f, g, T, S) ==
    \A x \in S : f[x] \in Int /\ g[x] = IF x \in T THEN 0 ELSE f[x]

(* Setting the charges of a set of sessions to zero takes their sum away. *)
LEMMA TotalErased ==
    ASSUME NEW S, IsFiniteSet(S), NEW T, NEW f, NEW g, Erased(f, g, T, S)
    PROVE  Total(g, S) = Total(f, S) - Total(f, S \cap T)
<1>0. \A x \in S : f[x] \in Int /\ g[x] = IF x \in T THEN 0 ELSE f[x]
  BY DEF Erased
<1> DEFINE Bad == {D \in SUBSET S : Total(g, D) # Total(f, D) - Total(f, D \cap T)}
<1>1. SUFFICES ASSUME Bad # {} PROVE FALSE
  OBVIOUS
<1>2. PICK D \in Bad : \A C \in Bad : C \subseteq D => C = D
  <2>1. Bad \in SUBSET (SUBSET S)
    OBVIOUS
  <2> HIDE DEF Bad
  <2> QED
    BY <1>1, <2>1, LeastSubset
<1>3. D \in SUBSET S /\ D # {} /\ IsFiniteSet(D) /\ IsFiniteSet(D \cap T)
  <2>1. {} \cap T = {} /\ Total(f, {}) = 0 /\ Total(g, {}) = 0
    BY TotalStep
  <2>2. D \in SUBSET S /\ D # {}
    <3>1. Total(g, {}) = Total(f, {}) - Total(f, {} \cap T)
      BY <2>1
    <3> QED
      BY <1>2, <3>1
  <2>3. IsFiniteSet(D)
    BY <2>2, FS_Subset
  <2>4. D \cap T \in SUBSET D
    OBVIOUS
  <2> QED
    BY <2>2, <2>3, <2>4, FS_Subset
<1> DEFINE a == Any(D)
           C == D \ {a}
<1>4. a \in D /\ a \in S /\ C \in SUBSET S /\ C \notin Bad
  BY <1>2, <1>3, TakeAny
<1>5. /\ Total(f, D) = f[a] + Total(f, C) /\ Total(g, D) = g[a] + Total(g, C)
  BY <1>3, TotalStep
<1>6. Total(g, C) = Total(f, C) - Total(f, C \cap T)
  BY <1>4
<1>7. Total(f, D \cap T) = IF a \in T THEN f[a] + Total(f, C \cap T)
                                      ELSE Total(f, C \cap T)
  <2>1. CASE a \in T
    <3>1. a \in D \cap T /\ (D \cap T) \ {a} = C \cap T
      BY <1>4, <2>1
    <3>2. \A x \in D \cap T : f[x] \in Int
      BY <1>0, <1>3
    <3> QED
      BY <1>3, <2>1, <3>1, <3>2, TotalRemove
  <2>2. CASE a \notin T
    <3>1. D \cap T = C \cap T
      BY <2>2
    <3> QED
      BY <2>2, <3>1
  <2> QED
    BY <2>1, <2>2
<1>8. f[a] \in Int /\ Total(f, C) \in Int /\ Total(f, C \cap T) \in Int
  <2>1. C \in SUBSET S /\ IsFiniteSet(C) /\ IsFiniteSet(C \cap T)
    BY <1>4, FS_Subset
  <2>2. \A x \in C : f[x] \in Int
    BY <1>0, <2>1
  <2>3. \A x \in C \cap T : f[x] \in Int
    BY <2>2
  <2> QED
    BY <1>0, <1>4, <2>1, <2>2, <2>3, TotalType
<1>9. g[a] = IF a \in T THEN 0 ELSE f[a]
  BY <1>0, <1>4
<1>10. Total(g, D) # Total(f, D) - Total(f, D \cap T)
  BY <1>2
<1> HIDE DEF a, C
<1> QED
  BY <1>5, <1>6, <1>7, <1>8, <1>9, <1>10

(* Equal charges have equal sums. *)
LEMMA TotalSame ==
    ASSUME NEW S, IsFiniteSet(S), NEW f, NEW g, \A x \in S : f[x] \in Int /\ g[x] = f[x]
    PROVE  Total(g, S) = Total(f, S)
<1>1. Total(g, S) = Total(f, S) - Total(f, S \cap {})
  <2>1. \A x \in S : f[x] \in Int /\ g[x] = IF x \in {} THEN 0 ELSE f[x]
    OBVIOUS
  <2> DEFINE E == {}
  <2>2. Erased(f, g, E, S)
    BY <2>1 DEF Erased
  <2> HIDE DEF E
  <2>3. Total(g, S) = Total(f, S) - Total(f, S \cap E)
    BY <2>1, <2>2, TotalErased
  <2> QED
    BY <2>3 DEF E
<1>2. S \cap {} = {} /\ Total(f, {}) = 0 /\ Total(f, S) \in Int
  BY TotalStep, TotalType
<1> QED
  BY <1>1, <1>2

(* g is f but for what it gives e. *)
Updated(f, g, e, S) ==
    \A x \in S : f[x] \in Int /\ g[x] \in Int /\ (x # e => g[x] = f[x])

(* One other charge changes the sum by the difference. *)
LEMMA TotalUpdate ==
    ASSUME NEW S, IsFiniteSet(S), NEW f, NEW g, NEW e \in S, Updated(f, g, e, S)
    PROVE  Total(g, S) = Total(f, S) + (g[e] - f[e])
<1>0. \A x \in S : f[x] \in Int /\ g[x] \in Int /\ (x # e => g[x] = f[x])
  BY DEF Updated
<1>1. /\ Total(f, S) = f[e] + Total(f, S \ {e})
      /\ Total(g, S) = g[e] + Total(g, S \ {e})
  BY <1>0, TotalRemove
<1>2. IsFiniteSet(S \ {e})
  BY FS_Subset
<1>3. Total(g, S \ {e}) = Total(f, S \ {e}) /\ Total(f, S \ {e}) \in Int
  BY <1>0, <1>2, TotalSame, TotalType
<1> QED
  BY <1>0, <1>1, <1>3
-----------------------------------------------------------------------------
(* Agents that wait for each other.  With Overlap = FALSE every session has *)
(* one agent at a time, so what a request or a deleter has read about a     *)
(* session stays true until it is done with it.                             *)

Held(d) == IF del[d] = Idle THEN {} ELSE del[d].todo \cup del[d].found

(* Whatever mentions a session comes after its key was issued, so that a    *)
(* new session is nobody's yet.                                             *)
KnownIssued ==
    /\ cached \subseteq issued
    /\ \A s \in Session : Exists(s) => s \in issued
    /\ \A r \in Request : ~ReqIdle(r) => req[r].s \in issued
    /\ \A d \in Agents : Held(d) \subseteq issued
    /\ \A h \in hangups : h.s \in issued

Alone ==
    /\ \A q, r \in Request :
         ~ReqIdle(q) /\ ~ReqIdle(r) /\ req[q].s = req[r].s => q = r
    /\ \A r \in Request, d \in Agents : ~ReqIdle(r) => req[r].s \notin Held(d)
    /\ \A d, e \in Agents : d # e => Held(d) \cap Held(e) = {}

(* What a request has read of the placeholder still holds.                  *)
RequestKnows(r) ==
    /\ req[r].at # "writeGone"
    /\ req[r].at \in AfterLookup \ {"unregister"} => Pending(req[r].s)
    /\ req[r].at \in {"check", "open", "write", "charge", "promote"} =>
         row[req[r].s].size = req[r].size

(* The sizes a deletion has listed are those of the rows, and a file that   *)
(* it has dealt with and not kept is gone.                                  *)
DeleterKnows(d) ==
    /\ del[d] # Idle /\ del[d].at \in {"cancel", "unlink"} =>
         /\ del[d].todo \subseteq del[d].found
         /\ \A s \in del[d].found : Exists(s) /\ del[d].sizes[s] = row[s].size
    /\ del[d] # Idle /\ del[d].at = "unlink" =>
         \A s \in del[d].found \ del[d].todo : blob[s] = NoBlob

Serial == /\ KnownIssued /\ Alone /\ BlobHasRow
          /\ \A r \in Request : RequestKnows(r)
          /\ \A d \in Agents : DeleterKnows(d)

(* A step of request r touches nothing but its session: no other request,   *)
(* no other row or file; it removes no row, and creates the file only when  *)
(* it opens it.                                                             *)
StaysWith(r, s) ==
    /\ \A q \in Request \ {r} : req'[q] = req[q]
    /\ req'[r].at = "idle" \/ req'[r].s = s
TouchesRow(s) == /\ \A t \in Session \ {s} : row'[t] = row[t]
                 /\ row[s] # NoRow => row'[s] # NoRow
TouchesBlob(r, s) ==
    /\ \A t \in Session \ {s} : blob'[t] = blob[t]
    /\ blob'[s] # NoBlob => blob[s] # NoBlob \/ req[r].at = "open"
Touches(r, s) ==
    /\ StaysWith(r, s) /\ TouchesRow(s) /\ TouchesBlob(r, s)
    /\ cached' \subseteq cached \cup {s}
    /\ UNCHANGED <<del, hangups, issued, asked>>

(* The chunk a working request is at. *)
LEMMA WorkingChunk ==
    ASSUME TypeInv, NEW r \in Request, ~ReqIdle(r)
    PROVE  /\ req[r].s \in Session /\ req[r].i \in Nat /\ req[r].size \in Nat
           /\ req[r].at \in Stages /\ Start(req[r].i) \in Nat
           /\ req[r].at \in AfterLookup =>
                /\ End(req[r].s, req[r].i) \in Nat
                /\ Start(req[r].i) <= End(req[r].s, req[r].i)
                /\ End(req[r].s, req[r].i) <= Size[req[r].s]
                /\ Start(req[r].i) <= Size[req[r].s]
<1>1. TypeOK /\ ReqOK
  BY DEF TypeInv
<1>2. /\ req[r].s \in Session /\ req[r].i \in Nat /\ req[r].size \in Nat
      /\ req[r].at \in Stages
  BY <1>1, WorkingRequest
<1>3. PICK s \in Session, i \in Nat : s = req[r].s /\ i = req[r].i
  BY <1>2
<1>4. Start(i) \in Nat /\ Size[s] \in Nat /\ End(s, i) \in Int
      /\ (Start(i) <= Size[s] => Start(i) <= End(s, i) /\ End(s, i) <= Size[s])
  BY ChunkArithmetic, SizesAssumption
<1>5. req[r].at \in AfterLookup => Start(i) <= req[r].size /\ req[r].size <= Size[s]
  BY <1>1, <1>3 DEF ReqOK
<1>6. req[r].at \in AfterLookup => Start(i) <= Size[s]
  BY <1>2, <1>4, <1>5
<1>7. req[r].at \in AfterLookup =>
        Start(i) <= End(s, i) /\ End(s, i) <= Size[s] /\ End(s, i) \in Nat
  BY <1>4, <1>6
<1> QED
  BY <1>2, <1>3, <1>4, <1>6, <1>7

(* A request that goes on to another stage keeps its other fields. *)
LEMMA Moved ==
    ASSUME TypeOK, NEW r \in Request, ~ReqIdle(r), NEW at, Goto(r, at)
    PROVE  /\ req'[r].at = at /\ req'[r].s = req[r].s
           /\ req'[r].i = req[r].i /\ req'[r].size = req[r].size
           /\ \A q \in Request \ {r} : req'[q] = req[q]
<1> DEFINE v == [req[r] EXCEPT !.at = at]
<1>1. /\ req[r] \in Working(Stages)
      /\ req \in [Request -> Working(Stages) \cup {Quiet}]
  BY WorkingRequest DEF TypeOK, Stages
<1>2. v.at = at /\ v.s = req[r].s /\ v.i = req[r].i /\ v.size = req[r].size
  BY <1>1 DEF Working
<1>3. req' = [req EXCEPT ![r] = v]
  BY DEF Goto
<1> HIDE DEF v
<1> QED
  BY <1>1, <1>2, <1>3

(* A request that goes on and notes a size. *)
GotoSized(r, at, size) == req' = [req EXCEPT ![r].at = at, ![r].size = size]

(* It keeps what else it knows of its session. *)
LEMMA MovedSized ==
    ASSUME TypeOK, NEW r \in Request, ~ReqIdle(r), NEW at, NEW size,
           GotoSized(r, at, size)
    PROVE  /\ req'[r].at = at /\ req'[r].s = req[r].s
           /\ req'[r].i = req[r].i /\ req'[r].size = size
           /\ \A q \in Request \ {r} : req'[q] = req[q]
<1> DEFINE v == [req[r] EXCEPT !.at = at, !.size = size]
<1>1. /\ req[r] \in Working(Stages)
      /\ req \in [Request -> Working(Stages) \cup {Quiet}]
  BY WorkingRequest DEF TypeOK, Stages
<1>2. v.at = at /\ v.s = req[r].s /\ v.i = req[r].i /\ v.size = size
  BY <1>1 DEF Working
<1>3. req' = [req EXCEPT ![r] = v]
  BY DEF GotoSized
<1> HIDE DEF v
<1> QED
  BY <1>1, <1>2, <1>3

(* A request that leaves is idle. *)
LEMMA HasLeft ==
    ASSUME TypeOK, NEW r \in Request, Leave(r)
    PROVE  /\ ReqIdle(r)' /\ req'[r].at = "idle"
           /\ \A q \in Request \ {r} : req'[q] = req[q]
<1>1. req \in [Request -> Working(Stages) \cup {Quiet}]
  BY DEF TypeOK, Stages
<1>2. req'[r] = Quiet /\ \A q \in Request \ {r} : req'[q] = req[q]
  BY <1>1 DEF Leave
<1> QED
  BY <1>2 DEF Quiet, ReqIdle

(* What UpdateSize does to the row, and to no other. *)
LEMMA UpdateSizeRow ==
    ASSUME TypeOK, NEW s \in Session, NEW known, NEW value \in Nat,
           UpdateSize(s, known, value)
    PROVE  /\ \A t \in Session \ {s} : row'[t] = row[t]
           /\ Exists(s)' <=> Exists(s)
           /\ Exists(s) => /\ row'[s].pending = row[s].pending
                           /\ row'[s].size = IF row[s].size = known THEN value
                                             ELSE row[s].size
<1>1. row \in [Session -> Row \cup {NoRow}]
  BY DEF TypeOK
<1>2. CASE row' = row /\ ~(Exists(s) /\ row[s].size = known)
  BY <1>2 DEF Exists
<1>3. CASE Exists(s) /\ row[s].size = known /\ row' = [row EXCEPT ![s].size = value]
  <2> DEFINE v == [row[s] EXCEPT !.size = value]
  <2>1. row[s] \in Row
    BY <1>1, <1>3 DEF Exists
  <2>2. v \in Row /\ v.size = value /\ v.pending = row[s].pending
    BY <2>1 DEF Row
  <2>3. row' = [row EXCEPT ![s] = v]
    BY <1>3
  <2> HIDE DEF v
  <2>4. v # NoRow
    BY <2>2, MarkersAssumption DEF Row
  <2> QED
    BY <1>1, <1>3, <2>2, <2>3, <2>4 DEF Exists
<1> QED
  BY <1>2, <1>3 DEF UpdateSize

(* The assignments a step of a request is made of. *)
LEMMA StepShape ==
    ASSUME TypeInv, NEW r \in Request, RequestStep(r),
           NEW s, s = req[r].s
    PROVE  /\ ~ReqIdle(r) /\ s \in Session
           /\ UNCHANGED <<del, hangups, issued, asked>>
           /\ cached' \subseteq cached \cup {s}
           /\ \/ Leave(r) \/ \E at : Goto(r, at)
              \/ \E at, size : GotoSized(r, at, size)
           /\ \/ UNCHANGED row
              \/ row' = [row EXCEPT ![s] = [size |-> 0, pending |-> TRUE]]
              \/ \E value \in Nat : UpdateSize(s, req[r].size, value)
              \/ row[s] # NoRow /\ row' = [row EXCEPT ![s].pending = FALSE]
           /\ \/ UNCHANGED blob
              \/ \E data : blob' = [blob EXCEPT ![s] = data]
                           /\ (blob[s] # NoBlob \/ req[r].at = "open")
<1> USE DEF RequestStep, InsertPlaceholder, InsertPlaceholderFails, RegisterSession,
        LookupPlaceholder, CheckNotExists, OpenBlob, WriteChunk, WritePartOfChunk,
        ChargeChunk, ChargeChunkFails, PromotePlaceholder, PromotePlaceholderFails,
        UnregisterSession, TruncateChunk, RefundChunk, RefundChunkFails
<1>1. ~ReqIdle(r)
  BY DEF ReqIdle
<1>2. PICK i : i = req[r].i
  OBVIOUS
<1>3. /\ s \in Session /\ i \in Nat /\ Start(i) \in Nat
      /\ req[r].at \in AfterLookup => End(s, i) \in Nat
  BY <1>1, <1>2, WorkingChunk
<1>4. UNCHANGED <<del, hangups, issued, asked>> /\ cached' \subseteq cached \cup {s}
  OBVIOUS
<1>5. \/ Leave(r) \/ \E at : Goto(r, at)
      \/ \E at, size : GotoSized(r, at, size)
  <2>1. CASE ChargeChunkFails(r)
    BY <2>1 DEF GotoSized
  <2>2. CASE ~ChargeChunkFails(r)
    BY <2>2 DEF GotoSized
  <2> QED
    BY <2>1, <2>2
<1>6. \/ UNCHANGED row
      \/ row' = [row EXCEPT ![s] = [size |-> 0, pending |-> TRUE]]
      \/ \E value \in Nat : UpdateSize(s, req[r].size, value)
      \/ row[s] # NoRow /\ row' = [row EXCEPT ![s].pending = FALSE]
  <2>1. CASE ChargeChunk(r)
    <3>1. req[r].at \in AfterLookup
      BY <2>1 DEF AfterLookup
    <3> QED
      BY <1>2, <1>3, <2>1, <3>1
  <2>2. CASE RefundChunk(r)
    BY <1>2, <1>3, <2>2
  <2>3. CASE PromotePlaceholder(r)
    BY <2>3 DEF Exists
  <2> QED
    BY <2>1, <2>2, <2>3
<1>7. \/ UNCHANGED blob
      \/ \E data : blob' = [blob EXCEPT ![s] = data]
                   /\ (blob[s] # NoBlob \/ req[r].at = "open")
  <2>1. CASE WriteChunk(r) \/ WritePartOfChunk(r)
    <3>1. req[r].at = "write" => blob[s] # NoBlob
      BY DEF TypeInv, WriterHasBlob
    <3> QED
      BY <2>1, <3>1 DEF AppendChunk
  <2>2. CASE OpenBlob(r)
    BY <2>2
  <2>3. CASE TruncateChunk(r)
    BY <2>3
  <2> QED
    BY <2>1, <2>2, <2>3
<1> QED
  BY <1>1, <1>3, <1>4, <1>5, <1>6, <1>7

(* So it stays with its session. *)
LEMMA StepTouches ==
    ASSUME TypeInv, NEW r \in Request, RequestStep(r),
           NEW s, s = req[r].s
    PROVE  ~ReqIdle(r) /\ s \in Session /\ Touches(r, s)
<1>0. /\ TypeOK /\ row \in [Session -> Row \cup {NoRow}]
      /\ blob \in [Session -> Seq(Int) \cup {NoBlob}]
  BY DEF TypeInv, TypeOK
<1>1. /\ ~ReqIdle(r) /\ s \in Session
      /\ UNCHANGED <<del, hangups, issued, asked>>
      /\ cached' \subseteq cached \cup {s}
  BY StepShape
<1>2. StaysWith(r, s)
  <2>1. CASE Leave(r)
    BY <1>0, <2>1, HasLeft DEF StaysWith
  <2>2. ASSUME NEW at, Goto(r, at) PROVE StaysWith(r, s)
    BY <1>0, <1>1, <2>2, Moved DEF StaysWith
  <2>3. ASSUME NEW at, NEW size, GotoSized(r, at, size)
        PROVE  StaysWith(r, s)
    BY <1>0, <1>1, <2>3, MovedSized DEF StaysWith
  <2>4. \/ Leave(r) \/ \E at : Goto(r, at)
        \/ \E at, size : GotoSized(r, at, size)
    BY StepShape
  <2> QED
    BY <2>1, <2>2, <2>3, <2>4
<1>3. TouchesRow(s)
  <2>1. CASE UNCHANGED row
    BY <2>1 DEF TouchesRow
  <2>2. ASSUME NEW v, row' = [row EXCEPT ![s] = v], v # NoRow
        PROVE  TouchesRow(s)
    BY <1>0, <1>1, <2>2 DEF TouchesRow
  <2>3. CASE row' = [row EXCEPT ![s] = [size |-> 0, pending |-> TRUE]]
    <3> DEFINE v == [size |-> 0, pending |-> TRUE]
    <3>1. v \in [size : Nat, pending : BOOLEAN]
      OBVIOUS
    <3> HIDE DEF v
    <3>2. v # NoRow
      BY <3>1, MarkersAssumption
    <3>3. row' = [row EXCEPT ![s] = v]
      BY <2>3 DEF v
    <3> QED
      BY <2>2, <3>2, <3>3
  <2>4. ASSUME NEW value \in Nat, UpdateSize(s, req[r].size, value)
        PROVE  TouchesRow(s)
    BY <1>0, <1>1, <2>4, UpdateSizeRow DEF TouchesRow, Exists
  <2>5. CASE row[s] # NoRow /\ row' = [row EXCEPT ![s].pending = FALSE]
    <3> DEFINE v == [row[s] EXCEPT !.pending = FALSE]
    <3>1. row[s] \in Row
      BY <1>0, <1>1, <2>5
    <3>2. v \in [size : Nat, pending : BOOLEAN]
      BY <3>1 DEF Row
    <3>3. row' = [row EXCEPT ![s] = v]
      BY <2>5
    <3> HIDE DEF v
    <3>4. v # NoRow
      BY <3>2, MarkersAssumption
    <3> QED
      BY <2>2, <3>3, <3>4
  <2> QED
    BY <2>1, <2>3, <2>4, <2>5, StepShape
<1>4. TouchesBlob(r, s)
  <2>1. CASE UNCHANGED blob
    BY <2>1 DEF TouchesBlob
  <2>2. ASSUME NEW data, blob' = [blob EXCEPT ![s] = data],
               blob[s] # NoBlob \/ req[r].at = "open"
        PROVE  TouchesBlob(r, s)
    BY <1>0, <1>1, <2>2 DEF TouchesBlob
  <2> QED
    BY <2>1, <2>2, StepShape
<1> QED
  BY <1>1, <1>2, <1>3, <1>4 DEF Touches

(* Where the request stands next, and what it then knows. *)
LEMMA RequestKnowsNext ==
    ASSUME TypeInv, NEW r \in Request, RequestKnows(r), RequestStep(r)
    PROVE  RequestKnows(r)'
<1>0. TypeOK /\ ~ReqIdle(r)
  BY StepTouches DEF TypeInv
<1>1. PICK s \in Session, i \in Nat : s = req[r].s /\ i = req[r].i
  BY <1>0, WorkingChunk
<1>2. req[r].at \in AfterLookup => End(s, i) \in Nat
  BY <1>0, <1>1, WorkingChunk
<1>3. Leave(r) => RequestKnows(r)'
  <2>1. "idle" \notin AfterLookup
    BY DEF AfterLookup
  <2> QED
    BY <1>0, <2>1, HasLeft DEF RequestKnows
<1>4. ASSUME NEW at, Goto(r, at)
      PROVE  req'[r].at = at /\ req'[r].s = s /\ req'[r].size = req[r].size
  BY <1>0, <1>1, <1>4, Moved
<1>5. ASSUME NEW at, Goto(r, at), UNCHANGED row, at # "writeGone",
             at \in AfterLookup \ {"unregister"} =>
               req[r].at \in AfterLookup \ {"unregister"},
             at \in {"check", "open", "write", "charge", "promote"} =>
               req[r].at \in {"check", "open", "write", "charge", "promote"}
      PROVE  RequestKnows(r)'
  BY <1>1, <1>4, <1>5 DEF RequestKnows, Pending, Exists
<1>6. CASE InsertPlaceholder(r)
  <2>1. CASE Goto(r, "register")
    BY <1>4, <2>1 DEF RequestKnows, AfterLookup
  <2> QED
    BY <1>6, <1>3, <2>1 DEF InsertPlaceholder
<1>7. CASE InsertPlaceholderFails(r) \/ RegisterSession(r) \/ UnregisterSession(r)
           \/ RefundChunk(r) \/ RefundChunkFails(r)
  BY <1>7, <1>3 DEF InsertPlaceholderFails, RegisterSession, UnregisterSession,
                    RefundChunk, RefundChunkFails
<1>8. CASE LookupPlaceholder(r)
  <2>1. CASE /\ Pending(s)
             /\ req' = [req EXCEPT ![r].at = IF i = 0 THEN "check" ELSE "open",
                                   ![r].size = row[s].size]
    <3>1. PICK at, size :
            /\ at = (IF i = 0 THEN "check" ELSE "open") /\ size = row[s].size
            /\ GotoSized(r, at, size)
      BY <2>1 DEF GotoSized
    <3>2. at \in {"check", "open"}
      BY <3>1
    <3>3. req'[r].at = at /\ req'[r].s = s /\ req'[r].size = size
      BY <1>0, <1>1, <3>1, MovedSized
    <3>4. UNCHANGED row
      BY <1>8 DEF LookupPlaceholder
    <3> QED
      BY <2>1, <3>1, <3>2, <3>3, <3>4 DEF RequestKnows, Pending, Exists
  <2> QED
    BY <1>1, <1>8, <1>3, <2>1 DEF LookupPlaceholder
<1>9. CASE CheckNotExists(r)
  BY <1>9, <1>3, <1>5 DEF CheckNotExists, AfterLookup
<1>10. CASE OpenBlob(r)
  BY <1>10, <1>3, <1>5 DEF OpenBlob, AfterLookup
<1>11. CASE WriteChunk(r) \/ WritePartOfChunk(r)
  <2>1. req[r].at = "write"
    BY <1>11 DEF WriteChunk, WritePartOfChunk, AppendChunk, RequestKnows
  <2> QED
    BY <1>11, <1>3, <1>5, <2>1 DEF WriteChunk, WritePartOfChunk, AfterLookup
<1>12. CASE ChargeChunk(r)
  <2>1. req[r].at = "charge" /\ Pending(s) /\ row[s].size = req[r].size
        /\ UpdateSize(s, req[r].size, End(s, i)) /\ End(s, i) \in Nat
    BY <1>12, <1>1, <1>2 DEF ChargeChunk, RequestKnows, AfterLookup
  <2>2. Pending(s)' /\ row'[s].size = End(s, i)
    BY <1>0, <2>1, UpdateSizeRow DEF Pending
  <2>3. CASE req' = [req EXCEPT ![r].at = "promote", ![r].size = End(s, i)]
    <3>1. PICK size : size = End(s, i) /\ GotoSized(r, "promote", size)
      BY <2>3 DEF GotoSized
    <3>2. req'[r].at = "promote" /\ req'[r].s = s /\ req'[r].size = size
      BY <1>0, <1>1, <3>1, MovedSized
    <3> QED
      BY <2>2, <3>1, <3>2 DEF RequestKnows, Pending, Exists
  <2> QED
    BY <1>12, <1>1, <1>3, <2>3 DEF ChargeChunk
<1>13. CASE ChargeChunkFails(r)
  <2>1. PICK known : GotoSized(r, "truncate", known)
    BY <1>13 DEF ChargeChunkFails, GotoSized
  <2>2. req'[r].at = "truncate" /\ req'[r].s = s /\ UNCHANGED row
    BY <1>0, <1>1, <1>13, <2>1, MovedSized DEF ChargeChunkFails
  <2>3. Pending(s)
    BY <1>1, <1>13 DEF ChargeChunkFails, RequestKnows, AfterLookup
  <2> QED
    BY <2>2, <2>3 DEF RequestKnows, Pending, Exists
<1>14. CASE PromotePlaceholder(r)
  <2>1. req'[r].at = "unregister"
    BY <1>14, <1>4 DEF PromotePlaceholder
  <2> QED
    BY <2>1 DEF RequestKnows
<1>15. CASE PromotePlaceholderFails(r)
  BY <1>15, <1>5 DEF PromotePlaceholderFails, AfterLookup
<1>16. CASE TruncateChunk(r)
  BY <1>16, <1>3, <1>5 DEF TruncateChunk, AfterLookup
<1> QED
  BY <1>6, <1>7, <1>8, <1>9, <1>10, <1>11, <1>12, <1>13, <1>14, <1>15, <1>16
     DEF RequestStep

(* The steps of a request leave the sessions of the others alone. *)
LEMMA SerialRequestStep ==
    ASSUME TypeInv, TypeInv', Serial, NEW r \in Request, RequestStep(r)
    PROVE  Serial'
<1>1. PICK s \in Session : s = req[r].s
  BY StepTouches
<1>2. ~ReqIdle(r) /\ Touches(r, s)
  BY <1>1, StepTouches
<1>3. /\ StaysWith(r, s) /\ TouchesRow(s) /\ TouchesBlob(r, s)
      /\ cached' \subseteq cached \cup {s}
      /\ UNCHANGED <<del, hangups, issued, asked>>
  BY <1>2 DEF Touches
<1>4. /\ KnownIssued /\ Alone /\ BlobHasRow
      /\ \A q \in Request : RequestKnows(q)
      /\ \A d \in Agents : DeleterKnows(d)
  BY DEF Serial
<1>5. \A d \in Agents : Held(d)' = Held(d)
  BY <1>3 DEF Held
<1>6. \A q \in Request : ~ReqIdle(q)' => ~ReqIdle(q) /\ req'[q].s = req[q].s
  BY <1>1, <1>2, <1>3 DEF StaysWith, ReqIdle
<1>7. KnownIssued'
  <2>1. s \in issued
    BY <1>1, <1>2, <1>4 DEF KnownIssued
  <2>2. cached' \subseteq issued'
    BY <1>3, <1>4, <2>1 DEF KnownIssued
  <2>3. \A t \in Session : Exists(t)' => t \in issued'
    BY <1>3, <1>4, <2>1 DEF KnownIssued, TouchesRow, Exists
  <2>4. \A q \in Request : ~ReqIdle(q)' => req'[q].s \in issued'
    BY <1>3, <1>4, <1>6 DEF KnownIssued
  <2> QED
    BY <1>3, <1>4, <1>5, <2>2, <2>3, <2>4 DEF KnownIssued
<1>8. Alone'
  <2>1. \A p, q \in Request :
          ~ReqIdle(p)' /\ ~ReqIdle(q)' /\ req'[p].s = req'[q].s => p = q
    BY <1>4, <1>6 DEF Alone
  <2>2. \A q \in Request, d \in Agents : ~ReqIdle(q)' => req'[q].s \notin Held(d)'
    BY <1>4, <1>5, <1>6 DEF Alone
  <2>3. \A d, e \in Agents : d # e => Held(d)' \cap Held(e)' = {}
    BY <1>4, <1>5 DEF Alone
  <2> QED
    BY <2>1, <2>2, <2>3 DEF Alone
<1>9. BlobHasRow'
  <2>1. ASSUME NEW t \in Session, blob'[t] # NoBlob PROVE row'[t] # NoRow
    <3>1. CASE t = s
      <4>1. req[r].at = "open" => row[s] # NoRow
        BY <1>1, <1>4 DEF RequestKnows, Pending, Exists, AfterLookup
      <4> QED
        BY <1>3, <1>4, <2>1, <3>1, <4>1 DEF BlobHasRow, TouchesBlob, TouchesRow, Exists
    <3>2. CASE t # s
      BY <1>3, <1>4, <2>1, <3>2 DEF BlobHasRow, TouchesBlob, TouchesRow, Exists
    <3> QED
      BY <3>1, <3>2
  <2> QED
    BY <2>1 DEF BlobHasRow, Exists
<1>10. ASSUME NEW q \in Request PROVE RequestKnows(q)'
  <2>1. CASE q = r
    BY <1>4, <2>1, RequestKnowsNext
  <2>2. CASE q # r
    <3>1. req'[q] = req[q]
      BY <1>3, <2>2 DEF StaysWith
    <3>2. CASE ReqIdle(q)
      BY <3>1, <3>2 DEF RequestKnows, ReqIdle, AfterLookup
    <3>3. CASE ~ReqIdle(q)
      <4>1. req[q].s # s /\ req[q].s \in Session
        BY <1>1, <1>2, <1>4, <2>2, <3>3, WorkingChunk DEF Alone
      <4>2. row'[req[q].s] = row[req[q].s]
        BY <1>3, <4>1 DEF TouchesRow
      <4>3. RequestKnows(q)
        BY <1>4
      <4> QED
        BY <3>1, <4>2, <4>3 DEF RequestKnows, Pending, Exists
    <3> QED
      BY <3>2, <3>3
  <2> QED
    BY <2>1, <2>2
<1>11. ASSUME NEW d \in Agents PROVE DeleterKnows(d)'
  <2>1. CASE del[d] = Idle
    BY <1>3, <2>1 DEF DeleterKnows
  <2>2. CASE del[d] # Idle
    <3>1. s \notin del[d].found /\ del[d].found \in SUBSET Session /\ DeleterKnows(d)
      BY <1>1, <1>2, <1>4, <2>2, WorkingDeleter DEF Alone, Held, TypeInv
    <3>2. \A t \in del[d].found : row'[t] = row[t] /\ blob'[t] = blob[t]
      BY <1>3, <3>1 DEF TouchesRow, TouchesBlob
    <3> QED
      BY <1>3, <3>1, <3>2 DEF DeleterKnows, Exists
  <2> QED
    BY <2>1, <2>2
<1> QED
  BY <1>7, <1>8, <1>9, <1>10, <1>11 DEF Serial

(* A deleter that assigns itself a new state leaves the others theirs. *)
LEMMA DeleterMoves ==
    ASSUME TypeOK, NEW d \in Agents, NEW v, del' = [del EXCEPT ![d] = v]
    PROVE  /\ del'[d] = v /\ \A e \in Agents \ {d} : del'[e] = del[e]
           /\ \A e \in Agents \ {d} : Held(e)' = Held(e)
           /\ Held(d)' \subseteq v.todo \cup v.found
<1>1. del \in [Agents -> Deleting \cup {Idle}]
  BY DEF TypeOK
<1>2. del'[d] = v /\ \A e \in Agents \ {d} : del'[e] = del[e]
  BY <1>1
<1> QED
  BY <1>2 DEF Held

(* What keeps sessions to one agent each when a deleter moves: it takes     *)
(* only sessions nobody works on, and changes the rows and files of its own *)
(* sessions alone.                                                          *)
LEMMA SerialDeleter ==
    ASSUME TypeInv, Serial, NEW d \in Agents, NEW v, del' = [del EXCEPT ![d] = v],
           UNCHANGED <<req, hangups, issued>>, cached' \subseteq cached,
           \A t \in Held(d)' \ Held(d) : t \in issued /\ ~Busy(t),
           \A t \in Session \ Held(d) : row'[t] = row[t] /\ blob'[t] = blob[t],
           \A t \in Session : Exists(t)' => Exists(t),
           BlobHasRow', DeleterKnows(d)'
    PROVE  Serial'
<1>0. TypeOK
  BY DEF TypeInv
<1>1. /\ \A e \in Agents \ {d} : del'[e] = del[e]
      /\ \A e \in Agents \ {d} : Held(e)' = Held(e)
  BY <1>0, DeleterMoves
<1>2. /\ KnownIssued /\ Alone
      /\ \A q \in Request : RequestKnows(q)
      /\ \A e \in Agents : DeleterKnows(e)
  BY DEF Serial
<1>3. KnownIssued'
  <2>1. Held(d)' \subseteq issued
    BY <1>1, <1>2 DEF KnownIssued
  <2>2. \A e \in Agents : Held(e)' \subseteq issued'
    BY <1>1, <1>2, <2>1 DEF KnownIssued
  <2>3. cached' \subseteq issued' /\ \A t \in Session : Exists(t)' => t \in issued'
    BY <1>2 DEF KnownIssued
  <2>4. \A r \in Request : ~ReqIdle(r)' => req'[r].s \in issued'
    BY <1>2 DEF KnownIssued, ReqIdle
  <2>5. \A h \in hangups' : h.s \in issued'
    BY <1>2 DEF KnownIssued
  <2> QED
    BY <2>2, <2>3, <2>4, <2>5 DEF KnownIssued
<1>4. Alone'
  <2>1. \A q, r \in Request :
          ~ReqIdle(q)' /\ ~ReqIdle(r)' /\ req'[q].s = req'[r].s => q = r
    BY <1>2 DEF Alone, ReqIdle
  <2>2. ASSUME NEW r \in Request, NEW e \in Agents, ~ReqIdle(r)'
        PROVE  req'[r].s \notin Held(e)'
    <3>1. ~ReqIdle(r) /\ req'[r] = req[r]
      BY <2>2 DEF ReqIdle
    <3>2. CASE e # d
      BY <1>1, <1>2, <3>1, <3>2 DEF Alone
    <3>3. CASE e = d
      BY <1>1, <1>2, <3>1, <3>3 DEF Alone, Busy
    <3> QED
      BY <3>2, <3>3
  <2>3. ASSUME NEW e \in Agents, e # d PROVE Held(d)' \cap Held(e)' = {}
    <3>1. Held(e)' = Held(e) /\ Held(d) \cap Held(e) = {}
      BY <1>1, <1>2, <2>3 DEF Alone
    <3>2. ASSUME NEW t, t \in Held(d)', t \in Held(e) PROVE FALSE
      BY <1>1, <3>1, <3>2 DEF Busy, Held
    <3> QED
      BY <3>1, <3>2
  <2>4. \A e, f \in Agents : e # f => Held(e)' \cap Held(f)' = {}
    BY <1>1, <1>2, <2>3 DEF Alone
  <2> QED
    BY <2>1, <2>2, <2>4 DEF Alone
<1>5. ASSUME NEW r \in Request PROVE RequestKnows(r)'
  <2>1. CASE ReqIdle(r)
    BY <2>1 DEF RequestKnows, ReqIdle, AfterLookup
  <2>2. CASE ~ReqIdle(r)
    <3>1. req[r].s \in Session \ Held(d)
      BY <1>0, <1>2, <2>2, WorkingRequest DEF Alone
    <3>2. row'[req[r].s] = row[req[r].s]
      BY <3>1
    <3> QED
      BY <1>2, <3>2 DEF RequestKnows, Pending, Exists
  <2> QED
    BY <2>1, <2>2
<1>6. ASSUME NEW e \in Agents PROVE DeleterKnows(e)'
  <2>1. CASE e # d /\ del[e] = Idle
    BY <1>1, <2>1 DEF DeleterKnows
  <2>2. CASE e # d /\ del[e] # Idle
    <3>1. /\ \A t \in del[e].found : t \in Session \ Held(d)
          /\ DeleterKnows(e) /\ del'[e] = del[e]
      BY <1>0, <1>1, <1>2, <2>2, WorkingDeleter DEF Alone, Held
    <3>2. \A t \in del[e].found : row'[t] = row[t] /\ blob'[t] = blob[t]
      BY <3>1
    <3> QED
      BY <3>1, <3>2 DEF DeleterKnows, Exists
  <2> QED
    BY <2>1, <2>2
<1> QED
  BY <1>3, <1>4, <1>5, <1>6 DEF Serial

(* The fields of a deleter that goes on with what it has. *)
LEMMA DeleterFields ==
    ASSUME TypeOK, NEW d \in Agents, del[d] # Idle
    PROVE  /\ \A todo : /\ [del[d] EXCEPT !.todo = todo].at = del[d].at
                        /\ [del[d] EXCEPT !.todo = todo].todo = todo
                        /\ [del[d] EXCEPT !.todo = todo].found = del[d].found
                        /\ [del[d] EXCEPT !.todo = todo].sizes = del[d].sizes
           /\ \A todo, found :
                LET v == [del[d] EXCEPT !.todo = todo, !.found = found]
                IN  v.at = del[d].at /\ v.todo = todo /\ v.found = found
                    /\ v.sizes = del[d].sizes
           /\ \A at, todo :
                LET v == [del[d] EXCEPT !.at = at, !.todo = todo]
                IN  v.at = at /\ v.todo = todo /\ v.found = del[d].found
                    /\ v.sizes = del[d].sizes
           /\ \A at : /\ [del[d] EXCEPT !.at = at].at = at
                      /\ [del[d] EXCEPT !.at = at].todo = del[d].todo
                      /\ [del[d] EXCEPT !.at = at].found = del[d].found
<1>1. del[d] \in Deleting
  BY WorkingDeleter
<1> QED
  BY <1>1 DEF Deleting

(* The steps of a deletion. *)
LEMMA SerialDeleteStep ==
    ASSUME TypeInv, Serial, NEW d \in Agents, DeleteStep(d)
    PROVE  Serial'
<1>0. TypeOK /\ del[d] # Idle
  BY DEF TypeInv, DeleteStep, ListFiles, CancelSessions, EraseRows, EraseRowsFails,
         UnlinkBlob, UnlinkBlobFails
<1>1. /\ Alone /\ BlobHasRow /\ DeleterKnows(d)
      /\ Held(d) = del[d].todo \cup del[d].found
      /\ del[d].todo \subseteq Session /\ del[d].found \subseteq Session
  BY <1>0, WorkingDeleter DEF Serial, Held
<1>2. CASE ListFiles(d)
  <2> DEFINE found == {s \in del[d].found : Exists(s)}
             v == [at |-> "cancel", todo |-> {s \in found : Pending(s)},
                   found |-> found,
                   sizes |-> [s \in Session |-> IF s \in found THEN row[s].size
                                                ELSE 0]]
  <2>1. /\ v.at = "cancel" /\ v.todo \subseteq v.found /\ v.found \subseteq Held(d)
        /\ \A s \in v.found : Exists(s) /\ v.sizes[s] = row[s].size
    BY <1>1
  <2>2. del' = [del EXCEPT ![d] = v]
    BY <1>2 DEF ListFiles
  <2> HIDE DEF v, found
  <2>3. del'[d] = v
    BY <1>0, <2>2, DeleterMoves
  <2>4. UNCHANGED <<row, blob, req, hangups, issued, cached>>
    BY <1>2 DEF ListFiles
  <2>5. DeleterKnows(d)' /\ BlobHasRow'
    BY <1>1, <2>1, <2>3, <2>4 DEF DeleterKnows, BlobHasRow, Exists
  <2>6. Held(d)' \subseteq Held(d)
    BY <1>0, <1>1, <2>1, <2>2, DeleterMoves
  <2> QED
    BY <2>2, <2>4, <2>5, <2>6, SerialDeleter DEF Exists
<1>3. CASE CancelSessions(d)
  <2> DEFINE v == [del[d] EXCEPT !.at = "unlink", !.todo = del[d].found]
  <2>1. /\ v.at = "unlink" /\ v.todo = del[d].found /\ v.found = del[d].found
        /\ v.sizes = del[d].sizes
    BY <1>0, DeleterFields
  <2>2. del' = [del EXCEPT ![d] = v] /\ del[d].at = "cancel"
    BY <1>3 DEF CancelSessions
  <2> HIDE DEF v
  <2>3. del'[d] = v
    BY <1>0, <2>2, DeleterMoves
  <2>4. UNCHANGED <<row, blob, req, hangups, issued>> /\ cached' \subseteq cached
    BY <1>3 DEF CancelSessions
  <2>5. DeleterKnows(d)' /\ BlobHasRow'
    BY <1>0, <1>1, <2>1, <2>2, <2>3, <2>4 DEF DeleterKnows, BlobHasRow, Exists
  <2>6. Held(d)' \subseteq Held(d)
    BY <1>0, <1>1, <2>1, <2>2, DeleterMoves
  <2> QED
    BY <2>2, <2>4, <2>5, <2>6, SerialDeleter DEF Exists
<1>4. ASSUME NEW s \in Session, UnlinkBlob(d, s) PROVE Serial'
  <2> DEFINE v == [del[d] EXCEPT !.todo = del[d].todo \ {s}]
  <2>1. /\ v.at = del[d].at /\ v.todo = del[d].todo \ {s}
        /\ v.found = del[d].found /\ v.sizes = del[d].sizes
    BY <1>0, DeleterFields
  <2>2. /\ del' = [del EXCEPT ![d] = v] /\ del[d].at = "unlink" /\ s \in del[d].todo
        /\ UNCHANGED <<row, hangups, issued, cached>>
        /\ blob' = [blob EXCEPT ![s] = NoBlob]
    BY <1>4 DEF UnlinkBlob
  <2> HIDE DEF v
  <2>3. del'[d] = v
    BY <1>0, <2>2, DeleterMoves
  <2>4. UNCHANGED req
    <3>1. req \in [Request -> Working(Stages) \cup {Quiet}]
      BY <1>0 DEF TypeOK, Stages
    <3>2. \A r \in Request : ~(req[r].at = "write" /\ req[r].s = s)
      BY <1>1, <2>2 DEF Alone, ReqIdle
    <3>3. req' = [r \in Request |-> req[r]]
      BY <1>4, <3>2 DEF UnlinkBlob
    <3> QED
      BY <3>1, <3>3
  <2>5. blob'[s] = NoBlob /\ \A t \in Session \ {s} : blob'[t] = blob[t]
    BY <1>0, <2>2 DEF TypeOK
  <2>6. DeleterKnows(d)' /\ BlobHasRow'
    BY <1>0, <1>1, <2>1, <2>2, <2>3, <2>5 DEF DeleterKnows, BlobHasRow, Exists
  <2>7. Held(d)' \subseteq Held(d)
    BY <1>0, <1>1, <2>1, <2>2, DeleterMoves
  <2>8. \A t \in Session \ Held(d) : row'[t] = row[t] /\ blob'[t] = blob[t]
    BY <1>1, <2>2, <2>5
  <2> QED
    BY <2>2, <2>4, <2>6, <2>7, <2>8, SerialDeleter DEF Exists
<1>5. ASSUME NEW s \in Session, UnlinkBlobFails(d, s) PROVE Serial'
  <2> DEFINE v == [del[d] EXCEPT !.todo = del[d].todo \ {s},
                                 !.found = del[d].found \ {s}]
  <2>1. /\ v.at = del[d].at /\ v.todo = del[d].todo \ {s}
        /\ v.found = del[d].found \ {s} /\ v.sizes = del[d].sizes
    BY <1>0, DeleterFields
  <2>2. /\ del' = [del EXCEPT ![d] = v] /\ del[d].at = "unlink"
        /\ UNCHANGED <<row, blob, req, hangups, issued, cached>>
    BY <1>5 DEF UnlinkBlobFails
  <2> HIDE DEF v
  <2>3. del'[d] = v
    BY <1>0, <2>2, DeleterMoves
  <2>4. DeleterKnows(d)' /\ BlobHasRow'
    BY <1>0, <1>1, <2>1, <2>2, <2>3 DEF DeleterKnows, BlobHasRow, Exists
  <2>5. Held(d)' \subseteq Held(d)
    BY <1>0, <1>1, <2>1, <2>2, DeleterMoves
  <2> QED
    BY <2>2, <2>4, <2>5, SerialDeleter DEF Exists
<1>6. CASE EraseRows(d) \/ EraseRowsFails(d)
  <2>1. /\ del' = [del EXCEPT ![d] = Idle] /\ del[d].at = "unlink"
        /\ del[d].todo = {} /\ UNCHANGED <<blob, req, hangups, issued, cached>>
        /\ UNCHANGED row \/ row' = Removed(del[d].found)
    BY <1>6 DEF EraseRows, EraseRowsFails
  <2>2. del'[d] = Idle
    BY <1>0, <2>1, DeleterMoves
  <2>3. \A t \in del[d].found : blob[t] = NoBlob
    BY <1>0, <1>1, <2>1 DEF DeleterKnows
  <2>4. \A t \in Session : \/ row'[t] = row[t]
                           \/ t \in del[d].found /\ row'[t] = NoRow
    BY <2>1 DEF Removed
  <2>5. \A t \in Session : t \notin del[d].found => row'[t] = row[t]
    BY <2>1 DEF Removed
  <2>6. BlobHasRow' /\ DeleterKnows(d)'
    BY <1>1, <2>1, <2>2, <2>3, <2>5 DEF DeleterKnows, BlobHasRow, Exists
  <2>7. \A t \in Session : Exists(t)' => Exists(t)
    BY <2>4 DEF Exists
  <2>8. Held(d)' = {}
    BY <2>2 DEF Held
  <2>9. \A t \in Session \ Held(d) : row'[t] = row[t] /\ blob'[t] = blob[t]
    BY <1>1, <2>1, <2>5
  <2> QED
    BY <2>1, <2>6, <2>7, <2>8, <2>9, SerialDeleter
<1> QED
  BY <1>2, <1>3, <1>4, <1>5, <1>6 DEF DeleteStep

(* The steps of the cron job before it deletes. *)
LEMMA SerialCollectStep ==
    ASSUME TypeInv, Serial, ~Overlap, CollectStep
    PROVE  Serial'
<1>0. /\ TypeOK /\ Cron \in Agents /\ KnownIssued /\ DeleterKnows(Cron) /\ BlobHasRow
      /\ UNCHANGED <<row, blob, cached, req, hangups, issued>>
  BY DEF TypeInv, Serial, Agents, CollectStep, ListPlaceholders, CollectExpired,
         SiftPlaceholder
<1>1. BlobHasRow' /\ \A t \in Session : Exists(t)' => Exists(t)
  BY <1>0 DEF BlobHasRow, Exists
<1>2. CASE ListPlaceholders
  <2> DEFINE v == [at |-> "sift", todo |-> {s \in Session : Pending(s)},
                   found |-> {}, sizes |-> NoSizes]
  <2>1. v.at = "sift" /\ v.todo = {s \in Session : Pending(s)} /\ v.found = {}
    OBVIOUS
  <2>2. del' = [del EXCEPT ![Cron] = v] /\ \A s \in Session : Pending(s) => ~Busy(s)
    BY <1>2 DEF ListPlaceholders, Free
  <2> HIDE DEF v
  <2>3. del'[Cron] = v /\ Held(Cron)' \subseteq v.todo \cup v.found
    BY <1>0, <2>2, DeleterMoves
  <2>4. \A t \in Held(Cron)' \ Held(Cron) : t \in issued /\ ~Busy(t)
    BY <1>0, <2>1, <2>2, <2>3 DEF KnownIssued, Pending
  <2>5. DeleterKnows(Cron)'
    BY <2>1, <2>3 DEF DeleterKnows
  <2> QED
    BY <1>0, <1>1, <2>2, <2>4, <2>5, SerialDeleter
<1>3. ASSUME NEW s \in Session, SiftPlaceholder(s) PROVE Serial'
  <2> DEFINE found == IF s \in cached THEN del[Cron].found
                                      ELSE del[Cron].found \cup {s}
             v == [del[Cron] EXCEPT !.todo = del[Cron].todo \ {s}, !.found = found]
  <2>1. v.at = del[Cron].at /\ v.todo = del[Cron].todo \ {s} /\ v.found = found
    BY <1>0, <1>3, DeleterFields DEF SiftPlaceholder
  <2>2. /\ del' = [del EXCEPT ![Cron] = v] /\ del[Cron].at = "sift"
        /\ s \in del[Cron].todo /\ del[Cron] # Idle
    BY <1>3 DEF SiftPlaceholder
  <2>3. found \subseteq del[Cron].found \cup {s}
    OBVIOUS
  <2> HIDE DEF v, found
  <2>4. del'[Cron] = v /\ Held(Cron)' \subseteq v.todo \cup v.found
    BY <1>0, <2>2, DeleterMoves
  <2>5. Held(Cron)' \subseteq Held(Cron)
    BY <2>1, <2>2, <2>3, <2>4 DEF Held
  <2>6. DeleterKnows(Cron)'
    BY <2>1, <2>2, <2>4 DEF DeleterKnows
  <2> QED
    BY <1>0, <1>1, <2>2, <2>5, <2>6, SerialDeleter
<1>4. CASE CollectExpired
  <2>1. CASE del' = [del EXCEPT ![Cron] = Idle]
    <3>1. del'[Cron] = Idle
      BY <1>0, <2>1, DeleterMoves
    <3>2. Held(Cron)' = {} /\ DeleterKnows(Cron)'
      BY <3>1 DEF Held, DeleterKnows
    <3> QED
      BY <1>0, <1>1, <2>1, <3>2, SerialDeleter
  <2>2. CASE del' = [del EXCEPT ![Cron].at = "list"]
    <3> DEFINE v == [del[Cron] EXCEPT !.at = "list"]
    <3>1. v.at = "list" /\ v.todo = del[Cron].todo /\ v.found = del[Cron].found
      BY <1>0, <1>4, DeleterFields DEF CollectExpired
    <3>2. del' = [del EXCEPT ![Cron] = v] /\ del[Cron] # Idle
      BY <1>4, <2>2 DEF CollectExpired
    <3> HIDE DEF v
    <3>3. del'[Cron] = v /\ Held(Cron)' \subseteq v.todo \cup v.found
      BY <1>0, <3>2, DeleterMoves
    <3>4. Held(Cron)' \subseteq Held(Cron) /\ DeleterKnows(Cron)'
      BY <3>1, <3>2, <3>3 DEF Held, DeleterKnows
    <3> QED
      BY <1>0, <1>1, <3>2, <3>4, SerialDeleter
  <2> QED
    BY <1>4, <2>1, <2>2 DEF CollectExpired
<1> QED
  BY <1>2, <1>3, <1>4 DEF CollectStep

(* A user's deletion takes only files nobody works on. *)
LEMMA SerialBeginDelete ==
    ASSUME TypeInv, Serial, ~Overlap, NEW d \in Deleter, NEW S \in SUBSET Session,
           BeginDelete(d, S)
    PROVE  Serial'
<1>0. TypeOK /\ d \in Agents /\ KnownIssued /\ BlobHasRow
      /\ UNCHANGED <<row, blob, cached, req, hangups, issued>>
  BY DEF TypeInv, Serial, Agents, BeginDelete
<1> DEFINE v == [at |-> "list", todo |-> {}, found |-> S, sizes |-> NoSizes]
<1>1. v.at = "list" /\ v.todo = {} /\ v.found = S
  OBVIOUS
<1>2. del' = [del EXCEPT ![d] = v] /\ \A s \in S : Exists(s) /\ ~Busy(s)
  BY DEF BeginDelete, Free
<1> HIDE DEF v
<1>3. del'[d] = v /\ Held(d)' \subseteq v.todo \cup v.found
  BY <1>0, <1>2, DeleterMoves
<1>4. \A t \in Held(d)' \ Held(d) : t \in issued /\ ~Busy(t)
  BY <1>0, <1>1, <1>2, <1>3 DEF KnownIssued
<1>5. /\ BlobHasRow' /\ DeleterKnows(d)'
      /\ \A t \in Session : Exists(t)' => Exists(t)
  BY <1>0, <1>1, <1>3 DEF BlobHasRow, DeleterKnows, Exists
<1> QED
  BY <1>0, <1>2, <1>4, <1>5, SerialDeleter

(* A new request takes a session nobody works on: a fresh one, or a free    *)
(* one.                                                                     *)
LEMMA SerialBegin ==
    ASSUME TypeInv, Serial, NEW r \in Request, NEW s \in Session, ~Busy(s),
           NEW v, v.at = "insert" \/ v.at = "lookup", v.s = s,
           req' = [req EXCEPT ![r] = v], s \in issued', issued \subseteq issued',
           UNCHANGED <<row, blob, cached, del, hangups>>
    PROVE  Serial'
<1>0. /\ TypeOK /\ KnownIssued /\ Alone /\ BlobHasRow
      /\ \A q \in Request : RequestKnows(q)
      /\ \A d \in Agents : DeleterKnows(d)
      /\ req \in [Request -> Working(Stages) \cup {Quiet}]
  BY DEF TypeInv, TypeOK, Stages, Serial
<1>1. req'[r] = v /\ \A q \in Request \ {r} : req'[q] = req[q]
  BY <1>0
<1>2. \A d \in Agents : Held(d)' = Held(d) /\ s \notin Held(d)
  BY DEF Held, Busy
<1>3. KnownIssued'
  <2>1. \A q \in Request : ~ReqIdle(q)' => req'[q].s \in issued'
    BY <1>0, <1>1 DEF KnownIssued, ReqIdle
  <2>2. \A t \in Session : Exists(t)' => t \in issued'
    BY <1>0 DEF KnownIssued, Exists
  <2> QED
    BY <1>0, <1>2, <2>1, <2>2 DEF KnownIssued
<1>4. Alone'
  <2>1. \A p, q \in Request :
          ~ReqIdle(p)' /\ ~ReqIdle(q)' /\ req'[p].s = req'[q].s => p = q
    BY <1>0, <1>1 DEF Alone, ReqIdle, Busy
  <2>2. \A q \in Request, d \in Agents : ~ReqIdle(q)' => req'[q].s \notin Held(d)'
    BY <1>0, <1>1, <1>2 DEF Alone, ReqIdle
  <2>3. \A d, e \in Agents : d # e => Held(d)' \cap Held(e)' = {}
    BY <1>0, <1>2 DEF Alone
  <2> QED
    BY <2>1, <2>2, <2>3 DEF Alone
<1>5. \A q \in Request : RequestKnows(q)'
  BY <1>0, <1>1 DEF RequestKnows, AfterLookup, Pending, Exists
<1>6. BlobHasRow' /\ \A d \in Agents : DeleterKnows(d)'
  BY <1>0 DEF BlobHasRow, DeleterKnows, Exists
<1> QED
  BY <1>3, <1>4, <1>5, <1>6 DEF Serial

(* What is fresh is nobody's. *)
LEMMA FreshIsFree ==
    ASSUME KnownIssued, NEW s \in Session, s \notin issued
    PROVE  ~Busy(s)
BY DEF KnownIssued, Busy, Held

(* With sessions that have one agent at a time, what an agent has read of   *)
(* its session holds until it is done with it.                              *)
LEMMA SerialNext ==
    ASSUME TypeInv, TypeInv', Serial, ~Overlap, [Next]_vars
    PROVE  Serial'
<1>0. /\ TypeOK /\ KnownIssued /\ Alone /\ BlobHasRow
      /\ \A q \in Request : RequestKnows(q)
      /\ \A d \in Agents : DeleterKnows(d)
  BY DEF TypeInv, Serial
<1>a. ASSUME UNCHANGED <<row, req, del, issued>>, cached' \subseteq cached,
             \A h \in hangups' : h.s \in issued, BlobHasRow',
             \A t \in Session : blob[t] = NoBlob => blob'[t] = NoBlob
      PROVE  Serial'
  <2>1. \A d \in Agents : Held(d)' = Held(d)
    BY <1>a DEF Held
  <2>2. KnownIssued'
    <3>1. \A q \in Request : ~ReqIdle(q)' => req'[q].s \in issued'
      BY <1>0, <1>a DEF KnownIssued, ReqIdle
    <3>2. \A t \in Session : Exists(t)' => t \in issued'
      BY <1>0, <1>a DEF KnownIssued, Exists
    <3> QED
      BY <1>0, <1>a, <2>1, <3>1, <3>2 DEF KnownIssued
  <2>3. Alone'
    BY <1>0, <1>a, <2>1 DEF Alone, ReqIdle
  <2>4. \A q \in Request : RequestKnows(q)'
    BY <1>0, <1>a DEF RequestKnows, Pending, Exists
  <2>5. ASSUME NEW d \in Agents PROVE DeleterKnows(d)'
    <3>1. CASE del[d] = Idle
      BY <1>a, <3>1 DEF DeleterKnows
    <3>2. CASE del[d] # Idle
      <4>1. del[d].found \subseteq Session
        BY <1>0, <3>2, WorkingDeleter
      <4> QED
        BY <1>0, <1>a, <4>1 DEF DeleterKnows, Exists
    <3> QED
      BY <3>1, <3>2
  <2> QED
    BY <1>a, <2>2, <2>3, <2>4, <2>5 DEF Serial
<1>1. ASSUME NEW r \in Request, NEW s \in Session, BeginCreate(r, s) PROVE Serial'
  <2> DEFINE v == [at |-> "insert", s |-> s, i |-> 0, size |-> 0]
  <2>1. /\ (v.at = "insert" \/ v.at = "lookup") /\ v.s = s
        /\ req' = [req EXCEPT ![r] = v]
    BY <1>1 DEF BeginCreate
  <2> HIDE DEF v
  <2>2. /\ s \notin issued /\ issued' = issued \cup {s}
        /\ UNCHANGED <<row, blob, cached, del, hangups>>
    BY <1>1 DEF BeginCreate
  <2>3. ~Busy(s) /\ s \in issued' /\ issued \subseteq issued'
    BY <1>0, <2>2, FreshIsFree
  <2> QED
    BY <2>1, <2>2, <2>3, SerialBegin
<1>2. ASSUME NEW r \in Request, NEW s \in Session, NEW i \in 0 .. MaxIndex,
             BeginChunk(r, s, i)
      PROVE  Serial'
  <2> DEFINE v == [at |-> "lookup", s |-> s, i |-> i, size |-> 0]
  <2>1. /\ (v.at = "insert" \/ v.at = "lookup") /\ v.s = s
        /\ req' = [req EXCEPT ![r] = v]
    BY <1>2 DEF BeginChunk
  <2> HIDE DEF v
  <2>2. /\ s \in cached /\ ~Busy(s) /\ issued' = issued
        /\ UNCHANGED <<row, blob, cached, del, hangups>>
    BY <1>2 DEF BeginChunk, Free
  <2>3. s \in issued' /\ issued \subseteq issued'
    BY <1>0, <2>2 DEF KnownIssued
  <2> QED
    BY <2>1, <2>2, <2>3, SerialBegin
<1>3. ASSUME NEW r \in Request, RequestStep(r) PROVE Serial'
  BY <1>3, SerialRequestStep
<1>4. ASSUME NEW r \in Request, HangUp(r) PROVE Serial'
  <2>1. ~ReqIdle(r)
    BY <1>4 DEF HangUp, ReqIdle
  <2>2. UNCHANGED <<row, blob, cached, req, del, issued>>
    BY <1>4 DEF HangUp
  <2>3. \A h \in hangups' : h.s \in issued
    BY <1>0, <1>4, <2>1 DEF HangUp, KnownIssued
  <2>4. BlobHasRow'
    BY <1>0, <2>2 DEF BlobHasRow, Exists
  <2> QED
    BY <1>a, <2>2, <2>3, <2>4
<1>5. ASSUME NEW h \in hangups, TruncateCanceled(h) PROVE Serial'
  <2>1. UNCHANGED <<row, cached, req, del, issued>> /\ hangups' \subseteq hangups
    BY <1>5 DEF TruncateCanceled
  <2>2. \A t \in Session : blob[t] = NoBlob => blob'[t] = NoBlob
    BY <1>0, <1>5 DEF TruncateCanceled, TypeOK
  <2>3. BlobHasRow'
    BY <1>0, <2>1, <2>2 DEF BlobHasRow, Exists
  <2>4. \A g \in hangups' : g.s \in issued
    BY <1>0, <2>1 DEF KnownIssued
  <2> QED
    BY <1>a, <2>1, <2>2, <2>3, <2>4
<1>6. ASSUME NEW d \in Deleter, NEW S \in SUBSET Session \ {{}}, BeginDelete(d, S)
      PROVE  Serial'
  BY <1>6, SerialBeginDelete
<1>7. ASSUME NEW d \in Agents, DeleteStep(d) PROVE Serial'
  BY <1>7, SerialDeleteStep
<1>8. CASE CollectStep
  BY <1>8, SerialCollectStep
<1>9. ASSUME NEW s \in Session, Expire(s) PROVE Serial'
  <2>1. UNCHANGED <<row, blob, req, del, hangups, issued>> /\ cached' \subseteq cached
    BY <1>9 DEF Expire
  <2>2. BlobHasRow' /\ \A h \in hangups' : h.s \in issued
    BY <1>0, <2>1 DEF BlobHasRow, Exists, KnownIssued
  <2> QED
    BY <1>a, <2>1, <2>2
<1>10. CASE Restart
  <2>1. /\ \A q \in Request : ReqIdle(q)' /\ req'[q].at = "idle"
        /\ \A d \in Agents : del'[d] = Idle /\ Held(d)' = {}
        /\ hangups' = {} /\ cached' \subseteq cached
        /\ UNCHANGED <<row, blob, issued>>
    BY <1>10 DEF Restart, ReqIdle, Quiet, Held
  <2>2. KnownIssued' /\ Alone' /\ BlobHasRow'
    BY <1>0, <2>1 DEF KnownIssued, Alone, BlobHasRow, Exists
  <2>3. \A q \in Request : RequestKnows(q)'
    BY <2>1 DEF RequestKnows, AfterLookup
  <2>4. \A d \in Agents : DeleterKnows(d)'
    BY <2>1 DEF DeleterKnows
  <2> QED
    BY <2>2, <2>3, <2>4 DEF Serial
<1>11. CASE UNCHANGED vars
  <2>1. BlobHasRow' /\ \A h \in hangups' : h.s \in issued
    BY <1>0, <1>11 DEF vars, BlobHasRow, Exists, KnownIssued
  <2> QED
    BY <1>a, <1>11, <2>1 DEF vars
<1> QED
  BY <1>1, <1>2, <1>3, <1>4, <1>5, <1>6, <1>7, <1>8, <1>9, <1>10, <1>11 DEF Next

(* At the start nobody works on anything. *)
LEMMA SerialInit == Init => Serial
<1> SUFFICES ASSUME Init PROVE Serial
  OBVIOUS
<1>1. /\ \A q \in Request : ReqIdle(q) /\ req[q].at = "idle"
      /\ \A d \in Agents : del[d] = Idle /\ Held(d) = {}
      /\ \A s \in Session : ~Exists(s) /\ blob[s] = NoBlob
      /\ hangups = {} /\ cached = {}
  BY DEF Init, ReqIdle, Quiet, Held, Exists
<1> QED
  BY <1>1 DEF Serial, KnownIssued, Alone, BlobHasRow, RequestKnows, DeleterKnows,
              AfterLookup

(* While sessions have one agent at a time, no file is left without a row,  *)
(* whatever requests are cut, cancelled or rolled back, whatever files      *)
(* resist removal and however often the server restarts.                    *)
THEOREM BlobHasRowSafe ==
    ASSUME ~Overlap
    PROVE  Spec => []BlobHasRow
<1> DEFINE IInv == TypeInv /\ Serial
<1>1. Init => IInv
  BY TypeInit, SerialInit
<1>2. IInv /\ [Next]_vars => IInv'
  BY TypeNext, SerialNext
<1>3. IInv => BlobHasRow
  BY DEF Serial
<1> QED
  BY <1>1, <1>2, <1>3, PTL DEF Spec
-----------------------------------------------------------------------------
(* The ledger.  A transaction that is rolled back leaves the request with a *)
(* size that the row does not have, so the charge and the rows go together  *)
(* as long as the database accepts every transaction.                       *)

NoRollback == /\ budget["txFails"] = 0
              /\ \A r \in Request : req[r].at \notin {"truncate", "refund"}

Charge(s) == IF Exists(s) THEN row[s].size ELSE 0
Charges == [s \in Session |-> Charge(s)]

(* The ledger as a total of the charges, before and after a step. *)
LEMMA LedgerTotal ==
    /\ Ledger <=> storage = Total(Charges, Session)
    /\ Ledger' <=> storage' = Total(Charges', Session)
<1>1. Ledger <=> storage = Total(Charges, Session)
  BY DEF Ledger, Charges, Charge, Total
<1>2. Ledger' <=> storage' = Total(Charges', Session)
  BY DEF Ledger, Charges, Charge, Total, FoldFunctionOnSet, MapThenFoldSet
<1> QED
  BY <1>1, <1>2

(* Where no row changes and nothing is charged the ledger stays right. *)
LEMMA LedgerStays ==
    ASSUME Ledger, UNCHANGED <<row, storage>>
    PROVE  Ledger'
<1>1. Charges' = Charges
  BY DEF Charges, Charge, Exists
<1> QED
  BY <1>1, LedgerTotal

(* Every row charges an integer. *)
LEMMA ChargeType ==
    /\ TypeInv => \A s \in Session : Charges[s] \in Int /\ Charges[s] = Charge(s)
    /\ TypeInv' => \A s \in Session : Charges'[s] \in Int /\ Charges'[s] = Charge(s)'
<1>1. TypeInv => \A s \in Session : Charges[s] \in Int /\ Charges[s] = Charge(s)
  BY DEF TypeInv, TypeOK, Row, Charges, Charge, Exists
<1>2. TypeInv' => \A s \in Session : Charges'[s] \in Int /\ Charges'[s] = Charge(s)'
  BY DEF TypeInv, TypeOK, Row, Charges, Charge, Exists
<1> QED
  BY <1>1, <1>2

(* One row changes, and the user is charged the difference. *)
LEMMA LedgerMoves ==
    ASSUME TypeInv, TypeInv', IsFiniteSet(Session), Ledger, NEW s \in Session,
           \A t \in Session \ {s} : row'[t] = row[t],
           storage' = storage + (Charge(s)' - Charge(s))
    PROVE  Ledger'
<1>1. PICK f, g : f = Charges /\ g = Charges'
  OBVIOUS
<1>2. Updated(f, g, s, Session)
  <2>1. \A t \in Session : t # s => Charge(t)' = Charge(t)
    BY DEF Charge, Exists
  <2> QED
    BY <1>1, <2>1, ChargeType DEF Updated
<1>3. Total(g, Session) = Total(f, Session) + (g[s] - f[s])
  BY <1>2, TotalUpdate
<1>4. g[s] = Charge(s)' /\ f[s] = Charge(s) /\ storage = Total(f, Session)
  BY <1>1, ChargeType, LedgerTotal
<1>5. storage' = Total(g, Session)
  BY <1>3, <1>4
<1> QED
  BY <1>1, <1>5, LedgerTotal

(* Rows go, and the user gets back what they were charged for. *)
LEMMA LedgerErase ==
    ASSUME TypeInv, TypeInv', IsFiniteSet(Session), Ledger, NEW d \in Agents,
           EraseRows(d)
    PROVE  Ledger'
<1>1. CASE UNCHANGED <<row, storage>>
  BY <1>1, LedgerStays
<1>2. CASE ~UNCHANGED <<row, storage>>
  <2>1. del[d] # Idle
    BY DEF EraseRows
  <2>2. PICK found, sizes : found = del[d].found /\ sizes = del[d].sizes
    OBVIOUS
  <2>3. found \in SUBSET Session /\ sizes \in [Session -> Nat]
    BY <2>1, <2>2, WorkingDeleter DEF TypeInv
  <2>4. /\ \A s \in found : Exists(s) /\ row[s].size = sizes[s]
        /\ row' = Removed(found) /\ storage' = storage - Total(sizes, found)
    BY <1>2, <2>2 DEF EraseRows, Total
  <2>5. PICK f, g : f = Charges /\ g = Charges'
    OBVIOUS
  <2>6. Erased(f, g, found, Session)
    <3>1. \A s \in Session : Charge(s)' = IF s \in found THEN 0 ELSE Charge(s)
      BY <2>4 DEF Removed, Charge, Exists
    <3> QED
      BY <2>5, <3>1, ChargeType DEF Erased
  <2>7. Total(g, Session) = Total(f, Session) - Total(f, found)
    <3>1. Session \cap found = found
      BY <2>3
    <3>2. Total(g, Session) = Total(f, Session) - Total(f, Session \cap found)
      BY <2>6, TotalErased
    <3> QED
      BY <3>1, <3>2
  <2>8. Total(sizes, found) = Total(f, found)
    <3>1. IsFiniteSet(found)
      BY <2>3, FS_Subset
    <3>2. \A s \in found : f[s] \in Int /\ sizes[s] = f[s]
      BY <2>3, <2>4, <2>5, ChargeType DEF Charge
    <3> QED
      BY <3>1, <3>2, TotalSame
  <2>9. storage = Total(f, Session)
    BY <2>5, LedgerTotal
  <2>10. storage' = Total(g, Session)
    BY <2>4, <2>7, <2>8, <2>9
  <2> QED
    BY <2>5, <2>10, LedgerTotal
<1> QED
  BY <1>1, <1>2

(* Without rollbacks a request keeps the ledger. *)
LEMMA LedgerRequestStep ==
    ASSUME TypeInv, TypeInv', IsFiniteSet(Session), Ledger, NoRollback,
           NEW r \in Request, RequestKnows(r), RequestStep(r)
    PROVE  Ledger'
<1>0. TypeOK /\ ~ReqIdle(r)
  BY StepTouches DEF TypeInv
<1>1. PICK s \in Session, i \in Nat : s = req[r].s /\ i = req[r].i
  BY <1>0, WorkingChunk
<1>2. TouchesRow(s)
  BY <1>1, StepTouches DEF Touches
<1>3. UNCHANGED <<row, storage>> => Ledger'
  BY LedgerStays
<1>4. ASSUME storage' = storage + (Charge(s)' - Charge(s)) PROVE Ledger'
  BY <1>2, <1>4, LedgerMoves DEF TouchesRow
<1>5. CASE InsertPlaceholder(r)
  <2>1. CASE row' = [row EXCEPT ![s] = [size |-> 0, pending |-> TRUE]]
    <3>1. CASE Exists(s)
      <4>1. UNCHANGED row
        BY <1>1, <1>5, <3>1 DEF InsertPlaceholder
      <4> QED
        BY <1>3, <1>5, <4>1 DEF InsertPlaceholder
    <3>2. CASE ~Exists(s)
      <4>1. row'[s] = [size |-> 0, pending |-> TRUE]
        BY <1>0, <2>1 DEF TypeOK
      <4>2. Charge(s)' = 0 /\ Charge(s) = 0
        BY <3>2, <4>1 DEF Charge, Exists
      <4>3. storage' = storage /\ storage \in Int
        BY <1>0, <1>5 DEF InsertPlaceholder, TypeOK
      <4> QED
        BY <1>4, <4>2, <4>3
    <3> QED
      BY <3>1, <3>2
  <2> QED
    BY <1>1, <1>3, <1>5, <2>1 DEF InsertPlaceholder
<1>6. CASE ChargeChunk(r)
  <2>1. /\ Pending(s) /\ row[s].size = req[r].size
        /\ UpdateSize(s, req[r].size, End(s, i)) /\ End(s, i) \in Nat
    BY <1>0, <1>1, <1>6, WorkingChunk DEF ChargeChunk, RequestKnows, AfterLookup
  <2>2. Charge(s) = req[r].size /\ Charge(s)' = End(s, i)
    BY <1>0, <2>1, UpdateSizeRow DEF Charge, Pending
  <2>3. storage' = storage + (End(s, i) - req[r].size)
    BY <2>1 DEF UpdateSize
  <2> QED
    BY <1>4, <2>2, <2>3
<1>7. CASE PromotePlaceholder(r)
  <2>1. CASE Exists(s)
    <3> DEFINE v == [row[s] EXCEPT !.pending = FALSE]
    <3>1. row[s] \in Row /\ row \in [Session -> Row \cup {NoRow}]
      BY <1>0, <2>1 DEF TypeOK, Exists
    <3>2. v.size = row[s].size /\ v \in Row
      BY <3>1 DEF Row
    <3>3. row' = [row EXCEPT ![s] = v]
      BY <1>1, <1>7, <2>1 DEF PromotePlaceholder
    <3> HIDE DEF v
    <3>4. row'[s] = v /\ v # NoRow
      BY <3>1, <3>2, <3>3, MarkersAssumption DEF Row
    <3>5. Charge(s)' = Charge(s) /\ Charge(s) \in Int
      BY <2>1, <3>1, <3>2, <3>4 DEF Charge, Exists, Row
    <3>6. storage' = storage /\ storage \in Int
      BY <1>0, <1>7 DEF PromotePlaceholder, TypeOK
    <3> QED
      BY <1>4, <3>5, <3>6
  <2>2. CASE ~Exists(s)
    BY <1>1, <1>3, <1>7, <2>2 DEF PromotePlaceholder
  <2> QED
    BY <2>1, <2>2
<1>8. CASE ~(InsertPlaceholder(r) \/ ChargeChunk(r) \/ PromotePlaceholder(r))
  <2>1. ~RefundChunk(r)
    BY DEF RefundChunk, NoRollback
  <2> QED
    BY <1>3, <1>8, <2>1
       DEF RequestStep, InsertPlaceholderFails, RegisterSession, LookupPlaceholder,
           CheckNotExists, OpenBlob, WriteChunk, WritePartOfChunk, ChargeChunkFails,
           PromotePlaceholderFails, UnregisterSession, TruncateChunk, RefundChunkFails
<1> QED
  BY <1>5, <1>6, <1>7, <1>8

(* Every step keeps the ledger, *)
LEMMA LedgerNext ==
    ASSUME TypeInv, TypeInv', IsFiniteSet(Session), Serial, Ledger, NoRollback,
           [Next]_vars
    PROVE  Ledger'
<1>1. UNCHANGED <<row, storage>> => Ledger'
  BY LedgerStays
<1>2. ASSUME NEW r \in Request, RequestStep(r) PROVE Ledger'
  BY <1>2, LedgerRequestStep DEF Serial
<1>3. ASSUME NEW d \in Agents, DeleteStep(d) PROVE Ledger'
  <2>1. CASE EraseRows(d)
    BY <2>1, LedgerErase
  <2>2. CASE ~EraseRows(d)
    BY <1>1, <1>3, <2>2 DEF DeleteStep, ListFiles, CancelSessions, EraseRowsFails,
                            UnlinkBlob, UnlinkBlobFails
  <2> QED
    BY <2>1, <2>2
<1>4. CASE CollectStep
  BY <1>1, <1>4 DEF CollectStep, ListPlaceholders, CollectExpired, SiftPlaceholder
<1>5. CASE Restart
  BY <1>1, <1>5 DEF Restart
<1>6. CASE \/ \E r \in Request, s \in Session : BeginCreate(r, s)
           \/ \E r \in Request, s \in Session, i \in 0 .. MaxIndex : BeginChunk(r, s, i)
           \/ \E r \in Request : HangUp(r)
           \/ \E h \in hangups : TruncateCanceled(h)
           \/ \E d \in Deleter, S \in SUBSET Session \ {{}} : BeginDelete(d, S)
           \/ \E s \in Session : Expire(s)
  BY <1>1, <1>6 DEF BeginCreate, BeginChunk, HangUp, TruncateCanceled, BeginDelete,
                    Expire
<1>7. CASE UNCHANGED vars
  BY <1>1, <1>7 DEF vars
<1> QED
  BY <1>2, <1>3, <1>4, <1>5, <1>6, <1>7 DEF Next

(* and none rolls back what the budget does not allow it to. *)
LEMMA NoRollbackNext ==
    ASSUME TypeInv, TypeInv', NoRollback, [Next]_vars
    PROVE  NoRollback'
<1>0. /\ TypeOK /\ budget["txFails"] = 0
      /\ budget \in [{"cuts", "txFails", "cancels", "restarts"} -> Nat]
      /\ req \in [Request -> Working(Stages) \cup {Quiet}]
  BY DEF TypeInv, TypeOK, Stages, NoRollback
<1> DEFINE Calmly == \A q \in Request : req'[q].at \in {"truncate", "refund"} =>
                                        req[q].at \in {"truncate", "refund"}
<1>1. Calmly => \A q \in Request : req'[q].at \notin {"truncate", "refund"}
  BY DEF NoRollback
<1>2. ~Spend("txFails")
  <2>1. ~(0 > 0)
    OBVIOUS
  <2> QED
    BY <1>0, <2>1 DEF Spend
<1>3. ASSUME NEW b \in {"cuts", "cancels", "restarts"}, Spend(b)
      PROVE  budget'["txFails"] = 0
  BY <1>0, <1>3 DEF Spend
<1>4. ASSUME NEW r \in Request, NEW v, req' = [req EXCEPT ![r] = v],
             v.at \notin {"truncate", "refund"}
      PROVE  Calmly
  BY <1>0, <1>4
<1>5. ASSUME NEW r \in Request, RequestStep(r)
      PROVE  Calmly /\ budget'["txFails"] = 0
  <2>0. ~ReqIdle(r)
    BY <1>5, StepTouches
  <2>1. Leave(r) => Calmly
    BY <1>0, HasLeft
  <2>2. ASSUME NEW at, Goto(r, at), at \notin {"truncate", "refund"} PROVE Calmly
    BY <1>0, <2>0, <2>2, Moved
  <2>3. ASSUME NEW at, NEW size, GotoSized(r, at, size),
               at \notin {"truncate", "refund"}
        PROVE  Calmly
    BY <1>0, <2>0, <2>3, MovedSized
  <2>4. req[r].at \notin {"truncate", "refund"}
    BY DEF NoRollback
  <2>5. Calmly
    <3>1. CASE InsertPlaceholder(r)
      BY <2>1, <2>2, <3>1 DEF InsertPlaceholder
    <3>2. CASE InsertPlaceholderFails(r) \/ RegisterSession(r) \/ UnregisterSession(r)
               \/ WritePartOfChunk(r)
      BY <2>1, <3>2 DEF InsertPlaceholderFails, RegisterSession, UnregisterSession,
                        WritePartOfChunk
    <3>3. CASE LookupPlaceholder(r)
      <4>1. CASE req' = [req EXCEPT ![r].at = IF req[r].i = 0 THEN "check" ELSE "open",
                                    ![r].size = row[req[r].s].size]
        <5>1. PICK at, size : /\ at = (IF req[r].i = 0 THEN "check" ELSE "open")
                              /\ size = row[req[r].s].size
                              /\ GotoSized(r, at, size)
          BY <4>1 DEF GotoSized
        <5>2. at \notin {"truncate", "refund"}
          BY <5>1
        <5> QED
          BY <2>3, <5>1, <5>2
      <4> QED
        BY <2>1, <3>3, <4>1 DEF LookupPlaceholder
    <3>4. CASE CheckNotExists(r)
      BY <2>1, <2>2, <3>4 DEF CheckNotExists
    <3>5. CASE OpenBlob(r)
      BY <2>1, <2>2, <3>5 DEF OpenBlob
    <3>6. CASE WriteChunk(r)
      BY <2>2, <3>6 DEF WriteChunk
    <3>7. CASE ChargeChunk(r)
      <4>1. Leave(r) \/ \E size : GotoSized(r, "promote", size)
        BY <3>7 DEF ChargeChunk, GotoSized
      <4> QED
        BY <2>1, <2>3, <4>1
    <3>8. CASE PromotePlaceholder(r)
      BY <2>2, <3>8 DEF PromotePlaceholder
    <3>9. CASE ChargeChunkFails(r) \/ PromotePlaceholderFails(r)
      BY <1>2, <3>9 DEF ChargeChunkFails, PromotePlaceholderFails
    <3>10. CASE TruncateChunk(r) \/ RefundChunk(r) \/ RefundChunkFails(r)
      BY <2>4, <3>10 DEF TruncateChunk, RefundChunk, RefundChunkFails
    <3> QED
      BY <1>5, <3>1, <3>2, <3>3, <3>4, <3>5, <3>6, <3>7, <3>8, <3>9, <3>10
         DEF RequestStep
  <2>6. budget'["txFails"] = 0
    <3>1. budget' = budget \/ Spend("cuts") \/ Spend("txFails")
      BY <1>5 DEF RequestStep, InsertPlaceholder, InsertPlaceholderFails,
         RegisterSession, LookupPlaceholder, CheckNotExists, OpenBlob, WriteChunk,
         WritePartOfChunk, ChargeChunk, ChargeChunkFails, PromotePlaceholder,
         PromotePlaceholderFails, UnregisterSession, TruncateChunk, RefundChunk,
         RefundChunkFails
    <3> QED
      BY <1>0, <1>2, <1>3, <3>1
  <2> HIDE DEF Calmly
  <2> QED
    BY <2>5, <2>6
<1>6. ASSUME NEW d \in Agents, DeleteStep(d)
      PROVE  Calmly /\ budget'["txFails"] = 0
  <2>1. budget' = budget \/ Spend("cuts") \/ Spend("txFails")
    BY <1>6 DEF DeleteStep, ListFiles, CancelSessions, EraseRows, EraseRowsFails,
                UnlinkBlob, UnlinkBlobFails
  <2>2. UNCHANGED req => Calmly
    OBVIOUS
  <2>3. ASSUME NEW s \in Session, UnlinkBlob(d, s) PROVE Calmly
    <3>1. ASSUME NEW q \in Request PROVE req'[q].at \in {req[q].at, "writeGone"}
      <4>1. CASE req[q].at = "write" /\ req[q].s = s
        <5>1. req[q] \in Working(Stages)
          BY <1>0, <4>1, WorkingRequest DEF ReqIdle
        <5>2. req'[q] = [req[q] EXCEPT !.at = "writeGone"]
          BY <2>3, <4>1 DEF UnlinkBlob
        <5> QED
          BY <5>1, <5>2 DEF Working
      <4>2. CASE ~(req[q].at = "write" /\ req[q].s = s)
        BY <2>3, <4>2 DEF UnlinkBlob
      <4> QED
        BY <4>1, <4>2
    <3> QED
      BY <3>1
  <2>4. Calmly
    BY <1>6, <2>2, <2>3 DEF DeleteStep, ListFiles, CancelSessions, EraseRows,
                            EraseRowsFails, UnlinkBlobFails
  <2> HIDE DEF Calmly
  <2> QED
    BY <1>0, <1>2, <1>3, <2>1, <2>4
<1>7. CASE Restart
  <2>1. Calmly
    BY <1>7 DEF Restart, Quiet
  <2> QED
    BY <1>1, <1>3, <1>7, <2>1 DEF Restart, NoRollback
<1>8. ASSUME NEW r \in Request, NEW s \in Session, BeginCreate(r, s) PROVE NoRollback'
  <2> DEFINE v == [at |-> "insert", s |-> s, i |-> 0, size |-> 0]
  <2>1. req' = [req EXCEPT ![r] = v] /\ v.at = "insert"
    BY <1>8 DEF BeginCreate
  <2> HIDE DEF v
  <2>2. Calmly
    BY <1>4, <2>1
  <2> QED
    BY <1>0, <1>1, <1>8, <2>2 DEF BeginCreate, NoRollback
<1>9. ASSUME NEW r \in Request, NEW s \in Session, NEW i \in 0 .. MaxIndex,
             BeginChunk(r, s, i)
      PROVE  NoRollback'
  <2> DEFINE v == [at |-> "lookup", s |-> s, i |-> i, size |-> 0]
  <2>1. req' = [req EXCEPT ![r] = v] /\ v.at = "lookup"
    BY <1>9 DEF BeginChunk
  <2> HIDE DEF v
  <2>2. Calmly
    BY <1>4, <2>1
  <2> QED
    BY <1>0, <1>1, <1>9, <2>2 DEF BeginChunk, NoRollback
<1>10. ASSUME UNCHANGED req, budget' = budget \/ Spend("cancels")
       PROVE  NoRollback'
  BY <1>0, <1>3, <1>10 DEF NoRollback
<1>11. CASE \/ \E r \in Request : HangUp(r)
            \/ \E h \in hangups : TruncateCanceled(h)
            \/ \E d \in Deleter, S \in SUBSET Session \ {{}} : BeginDelete(d, S)
            \/ CollectStep
            \/ \E s \in Session : Expire(s)
            \/ UNCHANGED vars
  BY <1>10, <1>11 DEF HangUp, TruncateCanceled, BeginDelete, Expire, vars,
     CollectStep, ListPlaceholders, CollectExpired, SiftPlaceholder
<1> HIDE DEF Calmly
<1>12. ASSUME Calmly, budget'["txFails"] = 0 PROVE NoRollback'
  BY <1>1, <1>12 DEF NoRollback
<1> QED
  BY <1>5, <1>6, <1>7, <1>8, <1>9, <1>11, <1>12 DEF Next

(* At the start nobody is charged for anything. *)
LEMMA LedgerInit ==
    ASSUME IsFiniteSet(Session), Init
    PROVE  Ledger
<1>1. PICK f : f = Charges
  OBVIOUS
<1>2. Erased(f, f, Session, Session)
  BY <1>1 DEF Init, Charges, Charge, Exists, Erased
<1>3. Session \cap Session = Session
  OBVIOUS
<1>4. PICK n : n = Total(f, Session)
  OBVIOUS
<1>5. n = n - n /\ n \in Int
  <2>1. Total(f, Session) = Total(f, Session) - Total(f, Session \cap Session)
    BY <1>2, TotalErased
  <2>2. \A s \in Session : f[s] \in Int
    BY <1>2 DEF Erased
  <2>3. Total(f, Session) \in Int
    BY <2>2, TotalType
  <2> QED
    BY <1>3, <1>4, <2>1, <2>3
<1>6. storage = Total(f, Session)
  BY <1>4, <1>5 DEF Init
<1> QED
  BY <1>1, <1>6, LedgerTotal

(* For any finite number of sessions, while sessions have one agent at a    *)
(* time and the database rolls nothing back, the user is charged for the    *)
(* sizes of the rows and for nothing else: after chunks that were cut       *)
(* short, retried or cancelled, files that resisted removal, and restarts.  *)
THEOREM LedgerSafe ==
    ASSUME IsFiniteSet(Session), ~Overlap, MaxTxFails = 0
    PROVE  Spec => []Ledger
<1> DEFINE IInv == TypeInv /\ Serial /\ NoRollback /\ Ledger
<1>1. Init => IInv
  <2>1. Init => NoRollback
    BY DEF Init, NoRollback, Quiet
  <2> QED
    BY <2>1, TypeInit, SerialInit, LedgerInit
<1>2. IInv /\ [Next]_vars => IInv'
  BY TypeNext, SerialNext, NoRollbackNext, LedgerNext
<1>3. IInv => Ledger
  OBVIOUS
<1> QED
  BY <1>1, <1>2, <1>3, PTL DEF Spec
-----------------------------------------------------------------------------
(* Finished files.  A client that hangs up leaves a truncation behind that  *)
(* may come when the file is finished, so files keep their bytes as long as *)
(* nobody hangs up.                                                         *)

Bytes(n) == [k \in 1 .. n |-> k - 1]

NoHangup == hangups = {} /\ budget["cancels"] = 0

(* A file holds the first bytes of what the client sends, *)
Prefix(s) ==
    blob[s] # NoBlob => \E n \in 0 .. Size[s] : blob[s] = Bytes(n)

(* as many as the stage of the request that works on it tells, *)
Written(r) ==
    LET s == req[r].s
        i == req[r].i
    IN  /\ req[r].at = "write" => blob[s] = Bytes(Start(i))
        /\ req[r].at = "charge" => blob[s] = Bytes(End(s, i))
        /\ req[r].at = "truncate" =>
             \E n \in 0 .. Size[s] : n >= Start(i) /\ blob[s] = Bytes(n)
        /\ req[r].at = "promote" => req[r].size = Size[s] /\ blob[s] = Bytes(Size[s])

(* and a finished one holds them all, unless the user asked to delete it.   *)
Whole(s) ==
    Finished(s) => /\ row[s].size = Size[s]
                   /\ blob[s] # NoBlob => blob[s] = Content(s)
                   /\ blob[s] = NoBlob => s \in asked

(* Deletions are asked for, or they are of placeholders. *)
Asked(d) == /\ d \in Deleter => Held(d) \subseteq asked
            /\ d = Cron => \A s \in Held(d) : Pending(s)

Intact == /\ NoHangup
          /\ \A s \in Session : Prefix(s) /\ Whole(s)
          /\ \A r \in Request : Written(r)

(* What opening, writing and cutting do to the first bytes of a file. *)
LEMMA BytesOf ==
    /\ \A n \in Nat : Bytes(n) \in Seq(Int) /\ Len(Bytes(n)) = n
    /\ \A m, n \in Nat : n <= m => Resize(Bytes(m), n) = Bytes(n)
    /\ \A m, n \in Nat : Bytes(m) \o Slice(m, n) = Bytes(m + n)
    /\ Bytes(0) = << >>
<1>1. ASSUME NEW n \in Nat PROVE Bytes(n) \in Seq(Int) /\ Len(Bytes(n)) = n
  <2>1. \A k \in 1 .. n : k - 1 \in Int
    OBVIOUS
  <2> QED
    BY <2>1 DEF Bytes
<1>2. ASSUME NEW m \in Nat, NEW n \in Nat, n <= m
      PROVE  Resize(Bytes(m), n) = Bytes(n)
  <2>1. Len(Bytes(m)) = m
    BY <1>1
  <2>2. \A k \in 1 .. n : k \in 1 .. m /\ Bytes(m)[k] = k - 1
    BY <1>2 DEF Bytes
  <2>3. Resize(Bytes(m), n) = [k \in 1 .. n |-> k - 1]
    BY <2>1, <2>2 DEF Resize
  <2> QED
    BY <2>3 DEF Bytes
<1>3. ASSUME NEW m \in Nat, NEW n \in Nat
      PROVE  Bytes(m) \o Slice(m, n) = Bytes(m + n)
  <2> DEFINE a == Bytes(m)
             b == Slice(m, n)
             c == Bytes(m + n)
  <2>1. /\ a \in Seq(Int) /\ Len(a) = m /\ \A k \in 1 .. m : a[k] = k - 1
        /\ c \in Seq(Int) /\ Len(c) = m + n /\ \A k \in 1 .. m + n : c[k] = k - 1
    <3>1. m + n \in Nat
      OBVIOUS
    <3> QED
      BY <1>1, <3>1 DEF Bytes
  <2>2. b \in Seq(Int) /\ Len(b) = n /\ \A k \in 1 .. n : b[k] = m + k - 1
    <3>1. \A k \in 1 .. n : m + k - 1 \in Int
      OBVIOUS
    <3> QED
      BY <3>1 DEF Slice
  <2> HIDE DEF a, b, c
  <2>3. /\ a \o b \in Seq(Int) /\ Len(a \o b) = m + n
        /\ \A k \in 1 .. m + n : (a \o b)[k] = IF k <= m THEN a[k] ELSE b[k - m]
    BY <2>1, <2>2, ConcatProperties
  <2>4. \A k \in 1 .. m + n : (a \o b)[k] = c[k]
    BY <2>1, <2>2, <2>3
  <2>5. a \o b = c
    BY <2>1, <2>3, <2>4, SeqEqual
  <2> QED
    BY <2>5 DEF a, b, c
<1>4. Bytes(0) = << >>
  BY <1>1
<1> QED
  BY <1>1, <1>2, <1>3, <1>4

(* What a request stands for after a step, with its fields named. *)
LEMMA WrittenNext ==
    ASSUME NEW r \in Request, NEW at, NEW s, NEW i,
           req'[r].at = at, req'[r].s = s, req'[r].i = i,
           at = "write" => blob'[s] = Bytes(Start(i)),
           at = "charge" => blob'[s] = Bytes(End(s, i)),
           at = "truncate" =>
             \E n \in 0 .. Size[s] : n >= Start(i) /\ blob'[s] = Bytes(n),
           at = "promote" => req'[r].size = Size[s] /\ blob'[s] = Bytes(Size[s])
    PROVE  Written(r)'
BY DEF Written, Bytes, Start, End, ChunkLen, IsLastChunk

(* A request keeps its file in order, and finishes it only when it is whole. *)
LEMMA IntactOwn ==
    ASSUME TypeInv, NEW r \in Request, RequestKnows(r), Written(r),
           NEW s \in Session, s = req[r].s, Prefix(s), Whole(s), RequestStep(r)
    PROVE  Prefix(s)' /\ Whole(s)' /\ Written(r)'
<1>0. TypeOK /\ ~ReqIdle(r) /\ asked' = asked
  BY StepTouches DEF TypeInv, Touches
<1>1. PICK i \in Nat : i = req[r].i
  BY <1>0, WorkingChunk
<1>2. /\ Start(i) \in Nat /\ Size[s] \in Nat
      /\ req[r].at \in AfterLookup =>
           /\ End(s, i) \in Nat /\ Start(i) <= End(s, i) /\ End(s, i) <= Size[s]
           /\ Start(i) <= Size[s]
  BY <1>0, <1>1, WorkingChunk, SizesAssumption
<1>3. \A n \in Nat : Bytes(n) \in Seq(Int) /\ Len(Bytes(n)) = n /\ Bytes(n) # NoBlob
  BY BytesOf, MarkersAssumption
<1>4. /\ req[r].at = "write" => blob[s] = Bytes(Start(i))
      /\ req[r].at = "charge" => blob[s] = Bytes(End(s, i))
      /\ req[r].at = "truncate" =>
           \E n \in 0 .. Size[s] : n >= Start(i) /\ blob[s] = Bytes(n)
      /\ req[r].at = "promote" => req[r].size = Size[s] /\ blob[s] = Bytes(Size[s])
  BY <1>1 DEF Written
<1>5. req[r].at \in AfterLookup \ {"unregister"} => Pending(s)
  BY DEF RequestKnows
<1>a. Leave(r) => Written(r)'
  BY <1>0, HasLeft DEF Written
<1>b. ASSUME NEW at, Goto(r, at)
      PROVE  /\ req'[r].at = at /\ req'[r].s = s /\ req'[r].i = i
             /\ req'[r].size = req[r].size
  BY <1>0, <1>1, <1>b, Moved
<1>c. ASSUME NEW at, Goto(r, at), at \notin {"write", "charge", "truncate", "promote"}
      PROVE  Written(r)'
  BY <1>b, <1>c, WrittenNext
<1>d. UNCHANGED <<row, blob>> => Prefix(s)' /\ Whole(s)'
  BY <1>0 DEF Prefix, Whole, Finished, Exists, Bytes, Content
<1>e. ASSUME NEW n \in 0 .. Size[s], blob'[s] = Bytes(n), ~Finished(s)'
      PROVE  Prefix(s)' /\ Whole(s)'
  BY <1>e DEF Prefix, Whole, Bytes
<1>f. UNCHANGED row /\ req[r].at \in AfterLookup \ {"unregister"} => ~Finished(s)'
  BY <1>5 DEF Pending, Finished, Exists
<1>6. CASE InsertPlaceholder(r)
  <2>1. CASE Leave(r) /\ UNCHANGED row
    BY <1>6, <1>a, <1>d, <2>1 DEF InsertPlaceholder
  <2>2. CASE row' = [row EXCEPT ![s] = [size |-> 0, pending |-> TRUE]]
             /\ Goto(r, "register")
    <3>1. Written(r)'
      BY <1>c, <2>2
    <3>2. row'[s] = [size |-> 0, pending |-> TRUE] /\ UNCHANGED blob
      BY <1>0, <1>6, <2>2 DEF TypeOK, InsertPlaceholder
    <3>3. ~Finished(s)' /\ Prefix(s)'
      BY <3>2 DEF Finished, Prefix, Bytes
    <3>4. Whole(s)'
      BY <3>3 DEF Whole
    <3> QED
      BY <3>1, <3>3, <3>4
  <2> QED
    BY <1>6, <2>1, <2>2 DEF InsertPlaceholder
<1>7. CASE InsertPlaceholderFails(r) \/ RegisterSession(r) \/ UnregisterSession(r)
           \/ RefundChunkFails(r)
  BY <1>7, <1>a, <1>d DEF InsertPlaceholderFails, RegisterSession, UnregisterSession,
                          RefundChunkFails
<1>8. CASE LookupPlaceholder(r)
  <2>1. CASE req' = [req EXCEPT ![r].at = IF i = 0 THEN "check" ELSE "open",
                                ![r].size = row[s].size]
    <3>1. PICK at, size : /\ at = (IF i = 0 THEN "check" ELSE "open")
                          /\ size = row[s].size /\ GotoSized(r, at, size)
      BY <2>1 DEF GotoSized
    <3>2. at \notin {"write", "charge", "truncate", "promote"}
      BY <3>1
    <3>3. req'[r].at = at /\ req'[r].s = s /\ req'[r].i = i
      BY <1>0, <1>1, <3>1, MovedSized
    <3>4. Written(r)'
      BY <3>2, <3>3, WrittenNext
    <3> QED
      BY <1>8, <1>d, <3>4 DEF LookupPlaceholder
  <2> QED
    BY <1>1, <1>8, <1>a, <1>d, <2>1 DEF LookupPlaceholder
<1>9. CASE CheckNotExists(r)
  BY <1>9, <1>a, <1>c, <1>d DEF CheckNotExists
<1>10. CASE OpenBlob(r)
  <2>1. /\ req[r].at = "open" /\ req[r].at \in AfterLookup \ {"unregister"}
        /\ UNCHANGED row
    BY <1>10 DEF OpenBlob, AfterLookup
  <2>2. PICK n \in 0 .. Size[s] :
          (IF blob[s] = NoBlob THEN << >> ELSE blob[s]) = Bytes(n)
    <3>1. CASE blob[s] = NoBlob
      <4>1. 0 \in 0 .. Size[s] /\ Bytes(0) = << >>
        BY <1>2, BytesOf
      <4> QED
        BY <3>1, <4>1
    <3>2. CASE blob[s] # NoBlob
      BY <3>2 DEF Prefix
    <3> QED
      BY <3>1, <3>2
  <2>3. n \in Nat /\ Len(Bytes(n)) = n
    BY <1>2, <1>3
  <2>4. \/ n < Start(i) /\ blob' = [blob EXCEPT ![s] = Bytes(n)] /\ Leave(r)
        \/ /\ ~(n < Start(i)) /\ Goto(r, "write")
           /\ blob' = [blob EXCEPT ![s] = Resize(Bytes(n), Start(i))]
    BY <1>1, <1>10, <2>2, <2>3 DEF OpenBlob
  <2>5. CASE n < Start(i) /\ blob' = [blob EXCEPT ![s] = Bytes(n)] /\ Leave(r)
    <3>1. blob'[s] = Bytes(n)
      BY <1>0, <2>5 DEF TypeOK
    <3> QED
      BY <1>a, <1>e, <1>f, <2>1, <2>5, <3>1
  <2>6. CASE /\ ~(n < Start(i)) /\ Goto(r, "write")
             /\ blob' = [blob EXCEPT ![s] = Resize(Bytes(n), Start(i))]
    <3>1. Start(i) <= n /\ Start(i) \in 0 .. Size[s]
      BY <1>2, <2>1, <2>3, <2>6
    <3>2. Resize(Bytes(n), Start(i)) = Bytes(Start(i))
      BY <1>2, <2>3, <3>1, BytesOf
    <3>3. blob'[s] = Bytes(Start(i))
      BY <1>0, <2>6, <3>2 DEF TypeOK
    <3>4. req'[r].at = "write" /\ req'[r].s = s /\ req'[r].i = i
      BY <1>b, <2>6
    <3>5. Written(r)'
      BY <3>3, <3>4, WrittenNext
    <3>6. Prefix(s)' /\ Whole(s)'
      BY <1>e, <1>f, <2>1, <3>1, <3>3
    <3> QED
      BY <3>5, <3>6
  <2> QED
    BY <2>4, <2>5, <2>6
<1>11. ASSUME NEW n \in Nat, Start(i) + n <= Size[s], AppendChunk(r, n), UNCHANGED row
       PROVE  /\ blob'[s] = Bytes(Start(i) + n)
              /\ Prefix(s)' /\ Whole(s)'
  <2>1. /\ req[r].at = "write" /\ req[r].at \in AfterLookup \ {"unregister"}
        /\ blob' = [blob EXCEPT ![s] = blob[s] \o Slice(Start(i), n)]
    BY <1>1, <1>11 DEF AppendChunk, RequestKnows, AfterLookup
  <2>2. blob'[s] = blob[s] \o Slice(Start(i), n)
    BY <1>0, <2>1 DEF TypeOK
  <2>3. blob'[s] = Bytes(Start(i) + n)
    BY <1>2, <1>4, <2>1, <2>2, BytesOf
  <2>4. Start(i) + n \in 0 .. Size[s]
    BY <1>2, <1>11
  <2> QED
    BY <1>e, <1>f, <1>11, <2>1, <2>3, <2>4
<1>12. CASE WriteChunk(r)
  <2>1. PICK n : n = ChunkLen(s, i)
    OBVIOUS
  <2>2. AppendChunk(r, n) /\ Goto(r, "charge") /\ UNCHANGED row
        /\ req[r].at \in AfterLookup
    BY <1>1, <1>12, <2>1 DEF WriteChunk, AppendChunk, AfterLookup
  <2>3. n \in Int /\ End(s, i) = Start(i) + n
    BY <2>1, ChunkArithmetic DEF End
  <2>4. n \in Nat /\ Start(i) + n <= Size[s]
    BY <1>2, <2>2, <2>3
  <2>5. blob'[s] = Bytes(End(s, i)) /\ Prefix(s)' /\ Whole(s)'
    BY <1>11, <2>2, <2>3, <2>4
  <2>6. req'[r].at = "charge" /\ req'[r].s = s /\ req'[r].i = i
    BY <1>b, <2>2
  <2>7. Written(r)'
    BY <2>5, <2>6, WrittenNext
  <2> QED
    BY <2>5, <2>7
<1>13. CASE WritePartOfChunk(r)
  <2>1. PICK n \in 0 .. ChunkLen(s, i) - 1 : AppendChunk(r, n)
    BY <1>1, <1>13 DEF WritePartOfChunk
  <2>2. req[r].at \in AfterLookup /\ UNCHANGED row /\ Leave(r)
    BY <1>13, <2>1 DEF WritePartOfChunk, AppendChunk, AfterLookup
  <2>3. ChunkLen(s, i) \in Int /\ End(s, i) = Start(i) + ChunkLen(s, i)
    BY ChunkArithmetic DEF End
  <2>4. n \in Nat /\ Start(i) + n <= Size[s]
    BY <1>2, <2>2, <2>3
  <2> QED
    BY <1>11, <1>a, <2>1, <2>2, <2>4
<1>14. CASE ChargeChunk(r)
  <2>1. /\ req[r].at = "charge" /\ req[r].at \in AfterLookup
        /\ UNCHANGED blob /\ Pending(s) /\ row[s].size = req[r].size
        /\ UpdateSize(s, req[r].size, End(s, i))
    BY <1>1, <1>5, <1>14 DEF ChargeChunk, AfterLookup, RequestKnows
  <2>2. ~Finished(s)'
    BY <1>0, <1>2, <2>1, UpdateSizeRow DEF Pending, Finished
  <2>3. blob'[s] = Bytes(End(s, i)) /\ End(s, i) \in 0 .. Size[s]
    BY <1>2, <1>4, <2>1
  <2>4. Prefix(s)' /\ Whole(s)'
    BY <1>e, <2>2, <2>3
  <2>5. CASE /\ IsLastChunk(s, i)
             /\ req' = [req EXCEPT ![r].at = "promote", ![r].size = End(s, i)]
    <3>1. PICK size : size = End(s, i) /\ GotoSized(r, "promote", size)
      BY <2>5 DEF GotoSized
    <3>2. /\ req'[r].at = "promote" /\ req'[r].s = s /\ req'[r].i = i
          /\ req'[r].size = size
      BY <1>0, <1>1, <3>1, MovedSized
    <3>3. End(s, i) = Size[s]
      <4>1. End(s, i) = Start(i) + (Size[s] - Start(i))
        BY <2>5 DEF End, ChunkLen
      <4> QED
        BY <1>2, <4>1
    <3>4. Written(r)'
      BY <2>3, <3>1, <3>2, <3>3, WrittenNext
    <3> QED
      BY <2>4, <3>4
  <2> QED
    BY <1>1, <1>14, <1>a, <2>4, <2>5 DEF ChargeChunk
<1>15. CASE ChargeChunkFails(r)
  <2>1. PICK known : GotoSized(r, "truncate", known)
    BY <1>15 DEF ChargeChunkFails, GotoSized
  <2>2. req'[r].at = "truncate" /\ req'[r].s = s /\ req'[r].i = i
    BY <1>0, <1>1, <2>1, MovedSized
  <2>3. UNCHANGED <<row, blob>> /\ req[r].at = "charge" /\ req[r].at \in AfterLookup
    BY <1>15 DEF ChargeChunkFails, AfterLookup
  <2>4. PICK n \in 0 .. Size[s] : n >= Start(i) /\ blob'[s] = Bytes(n)
    BY <1>2, <1>4, <2>3
  <2>5. Written(r)'
    BY <2>2, <2>4, WrittenNext
  <2> QED
    BY <1>d, <2>3, <2>5
<1>16. CASE PromotePlaceholder(r)
  <2>1. /\ req[r].at = "promote" /\ Pending(s) /\ row[s].size = req[r].size
        /\ row' = [row EXCEPT ![s].pending = FALSE] /\ Goto(r, "unregister")
        /\ UNCHANGED blob
    BY <1>16, <1>5 DEF PromotePlaceholder, AfterLookup, RequestKnows, Pending
  <2>2. row'[s].size = Size[s]
    <3> DEFINE v == [row[s] EXCEPT !.pending = FALSE]
    <3>1. row[s] \in Row /\ row \in [Session -> Row \cup {NoRow}]
      BY <1>0, <2>1 DEF TypeOK, Pending, Exists
    <3>2. v.size = row[s].size
      BY <3>1 DEF Row
    <3>3. row' = [row EXCEPT ![s] = v]
      BY <2>1
    <3> HIDE DEF v
    <3> QED
      BY <1>4, <2>1, <3>1, <3>2, <3>3
  <2>3. blob'[s] = Bytes(Size[s]) /\ Content(s) = Bytes(Size[s]) /\ blob'[s] # NoBlob
    BY <1>2, <1>3, <1>4, <2>1 DEF Content, Bytes
  <2>4. Whole(s)'
    BY <2>2, <2>3 DEF Whole, Content
  <2>5. Prefix(s)'
    BY <2>1 DEF Prefix, Bytes
  <2> QED
    BY <1>c, <2>1, <2>4, <2>5
<1>17. CASE PromotePlaceholderFails(r)
  <2>1. /\ UNCHANGED <<row, blob>> /\ req[r].at = "promote" /\ Goto(r, "truncate")
        /\ req[r].at \in AfterLookup
    BY <1>17 DEF PromotePlaceholderFails, AfterLookup
  <2>2. req'[r].at = "truncate" /\ req'[r].s = s /\ req'[r].i = i
    BY <1>b, <2>1
  <2>3. PICK n \in 0 .. Size[s] : n >= Start(i) /\ blob'[s] = Bytes(n)
    BY <1>2, <1>4, <2>1
  <2>4. Written(r)'
    BY <2>2, <2>3, WrittenNext
  <2> QED
    BY <1>d, <2>1, <2>4
<1>18. CASE TruncateChunk(r)
  <2>1. /\ req[r].at = "truncate" /\ req[r].at \in AfterLookup \ {"unregister"}
        /\ UNCHANGED row
    BY <1>18 DEF TruncateChunk, AfterLookup
  <2>2. PICK n \in 0 .. Size[s] : n >= Start(i) /\ blob[s] = Bytes(n)
    BY <1>4, <2>1
  <2>3. n \in Nat /\ Start(i) <= n /\ blob[s] # NoBlob /\ Start(i) \in 0 .. Size[s]
    BY <1>2, <1>3, <2>1, <2>2
  <2>4. /\ blob' = [blob EXCEPT ![s] = Resize(blob[s], Start(i))]
        /\ Goto(r, "refund")
    BY <1>1, <1>18, <2>3 DEF TruncateChunk
  <2>5. blob'[s] = Bytes(Start(i))
    BY <1>0, <1>2, <2>2, <2>3, <2>4, BytesOf DEF TypeOK
  <2> QED
    BY <1>c, <1>e, <1>f, <2>1, <2>3, <2>4, <2>5
<1>19. CASE RefundChunk(r)
  <2>1. /\ Pending(s) /\ UNCHANGED blob /\ Leave(r)
        /\ UpdateSize(s, req[r].size, Start(i))
    BY <1>1, <1>5, <1>19 DEF RefundChunk, AfterLookup
  <2>2. ~Finished(s)'
    BY <1>0, <1>2, <2>1, UpdateSizeRow DEF Pending, Finished
  <2>3. Prefix(s)' /\ Whole(s)'
    BY <2>1, <2>2 DEF Prefix, Whole, Bytes
  <2> QED
    BY <1>a, <2>1, <2>3
<1> QED
  BY <1>6, <1>7, <1>8, <1>9, <1>10, <1>12, <1>13, <1>14, <1>15, <1>16, <1>17, <1>18,
     <1>19 DEF RequestStep

(* Who does not work on a session leaves what is known of it alone. *)
LEMMA IntactElsewhere ==
    ASSUME NEW s \in Session, row'[s] = row[s], blob'[s] = blob[s],
           asked \subseteq asked', Prefix(s), Whole(s)
    PROVE  Prefix(s)' /\ Whole(s)'
BY DEF Prefix, Whole, Finished, Exists, Bytes, Content

(* What a request stands for is changed by those who touch its file only. *)
LEMMA WrittenElsewhere ==
    ASSUME TypeOK, NEW r \in Request, Written(r), req'[r] = req[r],
           ReqIdle(r) \/ blob'[req[r].s] = blob[req[r].s]
    PROVE  Written(r)'
<1>1. CASE ReqIdle(r)
  BY <1>1 DEF Written, ReqIdle
<1>2. CASE blob'[req[r].s] = blob[req[r].s]
  BY <1>2 DEF Written, Bytes, Start, End, ChunkLen, IsLastChunk
<1> QED
  BY <1>1, <1>2

(* What a step of a deletion may touch: it holds ever fewer sessions, and   *)
(* only of those it removes files and, when it lets them all go, rows.      *)
Removes(d) ==
    /\ Held(d)' \subseteq Held(d) /\ \A e \in Agents \ {d} : Held(e)' = Held(e)
    /\ \A t \in Session \ Held(d) : row'[t] = row[t] /\ blob'[t] = blob[t]
    /\ \A t \in Held(d) : /\ row'[t] = row[t] \/ row'[t] = NoRow
                          /\ blob'[t] = blob[t] \/ blob'[t] = NoBlob
    /\ UNCHANGED row \/ Held(d)' = {}
    /\ UNCHANGED <<req, hangups, asked>>
    /\ budget' = budget \/ Spend("cuts") \/ Spend("txFails")

(* Each step of a deletion touches no more. *)
LEMMA DeleteStepRemoves ==
    ASSUME TypeInv, Serial, NEW d \in Agents, DeleteStep(d)
    PROVE  Removes(d)
<1>0. TypeOK /\ del[d] # Idle
  BY DEF TypeInv, DeleteStep, ListFiles, CancelSessions, EraseRows, EraseRowsFails,
         UnlinkBlob, UnlinkBlobFails
<1>1. Alone /\ Held(d) = del[d].todo \cup del[d].found /\ Held(d) \subseteq Session
  BY <1>0, WorkingDeleter DEF Serial, Held
<1>2. budget' = budget \/ Spend("cuts") \/ Spend("txFails")
  BY DEF DeleteStep, ListFiles, CancelSessions, EraseRows, EraseRowsFails,
         UnlinkBlob, UnlinkBlobFails
<1>3. ASSUME NEW v, del' = [del EXCEPT ![d] = v], Held(d)' \subseteq Held(d),
             UNCHANGED <<req, hangups, asked>>,
             \A t \in Session \ Held(d) : row'[t] = row[t] /\ blob'[t] = blob[t],
             \A t \in Held(d) :
               blob'[t] = blob[t] \/ blob'[t] = NoBlob,
             UNCHANGED row \/ Held(d)' = {},
             \A t \in Held(d) : row'[t] = row[t] \/ row'[t] = NoRow
      PROVE  Removes(d)
  BY <1>0, <1>2, <1>3, DeleterMoves DEF Removes
<1>4. CASE ListFiles(d)
  <2> DEFINE found == {s \in del[d].found : Exists(s)}
             v == [at |-> "cancel", todo |-> {s \in found : Pending(s)},
                   found |-> found,
                   sizes |-> [s \in Session |-> IF s \in found THEN row[s].size
                                                ELSE 0]]
  <2>1. v.todo \subseteq v.found /\ v.found \subseteq Held(d)
    BY <1>1
  <2>2. del' = [del EXCEPT ![d] = v]
    BY <1>4 DEF ListFiles
  <2> HIDE DEF v, found
  <2>3. Held(d)' \subseteq Held(d)
    BY <1>0, <2>1, <2>2, DeleterMoves
  <2>4. UNCHANGED <<row, blob, req, hangups, asked>>
    BY <1>4 DEF ListFiles
  <2> QED
    BY <1>3, <2>2, <2>3, <2>4
<1>5. CASE CancelSessions(d)
  <2> DEFINE v == [del[d] EXCEPT !.at = "unlink", !.todo = del[d].found]
  <2>1. v.todo = del[d].found /\ v.found = del[d].found
    BY <1>0, DeleterFields
  <2>2. del' = [del EXCEPT ![d] = v]
    BY <1>5 DEF CancelSessions
  <2> HIDE DEF v
  <2>3. Held(d)' \subseteq Held(d)
    BY <1>0, <1>1, <2>1, <2>2, DeleterMoves
  <2>4. UNCHANGED <<row, blob, req, hangups, asked>>
    BY <1>5 DEF CancelSessions
  <2> QED
    BY <1>3, <2>2, <2>3, <2>4
<1>6. ASSUME NEW s \in Session, UnlinkBlob(d, s) PROVE Removes(d)
  <2> DEFINE v == [del[d] EXCEPT !.todo = del[d].todo \ {s}]
  <2>1. v.todo = del[d].todo \ {s} /\ v.found = del[d].found
    BY <1>0, DeleterFields
  <2>2. /\ del' = [del EXCEPT ![d] = v] /\ s \in Held(d)
        /\ UNCHANGED <<row, hangups, asked>>
        /\ blob' = [blob EXCEPT ![s] = NoBlob]
    BY <1>1, <1>6 DEF UnlinkBlob
  <2> HIDE DEF v
  <2>3. Held(d)' \subseteq Held(d)
    BY <1>0, <1>1, <2>1, <2>2, DeleterMoves
  <2>4. UNCHANGED req
    <3>1. req \in [Request -> Working(Stages) \cup {Quiet}]
      BY <1>0 DEF TypeOK, Stages
    <3>2. \A r \in Request : ~(req[r].at = "write" /\ req[r].s = s)
      BY <1>1, <2>2 DEF Alone, ReqIdle
    <3>3. req' = [r \in Request |-> req[r]]
      BY <1>6, <3>2 DEF UnlinkBlob
    <3> QED
      BY <3>1, <3>3
  <2>5. blob'[s] = NoBlob /\ \A t \in Session \ {s} : blob'[t] = blob[t]
    BY <1>0, <2>2 DEF TypeOK
  <2>6. /\ \A t \in Session \ Held(d) : row'[t] = row[t] /\ blob'[t] = blob[t]
        /\ \A t \in Held(d) : blob'[t] = blob[t] \/ blob'[t] = NoBlob
    BY <1>1, <2>2, <2>5
  <2> QED
    BY <1>3, <2>2, <2>3, <2>4, <2>6
<1>7. ASSUME NEW s \in Session, UnlinkBlobFails(d, s) PROVE Removes(d)
  <2> DEFINE v == [del[d] EXCEPT !.todo = del[d].todo \ {s},
                                 !.found = del[d].found \ {s}]
  <2>1. v.todo = del[d].todo \ {s} /\ v.found = del[d].found \ {s}
    BY <1>0, DeleterFields
  <2>2. /\ del' = [del EXCEPT ![d] = v]
        /\ UNCHANGED <<row, blob, req, hangups, asked>>
    BY <1>7 DEF UnlinkBlobFails
  <2> HIDE DEF v
  <2>3. Held(d)' \subseteq Held(d)
    BY <1>0, <1>1, <2>1, <2>2, DeleterMoves
  <2> QED
    BY <1>3, <2>2, <2>3
<1>8. CASE EraseRows(d) \/ EraseRowsFails(d)
  <2>1. /\ del' = [del EXCEPT ![d] = Idle]
        /\ UNCHANGED <<blob, req, hangups, asked>>
        /\ UNCHANGED row \/ row' = Removed(del[d].found)
    BY <1>8 DEF EraseRows, EraseRowsFails
  <2>2. Held(d)' = {}
    BY <1>0, <2>1, DeleterMoves DEF Held
  <2>3. \A t \in Session : \/ row'[t] = row[t]
                           \/ t \in Held(d) /\ row'[t] = NoRow
    BY <1>1, <2>1 DEF Removed
  <2>4. /\ \A t \in Session \ Held(d) : row'[t] = row[t] /\ blob'[t] = blob[t]
        /\ \A t \in Held(d) : row'[t] = row[t] \/ row'[t] = NoRow
    BY <1>1, <2>1, <2>3
  <2> QED
    BY <1>3, <2>1, <2>2, <2>4
<1> QED
  BY <1>4, <1>5, <1>6, <1>7, <1>8 DEF DeleteStep

(* The faults a request meets are bodies cut short and transactions that    *)
(* fail.                                                                    *)
LEMMA RequestStepSpends ==
    ASSUME NEW r \in Request, RequestStep(r)
    PROVE  budget' = budget \/ Spend("cuts") \/ Spend("txFails")
BY DEF RequestStep, InsertPlaceholder, InsertPlaceholderFails, RegisterSession,
       LookupPlaceholder, CheckNotExists, OpenBlob, WriteChunk, WritePartOfChunk,
       ChargeChunk, ChargeChunkFails, PromotePlaceholder, PromotePlaceholderFails,
       UnregisterSession, TruncateChunk, RefundChunk, RefundChunkFails

(* The cron job takes up placeholders, and nothing else.                    *)
LEMMA CollectStepHolds ==
    ASSUME TypeInv, CollectStep
    PROVE  /\ UNCHANGED <<row, blob, req, hangups, asked, budget>>
           /\ \A e \in Agents \ {Cron} : Held(e)' = Held(e)
           /\ \A t \in Held(Cron)' : t \in Held(Cron) \/ Pending(t)
<1>0. TypeOK /\ Cron \in Agents
  BY DEF TypeInv, Agents
<1>1. UNCHANGED <<row, blob, req, hangups, asked, budget>>
  BY DEF CollectStep, ListPlaceholders, CollectExpired, SiftPlaceholder
<1> DEFINE Others == \A e \in Agents \ {Cron} : Held(e)' = Held(e)
           Own == \A t \in Held(Cron)' : t \in Held(Cron) \/ Pending(t)
           Holds == Others /\ Own
<1>2. ASSUME NEW v, del' = [del EXCEPT ![Cron] = v] PROVE Others
  BY <1>0, <1>2, DeleterMoves
<1> HIDE DEF Others
<1>3. ASSUME ListPlaceholders PROVE Holds
  <2> DEFINE v == [at |-> "sift", todo |-> {s \in Session : Pending(s)},
                   found |-> {}, sizes |-> NoSizes]
  <2>1. /\ v.todo = {s \in Session : Pending(s)} /\ v.found = {}
        /\ del' = [del EXCEPT ![Cron] = v]
    BY <1>3 DEF ListPlaceholders
  <2> HIDE DEF v
  <2>2. \A t \in Held(Cron)' : Pending(t)
    BY <1>0, <2>1, DeleterMoves
  <2>3. Others
    BY <1>2, <2>1
  <2> QED
    BY <2>2, <2>3
<1>4. ASSUME NEW s \in Session, SiftPlaceholder(s) PROVE Holds
  <2> DEFINE found == IF s \in cached THEN del[Cron].found
                                      ELSE del[Cron].found \cup {s}
             v == [del[Cron] EXCEPT !.todo = del[Cron].todo \ {s},
                                    !.found = found]
  <2>1. v.todo = del[Cron].todo \ {s} /\ v.found = found
    BY <1>0, <1>4, DeleterFields DEF SiftPlaceholder
  <2>2. /\ del' = [del EXCEPT ![Cron] = v] /\ del[Cron] # Idle
        /\ s \in del[Cron].todo
    BY <1>4 DEF SiftPlaceholder
  <2>3. found \subseteq del[Cron].found \cup {s}
    OBVIOUS
  <2> HIDE DEF v, found
  <2>4. Held(Cron)' \subseteq v.todo \cup v.found
    BY <1>0, <2>2, DeleterMoves
  <2>5. Held(Cron)' \subseteq Held(Cron)
    BY <2>1, <2>2, <2>3, <2>4 DEF Held
  <2>6. Others
    BY <1>2, <2>2
  <2> QED
    BY <2>5, <2>6
<1>5. ASSUME CollectExpired PROVE Holds
  <2>1. CASE del' = [del EXCEPT ![Cron] = Idle]
    <3>1. Held(Cron)' = {}
      BY <1>0, <2>1, DeleterMoves DEF Held
    <3>2. Others
      BY <1>2, <2>1
    <3> QED
      BY <3>1, <3>2
  <2>2. CASE del' = [del EXCEPT ![Cron].at = "list"]
    <3> DEFINE v == [del[Cron] EXCEPT !.at = "list"]
    <3>1. v.todo = del[Cron].todo /\ v.found = del[Cron].found
      BY <1>0, <1>5, DeleterFields DEF CollectExpired
    <3>2. del' = [del EXCEPT ![Cron] = v] /\ del[Cron] # Idle
      BY <1>5, <2>2 DEF CollectExpired
    <3> HIDE DEF v
    <3>3. Held(Cron)' \subseteq v.todo \cup v.found
      BY <1>0, <3>2, DeleterMoves
    <3>4. Held(Cron)' \subseteq Held(Cron)
      BY <3>1, <3>2, <3>3 DEF Held
    <3>5. Others
      BY <1>2, <3>2
    <3> QED
      BY <3>4, <3>5
  <2> QED
    BY <1>5, <2>1, <2>2 DEF CollectExpired
<1> QED
  BY <1>1, <1>3, <1>4, <1>5 DEF CollectStep, Holds, Others

AllAsked == \A d \in Agents : Asked(d)

(* What a deletion or the cron job holds stays asked for, or a placeholder. *)
LEMMA AskedNext ==
    ASSUME TypeInv, Serial, AllAsked, [Next]_vars
    PROVE  AllAsked'
<1>0. /\ TypeOK /\ Alone
      /\ \A e \in Agents : Asked(e) /\ Held(e) \subseteq Session
  BY WorkingDeleter DEF TypeInv, Serial, AllAsked, Held
<1>1. ASSUME NEW e \in Agents, asked \subseteq asked',
             \A t \in Held(e)' : t \in Held(e) /\ row'[t] = row[t]
      PROVE  Asked(e)'
  BY <1>0, <1>1 DEF Asked, Pending, Exists
<1>2. ASSUME UNCHANGED <<row, asked, del>> PROVE AllAsked'
  <2>1. \A e \in Agents : Held(e)' = Held(e)
    BY <1>2 DEF Held
  <2> QED
    BY <1>1, <1>2, <2>1 DEF AllAsked
<1>3. ASSUME NEW r \in Request, RequestStep(r) PROVE AllAsked'
  <2>1. PICK s \in Session : s = req[r].s
    BY <1>3, StepTouches
  <2>2. ~ReqIdle(r) /\ TouchesRow(s) /\ UNCHANGED <<del, asked>>
    BY <1>3, <2>1, StepTouches DEF Touches
  <2>3. ASSUME NEW e \in Agents PROVE Asked(e)'
    <3>1. Held(e)' = Held(e) /\ s \notin Held(e) /\ Held(e) \subseteq Session
      BY <1>0, <2>1, <2>2 DEF Held, Alone
    <3> QED
      BY <1>1, <2>2, <3>1 DEF TouchesRow
  <2> QED
    BY <2>3 DEF AllAsked
<1>4. ASSUME NEW d \in Agents, DeleteStep(d) PROVE AllAsked'
  <2>1. Removes(d)
    BY <1>4, DeleteStepRemoves
  <2>2. Asked(d)'
    BY <1>1, <2>1 DEF Removes
  <2>3. ASSUME NEW e \in Agents \ {d} PROVE Asked(e)'
    <3>1. Held(e)' = Held(e) /\ \A t \in Held(e) : t \in Session \ Held(d)
      BY <1>0, <2>1 DEF Removes, Alone
    <3> QED
      BY <1>1, <2>1, <3>1 DEF Removes
  <2> QED
    BY <2>2, <2>3 DEF AllAsked
<1>5. ASSUME NEW d \in Deleter, NEW S \in SUBSET Session \ {{}}, BeginDelete(d, S)
      PROVE  AllAsked'
  <2> DEFINE v == [at |-> "list", todo |-> {}, found |-> S, sizes |-> NoSizes]
  <2>1. v.todo = {} /\ v.found = S /\ del' = [del EXCEPT ![d] = v]
    BY <1>5 DEF BeginDelete
  <2> HIDE DEF v
  <2>2. row' = row /\ asked' = asked \cup S /\ d \in Agents /\ d # Cron
    BY <1>5, AgentsAssumption DEF BeginDelete, Agents
  <2>3. Held(d)' \subseteq S /\ \A e \in Agents \ {d} : Held(e)' = Held(e)
    BY <1>0, <2>1, <2>2, DeleterMoves
  <2>4. Asked(d)'
    BY <2>2, <2>3 DEF Asked
  <2>5. \A e \in Agents \ {d} : Asked(e)'
    BY <1>1, <2>2, <2>3
  <2> QED
    BY <2>4, <2>5 DEF AllAsked
<1>6. CASE CollectStep
  <2>1. /\ UNCHANGED <<row, asked>> /\ Cron \in Agents
        /\ \A e \in Agents \ {Cron} : Held(e)' = Held(e)
        /\ \A t \in Held(Cron)' : t \in Held(Cron) \/ Pending(t)
    BY <1>6, CollectStepHolds DEF Agents
  <2>2. Asked(Cron)'
    BY <1>0, <2>1, AgentsAssumption DEF Asked, Pending, Exists
  <2>3. \A e \in Agents \ {Cron} : Asked(e)'
    BY <1>1, <2>1
  <2> QED
    BY <2>2, <2>3 DEF AllAsked
<1>7. CASE Restart
  BY <1>7 DEF Restart, AllAsked, Asked, Held
<1>8. CASE \/ \E r \in Request, s \in Session : BeginCreate(r, s)
           \/ \E r \in Request, s \in Session, i \in 0 .. MaxIndex : BeginChunk(r, s, i)
           \/ \E r \in Request : HangUp(r)
           \/ \E h \in hangups : TruncateCanceled(h)
           \/ \E s \in Session : Expire(s)
           \/ UNCHANGED vars
  BY <1>2, <1>8 DEF BeginCreate, BeginChunk, HangUp, TruncateCanceled, Expire, vars
<1> QED
  BY <1>3, <1>4, <1>5, <1>6, <1>7, <1>8 DEF Next

(* A step that loses a finished file loses one the user asked to delete.    *)
LEMMA KeepsFinished ==
    ASSUME TypeInv, Serial, AllAsked, [Next]_vars, NEW s \in Session, Finished(s)
    PROVE  row'[s] = NoRow => s \in asked
<1>1. ASSUME NEW r \in Request, RequestStep(r) PROVE row'[s] # NoRow
  <2>1. PICK t \in Session : t = req[r].s
    BY <1>1, StepTouches
  <2>2. TouchesRow(t)
    BY <1>1, <2>1, StepTouches DEF Touches
  <2> QED
    BY <2>2 DEF TouchesRow, Finished, Exists
<1>2. ASSUME NEW d \in Agents, DeleteStep(d), row'[s] = NoRow PROVE s \in asked
  <2>1. s \in Held(d)
    BY <1>2, DeleteStepRemoves DEF Removes, Finished, Exists
  <2> QED
    BY <2>1 DEF AllAsked, Asked, Agents, Finished, Pending
<1>3. UNCHANGED row => row'[s] # NoRow
  BY DEF Finished, Exists
<1>4. CASE CollectStep \/ Restart
  BY <1>3, <1>4 DEF CollectStep, ListPlaceholders, CollectExpired, SiftPlaceholder,
                    Restart
<1>5. CASE \/ \E r \in Request, t \in Session : BeginCreate(r, t)
           \/ \E r \in Request, t \in Session, i \in 0 .. MaxIndex : BeginChunk(r, t, i)
           \/ \E r \in Request : HangUp(r)
           \/ \E h \in hangups : TruncateCanceled(h)
           \/ \E d \in Deleter, S \in SUBSET Session \ {{}} : BeginDelete(d, S)
           \/ \E t \in Session : Expire(t)
           \/ UNCHANGED vars
  BY <1>3, <1>5 DEF BeginCreate, BeginChunk, HangUp, TruncateCanceled, BeginDelete,
                    Expire, vars
<1> QED
  BY <1>1, <1>2, <1>4, <1>5 DEF Next

(* The steps of a request. *)
LEMMA IntactRequestStep ==
    ASSUME TypeInv, Serial, Intact, NEW r \in Request, RequestStep(r)
    PROVE  Intact'
<1>1. PICK s \in Session : s = req[r].s
  BY StepTouches
<1>2. ~ReqIdle(r) /\ Touches(r, s)
  BY <1>1, StepTouches
<1>3. /\ StaysWith(r, s) /\ TouchesRow(s) /\ TouchesBlob(r, s)
      /\ UNCHANGED <<hangups, asked>>
  BY <1>2 DEF Touches
<1>4. /\ NoHangup /\ \A t \in Session : Prefix(t) /\ Whole(t)
      /\ \A q \in Request : Written(q) /\ RequestKnows(q)
      /\ Alone /\ TypeOK
  BY DEF Intact, Serial, TypeInv
<1>5. Prefix(s)' /\ Whole(s)' /\ Written(r)'
  BY <1>1, <1>4, IntactOwn
<1>6. ASSUME NEW t \in Session \ {s} PROVE Prefix(t)' /\ Whole(t)'
  BY <1>3, <1>4, <1>6, IntactElsewhere DEF TouchesRow, TouchesBlob
<1>7. ASSUME NEW q \in Request \ {r} PROVE Written(q)'
  <2>1. req'[q] = req[q]
    BY <1>3 DEF StaysWith
  <2>2. ReqIdle(q) \/ req[q].s \in Session \ {s}
    BY <1>1, <1>2, <1>4, WorkingRequest DEF Alone
  <2>3. ReqIdle(q) \/ blob'[req[q].s] = blob[req[q].s]
    BY <1>3, <2>2 DEF TouchesBlob
  <2> QED
    BY <1>4, <2>1, <2>3, WrittenElsewhere
<1>8. NoHangup'
  <2>1. budget \in [{"cuts", "txFails", "cancels", "restarts"} -> Nat]
    BY <1>4 DEF TypeOK
  <2> QED
    BY <1>3, <1>4, <2>1, RequestStepSpends DEF NoHangup, Spend
<1> QED
  BY <1>5, <1>6, <1>7, <1>8 DEF Intact

(* The steps of a deletion: of its sessions it removes files and rows.      *)
LEMMA IntactDeleteStep ==
    ASSUME TypeInv, Serial, AllAsked, Intact, NEW d \in Agents, DeleteStep(d)
    PROVE  Intact'
<1>1. /\ NoHangup /\ \A t \in Session : Prefix(t) /\ Whole(t)
      /\ \A q \in Request : Written(q)
      /\ Asked(d) /\ Alone /\ TypeOK /\ Removes(d)
  BY DeleteStepRemoves DEF Intact, Serial, TypeInv, AllAsked
<1>2. ASSUME NEW t \in Session PROVE Prefix(t)' /\ Whole(t)'
  <2>1. CASE t \notin Held(d)
    BY <1>1, <2>1, IntactElsewhere DEF Removes
  <2>2. CASE t \in Held(d)
    <3>1. Finished(t) => t \in asked
      BY <1>1, <2>2 DEF Asked, Agents, Finished, Pending
    <3>2. /\ row'[t] = row[t] \/ row'[t] = NoRow
          /\ blob'[t] = blob[t] \/ blob'[t] = NoBlob
          /\ asked' = asked
      BY <1>1, <2>2 DEF Removes
    <3>3. CASE blob'[t] = blob[t] /\ row'[t] = row[t]
      BY <1>1, <3>2, <3>3, IntactElsewhere
    <3>4. CASE row'[t] = NoRow
      BY <1>1, <3>2, <3>4 DEF Prefix, Whole, Finished, Exists, Bytes
    <3>5. CASE row'[t] = row[t] /\ blob'[t] = NoBlob
      BY <1>1, <3>1, <3>2, <3>5 DEF Prefix, Whole, Finished, Exists
    <3> QED
      BY <3>2, <3>3, <3>4, <3>5
  <2> QED
    BY <2>1, <2>2
<1>3. ASSUME NEW q \in Request PROVE Written(q)'
  <2>1. ReqIdle(q) \/ req[q].s \in Session \ Held(d)
    BY <1>1, WorkingRequest DEF Alone
  <2>2. ReqIdle(q) \/ blob'[req[q].s] = blob[req[q].s]
    BY <1>1, <2>1 DEF Removes
  <2>3. req' = req
    BY <1>1 DEF Removes
  <2> QED
    BY <1>1, <2>2, <2>3, WrittenElsewhere
<1>4. NoHangup'
  <2>1. budget \in [{"cuts", "txFails", "cancels", "restarts"} -> Nat]
    BY <1>1 DEF TypeOK
  <2> QED
    BY <1>1, <2>1 DEF Removes, NoHangup, Spend
<1> QED
  BY <1>2, <1>3, <1>4 DEF Intact

(* Every step keeps the bytes of the files. *)
LEMMA IntactNext ==
    ASSUME TypeInv, Serial, AllAsked, Intact, [Next]_vars
    PROVE  Intact'
<1>0. /\ TypeOK /\ NoHangup /\ \A t \in Session : Prefix(t) /\ Whole(t)
      /\ \A q \in Request : Written(q)
      /\ budget \in [{"cuts", "txFails", "cancels", "restarts"} -> Nat]
      /\ req \in [Request -> Working(Stages) \cup {Quiet}]
  BY DEF TypeInv, TypeOK, Stages, Intact
<1>a. ASSUME UNCHANGED <<row, blob>>, asked \subseteq asked', NoHangup',
             \A q \in Request : Written(q)'
      PROVE  Intact'
  BY <1>0, <1>a, IntactElsewhere DEF Intact
<1>b. ASSUME UNCHANGED <<blob, req>> PROVE \A q \in Request : Written(q)'
  BY <1>0, <1>b, WrittenElsewhere
<1>c. UNCHANGED <<hangups, budget>> => NoHangup'
  BY <1>0 DEF NoHangup
<1>d. ASSUME NEW r \in Request, NEW v, req' = [req EXCEPT ![r] = v],
             v.at = "insert" \/ v.at = "lookup", UNCHANGED blob
      PROVE  \A q \in Request : Written(q)'
  <2>1. req'[r] = v /\ \A q \in Request \ {r} : req'[q] = req[q]
    BY <1>0, <1>d
  <2>2. Written(r)'
    BY <1>d, <2>1 DEF Written
  <2>3. \A q \in Request \ {r} : Written(q)'
    BY <1>0, <1>d, <2>1, WrittenElsewhere
  <2> QED
    BY <2>2, <2>3
<1>1. ASSUME NEW r \in Request, NEW s \in Session, BeginCreate(r, s) PROVE Intact'
  <2> DEFINE v == [at |-> "insert", s |-> s, i |-> 0, size |-> 0]
  <2>1. v.at = "insert" /\ req' = [req EXCEPT ![r] = v]
    BY <1>1 DEF BeginCreate
  <2> HIDE DEF v
  <2>2. UNCHANGED <<row, blob, asked, hangups, budget>>
    BY <1>1 DEF BeginCreate
  <2> QED
    BY <1>a, <1>c, <1>d, <2>1, <2>2
<1>2. ASSUME NEW r \in Request, NEW s \in Session, NEW i \in 0 .. MaxIndex,
             BeginChunk(r, s, i)
      PROVE  Intact'
  <2> DEFINE v == [at |-> "lookup", s |-> s, i |-> i, size |-> 0]
  <2>1. v.at = "lookup" /\ req' = [req EXCEPT ![r] = v]
    BY <1>2 DEF BeginChunk
  <2> HIDE DEF v
  <2>2. UNCHANGED <<row, blob, asked, hangups, budget>>
    BY <1>2 DEF BeginChunk
  <2> QED
    BY <1>a, <1>c, <1>d, <2>1, <2>2
<1>3. ASSUME NEW r \in Request, RequestStep(r) PROVE Intact'
  BY <1>3, IntactRequestStep
<1>4. ~(\E r \in Request : HangUp(r))
  <2>1. ~(0 > 0)
    OBVIOUS
  <2> QED
    BY <1>0, <2>1 DEF HangUp, Spend, NoHangup
<1>5. ~(\E h \in hangups : TruncateCanceled(h))
  BY <1>0 DEF NoHangup
<1>6. ASSUME NEW d \in Agents, DeleteStep(d) PROVE Intact'
  BY <1>6, IntactDeleteStep
<1>7. CASE \/ \E d \in Deleter, S \in SUBSET Session \ {{}} : BeginDelete(d, S)
           \/ CollectStep
           \/ \E s \in Session : Expire(s)
           \/ UNCHANGED vars
  <2>1. UNCHANGED <<row, blob, req, hangups, budget>> /\ asked \subseteq asked'
    BY <1>7 DEF BeginDelete, CollectStep, ListPlaceholders, CollectExpired,
                SiftPlaceholder, Expire, vars
  <2> QED
    BY <1>a, <1>b, <1>c, <2>1
<1>8. CASE Restart
  <2>1. /\ \A q \in Request : req'[q].at = "idle"
        /\ hangups' = {} /\ UNCHANGED <<row, blob, asked>>
    BY <1>8 DEF Restart, Quiet
  <2>2. \A q \in Request : Written(q)'
    BY <2>1 DEF Written
  <2>3. NoHangup'
    BY <1>0, <1>8, <2>1 DEF Restart, NoHangup, Spend
  <2> QED
    BY <1>a, <2>1, <2>2, <2>3
<1> QED
  BY <1>1, <1>2, <1>3, <1>4, <1>5, <1>6, <1>7, <1>8 DEF Next

(* No step changes the bytes of a finished file, though it may remove them. *)
LEMMA SparesFinished ==
    ASSUME TypeInv, Serial, NoHangup, [Next]_vars, NEW s \in Session, Finished(s)
    PROVE  blob'[s] = NoBlob \/ blob'[s] = blob[s]
<1>1. ASSUME NEW r \in Request, RequestStep(r) PROVE blob'[s] = blob[s]
  <2>1. PICK t \in Session : t = req[r].s
    BY <1>1, StepTouches
  <2>2. TouchesBlob(r, t)
    BY <1>1, <2>1, StepTouches DEF Touches
  <2>3. CASE t # s
    BY <2>2, <2>3 DEF TouchesBlob
  <2>4. CASE t = s
    <3>1. req[r].at \notin AfterLookup \ {"unregister"}
      BY <2>1, <2>4 DEF Serial, RequestKnows, Finished, Pending
    <3>2. UNCHANGED blob
      BY <1>1, <3>1 DEF RequestStep, InsertPlaceholder, InsertPlaceholderFails,
         RegisterSession, LookupPlaceholder, CheckNotExists, OpenBlob, WriteChunk,
         WritePartOfChunk, AppendChunk, ChargeChunk, ChargeChunkFails,
         PromotePlaceholder, PromotePlaceholderFails, UnregisterSession,
         TruncateChunk, RefundChunk, RefundChunkFails, AfterLookup
    <3> QED
      BY <3>2
  <2> QED
    BY <2>3, <2>4
<1>2. ASSUME NEW d \in Agents, DeleteStep(d)
      PROVE  blob'[s] = NoBlob \/ blob'[s] = blob[s]
  BY <1>2, DeleteStepRemoves DEF Removes
<1>3. ~(\E h \in hangups : TruncateCanceled(h))
  BY DEF NoHangup
<1>4. CASE \/ \E r \in Request, t \in Session : BeginCreate(r, t)
           \/ \E r \in Request, t \in Session, i \in 0 .. MaxIndex : BeginChunk(r, t, i)
           \/ \E r \in Request : HangUp(r)
           \/ \E d \in Deleter, S \in SUBSET Session \ {{}} : BeginDelete(d, S)
           \/ CollectStep \/ Restart
           \/ \E t \in Session : Expire(t)
           \/ UNCHANGED vars
  BY <1>4 DEF BeginCreate, BeginChunk, HangUp, BeginDelete, CollectStep,
              ListPlaceholders, CollectExpired, SiftPlaceholder, Restart, Expire, vars
<1> QED
  BY <1>1, <1>2, <1>3, <1>4 DEF Next

(* At the start there are no deletions and no files. *)
LEMMA AskedInit == Init => AllAsked
BY DEF Init, AllAsked, Asked, Held

(* At the start nothing is stored and nobody has hung up. *)
LEMMA IntactInit == Init /\ MaxCancels = 0 => Intact
<1> SUFFICES ASSUME Init, MaxCancels = 0 PROVE Intact
  OBVIOUS
<1>1. /\ \A q \in Request : req[q].at = "idle"
      /\ \A s \in Session : ~Exists(s) /\ blob[s] = NoBlob
      /\ hangups = {} /\ budget["cancels"] = 0
  BY DEF Init, Quiet, Exists
<1> QED
  BY <1>1 DEF Intact, NoHangup, Prefix, Whole, Finished, Written

(* While sessions have one agent at a time and nobody hangs up, a finished  *)
(* file has the declared size and the bytes its client sent, unless the     *)
(* user asked to delete it: after chunks that were cut short and retried,   *)
(* transactions that were rolled back, collections of abandoned uploads,    *)
(* files that resisted removal, and restarts.                               *)
THEOREM FinishedIntactSafe ==
    ASSUME ~Overlap, MaxCancels = 0
    PROVE  Spec => []FinishedIntact
<1> DEFINE IInv == TypeInv /\ Serial /\ AllAsked /\ Intact
<1>1. Init => IInv
  BY TypeInit, SerialInit, AskedInit, IntactInit
<1>2. IInv /\ [Next]_vars => IInv'
  BY TypeNext, SerialNext, AskedNext, IntactNext
<1>3. IInv => FinishedIntact
  BY DEF Intact, Whole, FinishedIntact
<1> QED
  BY <1>1, <1>2, <1>3, PTL DEF Spec
-----------------------------------------------------------------------------
(* Three properties fail when agents overlap, when transactions fail or     *)
(* when clients hang up (the runs that expect a violation show it); that is *)
(* all it takes: without these they hold.                                   *)

(* A step that changes one row charges for it: both ledgers are right.      *)
LEMMA LedgerBalances ==
    ASSUME TypeInv, TypeInv', IsFiniteSet(Session), Ledger, Ledger',
           NEW s \in Session, Pending(s), row'[s] # NoRow,
           \A t \in Session \ {s} : row'[t] = row[t]
    PROVE  storage' - storage = row'[s].size - row[s].size
<1>1. PICK f, g : f = Charges /\ g = Charges'
  OBVIOUS
<1>2. Updated(f, g, s, Session)
  <2>1. \A t \in Session : t # s => Charge(t)' = Charge(t)
    BY DEF Charge, Exists
  <2> QED
    BY <1>1, <2>1, ChargeType DEF Updated
<1>3. /\ f[s] = row[s].size /\ f[s] \in Int
      /\ g[s] = row'[s].size /\ g[s] \in Int
  BY <1>1, ChargeType DEF Charge, Exists, Pending
<1>4. PICK m, n : m = Total(f, Session) /\ n = Total(g, Session)
  OBVIOUS
<1>5. m \in Int /\ n = m + (g[s] - f[s])
  <2>1. \A t \in Session : f[t] \in Int
    BY <1>2 DEF Updated
  <2> QED
    BY <1>2, <1>4, <2>1, TotalType, TotalUpdate
<1>6. storage = m /\ storage' = n
  BY <1>1, <1>4, LedgerTotal
<1> QED
  BY <1>3, <1>5, <1>6

(* Sizes and charges move together when no transaction fails and sessions   *)
(* have one agent at a time.                                                *)
THEOREM Balanced ==
    ASSUME IsFiniteSet(Session), ~Overlap, MaxTxFails = 0
    PROVE  Spec => BalancedCharge
<1> DEFINE IInv == TypeInv /\ Serial /\ NoRollback /\ Ledger
           Step == \A s \in Session :
                     Pending(s) /\ row'[s] # NoRow /\ storage' # storage
                     /\ (\A t \in Session \ {s} : row'[t] = row[t])
                     => storage' - storage = row'[s].size - row[s].size
<1>1. Init => IInv
  <2>1. Init => NoRollback
    BY DEF Init, NoRollback, Quiet
  <2> QED
    BY <2>1, TypeInit, SerialInit, LedgerInit
<1>2. IInv /\ [Next]_vars => IInv'
  BY TypeNext, SerialNext, NoRollbackNext, LedgerNext
<1>3. IInv /\ IInv' => Step
  BY LedgerBalances
<1>4. BalancedCharge <=> [][Step]_vars
  BY DEF BalancedCharge
<1> HIDE DEF IInv, Step
<1> QED
  BY <1>1, <1>2, <1>3, <1>4, PTL DEF Spec

(* While sessions have one agent at a time, the cron job takes away no      *)
(* finished file: a row that goes is a placeholder, or the user asked for   *)
(* it; whatever is cut, cancelled or rolled back, and after restarts.       *)
THEOREM FinishedKeptSafe ==
    ASSUME ~Overlap
    PROVE  Spec => FinishedKept
<1> DEFINE IInv == TypeInv /\ Serial /\ AllAsked
           Step == \A s \in Session : Finished(s) /\ row'[s] = NoRow => s \in asked
<1>1. Init => IInv
  BY TypeInit, SerialInit, AskedInit
<1>2. IInv /\ [Next]_vars => IInv'
  BY TypeNext, SerialNext, AskedNext
<1>3. IInv /\ [Next]_vars => Step
  BY KeepsFinished
<1>4. FinishedKept <=> [][Step]_vars
  BY DEF FinishedKept
<1> HIDE DEF IInv, Step
<1> QED
  BY <1>1, <1>2, <1>3, <1>4, PTL DEF Spec

(* And as long as nobody hangs up, nothing overwrites or cuts short a       *)
(* finished file.                                                           *)
THEOREM CancelSparesFinishedSafe ==
    ASSUME ~Overlap, MaxCancels = 0
    PROVE  Spec => CancelSparesFinished
<1> DEFINE IInv == TypeInv /\ Serial /\ AllAsked /\ Intact
           Step == \A s \in Session :
                     Finished(s) /\ blob[s] = Content(s) /\ blob'[s] # NoBlob
                     => blob'[s] = blob[s]
<1>1. Init => IInv
  BY TypeInit, SerialInit, AskedInit, IntactInit
<1>2. IInv /\ [Next]_vars => IInv'
  BY TypeNext, SerialNext, AskedNext, IntactNext
<1>3. IInv /\ [Next]_vars => Step
  BY SparesFinished DEF Intact
<1>4. CancelSparesFinished <=> [][Step]_vars
  BY DEF CancelSparesFinished
<1> HIDE DEF IInv, Step
<1> QED
  BY <1>1, <1>2, <1>3, <1>4, PTL DEF Spec
==============================================================================
