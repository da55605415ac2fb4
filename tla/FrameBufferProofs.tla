-------------------------- MODULE FrameBufferProofs -------------------------
(***************************************************************************)
(* Proofs about FrameBuffer, for any finite set of readers, any number of  *)
(* buffers and any number of frames.  The first part is about types: IInv  *)
(* adds to them the room for the frame being written and the buffer of a   *)
(* reader that works on one.  The second is about safety when a process    *)
(* sets the buffers up once: with SafeInv a locked frame stays what it is, *)
(* frames are lost to readers only, and the buffers implement the register.*)
(***************************************************************************)
EXTENDS FrameBuffer, FiniteSetTheorems, TLAPS

\* TypeOK, by whose variables they are.
MemoryTypes ==
  /\ data \in [Buffers -> FrameNumbers \cup {Gone, Torn, Blank}]
  /\ stamp \in [Buffers -> 0 .. MaxFrames] /\ frames \in 0 .. MaxFrames

MarkTypes ==
  /\ writing \subseteq Buffers /\ count \in [Buffers -> Int]
  /\ read \in Buffers \cup {NoBuffer}

FlagTypes == ready \in BOOLEAN /\ rebuild \in BOOLEAN /\ listening \in BOOLEAN

WriterTypes ==
  /\ wpc \in WriterPoints /\ wbuf \in Buffers \cup {NoBuffer}
  /\ seenRead \in Buffers \cup {NoBuffer} /\ rivals \subseteq Readers

ReaderTypes ==
  /\ rpc \in [Readers -> ReaderPoints] /\ rbuf \in [Readers -> Buffers \cup {NoBuffer}]
  /\ attempt \in [Readers -> 0 .. Attempts]
  /\ copy \in [Readers -> FrameNumbers \cup {Gone, Torn, Blank}]

ControlTypes ==
  /\ cpc \in ControlPoints /\ cbuf \in Buffers \cup {NoBuffer}
  /\ setups \in 0 .. MaxSetups

\* The writer at work still has a frame number to give.
RoomForFrame == wpc \in {"scan", "claim", "recheck", "lock", "write"} => frames < MaxFrames

\* The writer at work has a buffer.
WriterHasBuffer ==
  wpc \in {"scan", "claim", "recheck", "lock", "write", "commit", "publish"} => wbuf \in Buffers

\* A reader past the load of the read buffer has one.
ReaderHasBuffer ==
  \A r \in Readers : rpc[r] \in {"peek", "enter"} \cup CountedIn => rbuf[r] \in Buffers

IInv ==
  /\ MemoryTypes /\ MarkTypes /\ FlagTypes /\ WriterTypes /\ ReaderTypes /\ ControlTypes
  /\ RoomForFrame /\ WriterHasBuffer /\ ReaderHasBuffer

\* The initial states satisfy the invariant.
LEMMA InitInv == Init => IInv
<1> SUFFICES ASSUME Init PROVE IInv
  OBVIOUS
<1> USE ConstantsAssumption
    DEF ConstantsAssumption, Init, Buffers, NoBuffer, FrameNumbers, Gone, Torn, Blank
<1>1. MemoryTypes /\ MarkTypes
  BY DEF MemoryTypes, MarkTypes
<1>2. WriterTypes /\ RoomForFrame /\ WriterHasBuffer
  BY DEF WriterTypes, WriterPoints, RoomForFrame, WriterHasBuffer
<1>3. ReaderTypes /\ ReaderHasBuffer
  BY DEF ReaderTypes, ReaderPoints, Attempts, ReaderHasBuffer, CountedIn
<1>4. ControlTypes
  BY DEF ControlTypes, ControlPoints
<1>5. FlagTypes
  BY Zenon DEF FlagTypes
<1> QED
  BY <1>1, <1>2, <1>3, <1>4, <1>5 DEF IInv

\* A step of the writer keeps the invariant.
LEMMA WriterInv == IInv /\ (FrameArrives \/ WriterStep) => IInv'
<1> SUFFICES ASSUME IInv, FrameArrives \/ WriterStep PROVE IInv'
  OBVIOUS
<1> USE ConstantsAssumption
    DEF ConstantsAssumption, IInv, Buffers, NoBuffer, sharedVars, readerVars, controlVars, WriterIdle, TryNext, Holders
<1>1. CASE FrameArrives
  <2>1. WriterTypes'
    BY <1>1 DEF FrameArrives, WriterTypes, WriterPoints, MarkTypes, WriterHasBuffer
  <2>2. RoomForFrame'
    BY <1>1 DEF FrameArrives, RoomForFrame, MemoryTypes
  <2>3. WriterHasBuffer'
    BY <1>1 DEF FrameArrives, WriterHasBuffer, WriterTypes
  <2>4. MemoryTypes' /\ MarkTypes' /\ FlagTypes' /\ ReaderTypes' /\ ControlTypes' /\ ReaderHasBuffer'
    BY <1>1 DEF FrameArrives, MemoryTypes, FrameNumbers, Gone, Torn, Blank, MarkTypes, FlagTypes, ReaderTypes, ReaderPoints, Attempts, ControlTypes, ControlPoints, ReaderHasBuffer, CountedIn
  <2> QED
    BY <2>1, <2>2, <2>3, <2>4
<1>2. CASE Scan
  <2>1. WriterTypes'
    BY <1>2 DEF Scan, WriterTypes, WriterPoints, MarkTypes, WriterHasBuffer
  <2>2. RoomForFrame'
    BY <1>2 DEF Scan, RoomForFrame, MemoryTypes
  <2>3. WriterHasBuffer'
    BY <1>2 DEF Scan, WriterHasBuffer, WriterTypes
  <2>4. MemoryTypes' /\ MarkTypes' /\ FlagTypes' /\ ReaderTypes' /\ ControlTypes' /\ ReaderHasBuffer'
    BY <1>2 DEF Scan, MemoryTypes, FrameNumbers, Gone, Torn, Blank, MarkTypes, FlagTypes, ReaderTypes, ReaderPoints, Attempts, ControlTypes, ControlPoints, ReaderHasBuffer, CountedIn
  <2> QED
    BY <2>1, <2>2, <2>3, <2>4
<1>3. CASE Claim
  <2>1. MarkTypes'
    BY <1>3 DEF Claim, MarkTypes, WriterTypes, WriterHasBuffer, ReaderTypes
  <2>2. WriterTypes'
    BY <1>3 DEF Claim, WriterTypes, WriterPoints, MarkTypes, WriterHasBuffer
  <2>3. RoomForFrame'
    BY <1>3 DEF Claim, RoomForFrame, MemoryTypes
  <2>4. WriterHasBuffer'
    BY <1>3 DEF Claim, WriterHasBuffer, WriterTypes
  <2>5. MemoryTypes' /\ FlagTypes' /\ ReaderTypes' /\ ControlTypes' /\ ReaderHasBuffer'
    BY <1>3 DEF Claim, MemoryTypes, FrameNumbers, Gone, Torn, Blank, FlagTypes, ReaderTypes, ReaderPoints, Attempts, ControlTypes, ControlPoints, ReaderHasBuffer, CountedIn
  <2> QED
    BY <2>1, <2>2, <2>3, <2>4, <2>5
<1>4. CASE Recheck
  <2>1. MarkTypes'
    BY <1>4 DEF Recheck, MarkTypes, WriterTypes, WriterHasBuffer, ReaderTypes
  <2>2. WriterTypes'
    BY <1>4 DEF Recheck, WriterTypes, WriterPoints, MarkTypes, WriterHasBuffer
  <2>3. RoomForFrame'
    BY <1>4 DEF Recheck, RoomForFrame, MemoryTypes
  <2>4. WriterHasBuffer'
    BY <1>4 DEF Recheck, WriterHasBuffer, WriterTypes
  <2>5. MemoryTypes' /\ FlagTypes' /\ ReaderTypes' /\ ControlTypes' /\ ReaderHasBuffer'
    BY <1>4 DEF Recheck, MemoryTypes, FrameNumbers, Gone, Torn, Blank, FlagTypes, ReaderTypes, ReaderPoints, Attempts, ControlTypes, ControlPoints, ReaderHasBuffer, CountedIn
  <2> QED
    BY <2>1, <2>2, <2>3, <2>4, <2>5
<1>5. CASE LockFrame
  <2>1. MemoryTypes'
    BY <1>5 DEF LockFrame, MemoryTypes, FrameNumbers, Gone, Torn, Blank, RoomForFrame
  <2>2. MarkTypes'
    BY <1>5 DEF LockFrame, MarkTypes, WriterTypes, WriterHasBuffer, ReaderTypes
  <2>3. WriterTypes'
    BY <1>5 DEF LockFrame, WriterTypes, WriterPoints, MarkTypes, WriterHasBuffer
  <2>4. RoomForFrame'
    BY <1>5 DEF LockFrame, RoomForFrame, MemoryTypes
  <2>5. WriterHasBuffer'
    BY <1>5 DEF LockFrame, WriterHasBuffer, WriterTypes
  <2>6. FlagTypes' /\ ReaderTypes' /\ ControlTypes' /\ ReaderHasBuffer'
    BY <1>5 DEF LockFrame, FlagTypes, ReaderTypes, ReaderPoints, FrameNumbers, Gone, Torn, Blank, Attempts, ControlTypes, ControlPoints, ReaderHasBuffer, CountedIn
  <2> QED
    BY <2>1, <2>2, <2>3, <2>4, <2>5, <2>6
<1>6. CASE WriteEnds
  <2>1. MemoryTypes'
    <3>1. frames' \in 0 .. MaxFrames /\ frames + 1 \in FrameNumbers
      BY <1>6 DEF WriteEnds, MemoryTypes, RoomForFrame, FrameNumbers
    <3>2. data' \in [Buffers -> FrameNumbers \cup {Gone, Torn, Blank}]
      BY <1>6, <3>1 DEF WriteEnds, MemoryTypes
    <3>3. stamp' \in [Buffers -> 0 .. MaxFrames]
      BY <1>6, <3>1 DEF WriteEnds, MemoryTypes
    <3> QED
      BY <3>1, <3>2, <3>3 DEF MemoryTypes
  <2>2. WriterTypes'
    BY <1>6 DEF WriteEnds, WriterTypes, WriterPoints, MarkTypes, WriterHasBuffer
  <2>3. RoomForFrame'
    BY <1>6 DEF WriteEnds, RoomForFrame, MemoryTypes
  <2>4. WriterHasBuffer'
    BY <1>6 DEF WriteEnds, WriterHasBuffer, WriterTypes
  <2>5. MarkTypes' /\ FlagTypes' /\ ReaderTypes' /\ ControlTypes' /\ ReaderHasBuffer'
    BY <1>6 DEF WriteEnds, MarkTypes, FlagTypes, ReaderTypes, ReaderPoints, FrameNumbers, Gone, Torn, Blank, Attempts, ControlTypes, ControlPoints, ReaderHasBuffer, CountedIn
  <2> QED
    BY <2>1, <2>2, <2>3, <2>4, <2>5
<1>7. CASE Commit
  <2>1. MarkTypes'
    BY <1>7 DEF Commit, MarkTypes, WriterTypes, WriterHasBuffer, ReaderTypes
  <2>2. WriterTypes'
    BY <1>7 DEF Commit, WriterTypes, WriterPoints, MarkTypes, WriterHasBuffer
  <2>3. RoomForFrame'
    BY <1>7 DEF Commit, RoomForFrame, MemoryTypes
  <2>4. WriterHasBuffer'
    BY <1>7 DEF Commit, WriterHasBuffer, WriterTypes
  <2>5. MemoryTypes' /\ FlagTypes' /\ ReaderTypes' /\ ControlTypes' /\ ReaderHasBuffer'
    BY <1>7 DEF Commit, MemoryTypes, FrameNumbers, Gone, Torn, Blank, FlagTypes, ReaderTypes, ReaderPoints, Attempts, ControlTypes, ControlPoints, ReaderHasBuffer, CountedIn
  <2> QED
    BY <2>1, <2>2, <2>3, <2>4, <2>5
<1>8. CASE Publish
  <2>1. MarkTypes'
    BY <1>8 DEF Publish, MarkTypes, WriterTypes, WriterHasBuffer, ReaderTypes
  <2>2. WriterTypes'
    BY <1>8 DEF Publish, WriterTypes, WriterPoints, MarkTypes, WriterHasBuffer
  <2>3. RoomForFrame'
    BY <1>8 DEF Publish, RoomForFrame, MemoryTypes
  <2>4. WriterHasBuffer'
    BY <1>8 DEF Publish, WriterHasBuffer, WriterTypes
  <2>5. MemoryTypes' /\ FlagTypes' /\ ReaderTypes' /\ ControlTypes' /\ ReaderHasBuffer'
    BY <1>8 DEF Publish, MemoryTypes, FrameNumbers, Gone, Torn, Blank, FlagTypes, ReaderTypes, ReaderPoints, Attempts, ControlTypes, ControlPoints, ReaderHasBuffer, CountedIn
  <2> QED
    BY <2>1, <2>2, <2>3, <2>4, <2>5
<1>9. CASE Drop
  <2>1. WriterTypes'
    BY <1>9 DEF Drop, WriterTypes, WriterPoints, MarkTypes, WriterHasBuffer
  <2>2. RoomForFrame'
    BY <1>9 DEF Drop, RoomForFrame, MemoryTypes
  <2>3. WriterHasBuffer'
    BY <1>9 DEF Drop, WriterHasBuffer, WriterTypes
  <2>4. MemoryTypes' /\ MarkTypes' /\ FlagTypes' /\ ReaderTypes' /\ ControlTypes' /\ ReaderHasBuffer'
    BY <1>9 DEF Drop, MemoryTypes, FrameNumbers, Gone, Torn, Blank, MarkTypes, FlagTypes, ReaderTypes, ReaderPoints, Attempts, ControlTypes, ControlPoints, ReaderHasBuffer, CountedIn
  <2> QED
    BY <2>1, <2>2, <2>3, <2>4
<1> QED
  BY <1>1, <1>2, <1>3, <1>4, <1>5, <1>6, <1>7, <1>8, <1>9 DEF WriterStep

\* A step of a reader keeps the invariant.
LEMMA ReaderInv ==
  ASSUME IInv, NEW r \in Readers, Screenshot(r) \/ ReaderStep(r)
  PROVE  IInv'
<1> USE ConstantsAssumption
    DEF ConstantsAssumption, IInv, Buffers, NoBuffer, sharedVars, writerVars, controlVars, ReaderGoes, ReaderIdle
<1>1. CASE Screenshot(r)
  <2>1. ReaderTypes'
    BY <1>1 DEF Screenshot, ReaderTypes, ReaderPoints, FrameNumbers, Gone, Torn, Blank, Attempts, MemoryTypes, MarkTypes, ReaderHasBuffer, CountedIn
  <2>2. ReaderHasBuffer'
    BY <1>1 DEF Screenshot, ReaderHasBuffer, CountedIn, ReaderTypes, MarkTypes
  <2>3. MemoryTypes' /\ MarkTypes' /\ FlagTypes' /\ WriterTypes' /\ ControlTypes' /\ RoomForFrame' /\ WriterHasBuffer'
    BY <1>1 DEF Screenshot, MemoryTypes, FrameNumbers, Gone, Torn, Blank, MarkTypes, FlagTypes, WriterTypes, WriterPoints, ControlTypes, ControlPoints, RoomForFrame, WriterHasBuffer
  <2> QED
    BY <2>1, <2>2, <2>3
<1>2. CASE Load(r)
  <2>1. ReaderTypes'
    <3>1. CASE read = NoBuffer
      <4>1. ReaderIdle(r) 
        BY <1>2, <3>1 DEF Load
      <4> QED
        BY <4>1 DEF ReaderTypes, ReaderPoints, Attempts, Blank
    <3>2. CASE read # NoBuffer
      <4>1. /\ rpc' = [rpc EXCEPT ![r] = "peek"] /\ rbuf' = [rbuf EXCEPT ![r] = read]
            /\ UNCHANGED <<attempt, copy>>
        BY <1>2, <3>2 DEF Load
      <4> QED
        BY <4>1 DEF ReaderTypes, ReaderPoints, MarkTypes
    <3> QED
      BY <3>1, <3>2
  <2>2. ReaderHasBuffer'
    BY <1>2 DEF Load, ReaderHasBuffer, CountedIn, ReaderTypes, MarkTypes
  <2>3. MemoryTypes' /\ MarkTypes' /\ FlagTypes' /\ WriterTypes' /\ ControlTypes' /\ RoomForFrame' /\ WriterHasBuffer'
    BY <1>2 DEF Load, MemoryTypes, FrameNumbers, Gone, Torn, Blank, MarkTypes, FlagTypes, WriterTypes, WriterPoints, ControlTypes, ControlPoints, RoomForFrame, WriterHasBuffer
  <2> QED
    BY <2>1, <2>2, <2>3
<1>3. CASE Peek(r)
  <2>1. ReaderTypes'
    <3>1. /\ rpc' \in [Readers -> ReaderPoints] /\ rbuf' \in [Readers -> Buffers \cup {NoBuffer}]
          /\ attempt' \in [Readers -> 0 .. Attempts]
      BY <1>3 DEF Peek, ReaderTypes, ReaderPoints, Attempts
    <3>2. copy' \in [Readers -> FrameNumbers \cup {Gone, Torn, Blank}]
      BY <1>3 DEF Peek, ReaderTypes
    <3> QED
      BY <3>1, <3>2 DEF ReaderTypes
  <2>2. ReaderHasBuffer'
    BY <1>3 DEF Peek, ReaderHasBuffer, CountedIn, ReaderTypes, MarkTypes
  <2>3. MemoryTypes' /\ MarkTypes' /\ FlagTypes' /\ WriterTypes' /\ ControlTypes' /\ RoomForFrame' /\ WriterHasBuffer'
    BY <1>3 DEF Peek, MemoryTypes, FrameNumbers, Gone, Torn, Blank, MarkTypes, FlagTypes, WriterTypes, WriterPoints, ControlTypes, ControlPoints, RoomForFrame, WriterHasBuffer
  <2> QED
    BY <2>1, <2>2, <2>3
<1>4. CASE Enter(r)
  <2>1. MarkTypes'
    <3>1. rbuf[r] \in Buffers
      BY <1>4 DEF Enter, ReaderHasBuffer, CountedIn
    <3>2. count' \in [Buffers -> Int]
      BY <1>4, <3>1 DEF Enter, MarkTypes
    <3> QED
      BY <1>4, <3>2 DEF Enter, MarkTypes
  <2>2. ReaderTypes'
    BY <1>4 DEF Enter, ReaderTypes, ReaderPoints, FrameNumbers, Gone, Torn, Blank, Attempts, MemoryTypes, MarkTypes, ReaderHasBuffer, CountedIn
  <2>3. ReaderHasBuffer'
    BY <1>4 DEF Enter, ReaderHasBuffer, CountedIn, ReaderTypes, MarkTypes
  <2>4. MemoryTypes' /\ FlagTypes' /\ WriterTypes' /\ ControlTypes' /\ RoomForFrame' /\ WriterHasBuffer'
    BY <1>4 DEF Enter, MemoryTypes, FrameNumbers, Gone, Torn, Blank, FlagTypes, WriterTypes, WriterPoints, ControlTypes, ControlPoints, RoomForFrame, WriterHasBuffer
  <2> QED
    BY <2>1, <2>2, <2>3, <2>4
<1>5. CASE Check(r)
  <2>1. ReaderTypes'
    BY <1>5 DEF Check, ReaderTypes, ReaderPoints, FrameNumbers, Gone, Torn, Blank, Attempts, MemoryTypes, MarkTypes, ReaderHasBuffer, CountedIn
  <2>2. ReaderHasBuffer'
    BY <1>5 DEF Check, ReaderHasBuffer, CountedIn, ReaderTypes, MarkTypes
  <2>3. MemoryTypes' /\ MarkTypes' /\ FlagTypes' /\ WriterTypes' /\ ControlTypes' /\ RoomForFrame' /\ WriterHasBuffer'
    BY <1>5 DEF Check, MemoryTypes, FrameNumbers, Gone, Torn, Blank, MarkTypes, FlagTypes, WriterTypes, WriterPoints, ControlTypes, ControlPoints, RoomForFrame, WriterHasBuffer
  <2> QED
    BY <2>1, <2>2, <2>3
<1>6. CASE Retry(r)
  <2>1. MarkTypes'
    <3>1. rbuf[r] \in Buffers
      BY <1>6 DEF Retry, ReaderHasBuffer, CountedIn
    <3>2. count' \in [Buffers -> Int]
      BY <1>6, <3>1 DEF Retry, MarkTypes
    <3> QED
      BY <1>6, <3>2 DEF Retry, MarkTypes
  <2>2. ReaderTypes'
    <3>1. /\ rpc' \in [Readers -> ReaderPoints] /\ rbuf' \in [Readers -> Buffers \cup {NoBuffer}]
          /\ attempt' \in [Readers -> 0 .. Attempts]
      BY <1>6 DEF Retry, ReaderTypes, ReaderPoints, Attempts
    <3>2. copy' \in [Readers -> FrameNumbers \cup {Gone, Torn, Blank}]
      BY <1>6 DEF Retry, ReaderTypes
    <3> QED
      BY <3>1, <3>2 DEF ReaderTypes
  <2>3. ReaderHasBuffer'
    BY <1>6 DEF Retry, ReaderHasBuffer, CountedIn, ReaderTypes, MarkTypes
  <2>4. MemoryTypes' /\ FlagTypes' /\ WriterTypes' /\ ControlTypes' /\ RoomForFrame' /\ WriterHasBuffer'
    BY <1>6 DEF Retry, MemoryTypes, FrameNumbers, Gone, Torn, Blank, FlagTypes, WriterTypes, WriterPoints, ControlTypes, ControlPoints, RoomForFrame, WriterHasBuffer
  <2> QED
    BY <2>1, <2>2, <2>3, <2>4
<1>7. CASE CopyBegins(r)
  <2>1. ReaderTypes'
    BY <1>7 DEF CopyBegins, ReaderTypes, ReaderPoints, FrameNumbers, Gone, Torn, Blank, Attempts, MemoryTypes, MarkTypes, ReaderHasBuffer, CountedIn
  <2>2. ReaderHasBuffer'
    BY <1>7 DEF CopyBegins, ReaderHasBuffer, CountedIn, ReaderTypes, MarkTypes
  <2>3. MemoryTypes' /\ MarkTypes' /\ FlagTypes' /\ WriterTypes' /\ ControlTypes' /\ RoomForFrame' /\ WriterHasBuffer'
    BY <1>7 DEF CopyBegins, MemoryTypes, FrameNumbers, Gone, Torn, Blank, MarkTypes, FlagTypes, WriterTypes, WriterPoints, ControlTypes, ControlPoints, RoomForFrame, WriterHasBuffer
  <2> QED
    BY <2>1, <2>2, <2>3
<1>8. CASE CopyEnds(r)
  <2>1. ReaderTypes'
    BY <1>8 DEF CopyEnds, ReaderTypes, ReaderPoints, FrameNumbers, Gone, Torn, Blank, Attempts, MemoryTypes, MarkTypes, ReaderHasBuffer, CountedIn
  <2>2. ReaderHasBuffer'
    BY <1>8 DEF CopyEnds, ReaderHasBuffer, CountedIn, ReaderTypes, MarkTypes
  <2>3. UNCHANGED <<sharedVars, writerVars, controlVars>>
    BY <1>8 DEF CopyEnds
  <2>4. MemoryTypes' /\ MarkTypes' /\ FlagTypes' /\ WriterTypes' /\ ControlTypes' /\ RoomForFrame' /\ WriterHasBuffer'
    BY <2>3 DEF MemoryTypes, FrameNumbers, Gone, Torn, Blank, MarkTypes, FlagTypes, WriterTypes, WriterPoints, ControlTypes, ControlPoints, RoomForFrame, WriterHasBuffer
  <2> QED
    BY <2>1, <2>2, <2>4
<1>9. CASE Leave(r)
  <2>1. MarkTypes'
    <3>1. rbuf[r] \in Buffers
      BY <1>9 DEF Leave, ReaderHasBuffer, CountedIn
    <3>2. count' \in [Buffers -> Int]
      BY <1>9, <3>1 DEF Leave, MarkTypes
    <3> QED
      BY <1>9, <3>2 DEF Leave, MarkTypes
  <2>2. ReaderTypes'
    BY <1>9 DEF Leave, ReaderTypes, ReaderPoints, FrameNumbers, Gone, Torn, Blank, Attempts, MemoryTypes, MarkTypes, ReaderHasBuffer, CountedIn
  <2>3. ReaderHasBuffer'
    BY <1>9 DEF Leave, ReaderHasBuffer, CountedIn, ReaderTypes, MarkTypes
  <2>4. MemoryTypes' /\ FlagTypes' /\ WriterTypes' /\ ControlTypes' /\ RoomForFrame' /\ WriterHasBuffer'
    BY <1>9 DEF Leave, MemoryTypes, FrameNumbers, Gone, Torn, Blank, FlagTypes, WriterTypes, WriterPoints, ControlTypes, ControlPoints, RoomForFrame, WriterHasBuffer
  <2> QED
    BY <2>1, <2>2, <2>3, <2>4
<1> QED
  BY <1>1, <1>2, <1>3, <1>4, <1>5, <1>6, <1>7, <1>8, <1>9 DEF ReaderStep

\* A step of the control thread keeps the invariant.
LEMMA ControlInv == IInv /\ (Setup \/ Close \/ ControlStep) => IInv'
<1> SUFFICES ASSUME IInv, Setup \/ Close \/ ControlStep PROVE IInv'
  OBVIOUS
<1> USE ConstantsAssumption
    DEF ConstantsAssumption, IInv, Buffers, NoBuffer, sharedVars, writerVars, readerVars
<1>1. CASE Setup
  <2>1. FlagTypes'
    BY <1>1 DEF Setup, FlagTypes
  <2>2. ControlTypes'
    BY <1>1 DEF Setup, ControlTypes, ControlPoints
  <2>3. MemoryTypes' /\ MarkTypes' /\ WriterTypes' /\ ReaderTypes' /\ RoomForFrame' /\ WriterHasBuffer' /\ ReaderHasBuffer'
    BY <1>1 DEF Setup, MemoryTypes, FrameNumbers, Gone, Torn, Blank, MarkTypes, WriterTypes, WriterPoints, ReaderTypes, ReaderPoints, Attempts, RoomForFrame, WriterHasBuffer, ReaderHasBuffer, CountedIn
  <2> QED
    BY <2>1, <2>2, <2>3
<1>2. CASE Close
  <2>1. FlagTypes'
    BY <1>2 DEF Close, FlagTypes
  <2>2. ControlTypes'
    BY <1>2 DEF Close, ControlTypes, ControlPoints
  <2>3. MemoryTypes' /\ MarkTypes' /\ WriterTypes' /\ ReaderTypes' /\ RoomForFrame' /\ WriterHasBuffer' /\ ReaderHasBuffer'
    BY <1>2 DEF Close, MemoryTypes, FrameNumbers, Gone, Torn, Blank, MarkTypes, WriterTypes, WriterPoints, ReaderTypes, ReaderPoints, Attempts, RoomForFrame, WriterHasBuffer, ReaderHasBuffer, CountedIn
  <2> QED
    BY <2>1, <2>2, <2>3
<1>3. CASE ReleaseFlag
  <2>1. FlagTypes'
    BY <1>3 DEF ReleaseFlag, FlagTypes
  <2>2. ControlTypes'
    BY <1>3 DEF ReleaseFlag, ControlTypes, ControlPoints
  <2>3. MemoryTypes' /\ MarkTypes' /\ WriterTypes' /\ ReaderTypes' /\ RoomForFrame' /\ WriterHasBuffer' /\ ReaderHasBuffer'
    BY <1>3 DEF ReleaseFlag, MemoryTypes, FrameNumbers, Gone, Torn, Blank, MarkTypes, WriterTypes, WriterPoints, ReaderTypes, ReaderPoints, Attempts, RoomForFrame, WriterHasBuffer, ReaderHasBuffer, CountedIn
  <2> QED
    BY <2>1, <2>2, <2>3
<1>4. CASE ReleaseRead
  <2>1. MarkTypes'
    BY <1>4 DEF ReleaseRead, MarkTypes, WriterTypes, WriterHasBuffer, ReaderTypes
  <2>2. ControlTypes'
    BY <1>4 DEF ReleaseRead, ControlTypes, ControlPoints
  <2>3. MemoryTypes' /\ FlagTypes' /\ WriterTypes' /\ ReaderTypes' /\ RoomForFrame' /\ WriterHasBuffer' /\ ReaderHasBuffer'
    BY <1>4 DEF ReleaseRead, MemoryTypes, FrameNumbers, Gone, Torn, Blank, FlagTypes, WriterTypes, WriterPoints, ReaderTypes, ReaderPoints, Attempts, RoomForFrame, WriterHasBuffer, ReaderHasBuffer, CountedIn
  <2> QED
    BY <2>1, <2>2, <2>3
<1>5. CASE ReleaseWait
  <2>1. ControlTypes'
    BY <1>5 DEF ReleaseWait, ControlTypes, ControlPoints
  <2>2. MemoryTypes' /\ MarkTypes' /\ FlagTypes' /\ WriterTypes' /\ ReaderTypes' /\ RoomForFrame' /\ WriterHasBuffer' /\ ReaderHasBuffer'
    BY <1>5 DEF ReleaseWait, MemoryTypes, FrameNumbers, Gone, Torn, Blank, MarkTypes, FlagTypes, WriterTypes, WriterPoints, ReaderTypes, ReaderPoints, Attempts, RoomForFrame, WriterHasBuffer, ReaderHasBuffer, CountedIn
  <2> QED
    BY <2>1, <2>2
<1>6. CASE ReleaseFree
  <2>1. MemoryTypes'
    <3>1. /\ data' = [data EXCEPT ![cbuf] = Gone]
          /\ stamp' = [stamp EXCEPT ![cbuf] = 0] /\ frames' = frames
      BY <1>6 DEF ReleaseFree
    <3>2. data' \in [Buffers -> FrameNumbers \cup {Gone, Torn, Blank}]
      BY <3>1 DEF MemoryTypes
    <3>3. stamp' \in [Buffers -> 0 .. MaxFrames]
      <4>1. stamp \in [Buffers -> 0 .. MaxFrames] /\ 0 \in 0 .. MaxFrames
        BY DEF MemoryTypes
      <4> HIDE DEF Buffers
      <4> QED
        BY <3>1, <4>1, Zenon
    <3> QED
      BY <3>1, <3>2, <3>3 DEF MemoryTypes
  <2>2. ControlTypes'
    BY <1>6 DEF ReleaseFree, ControlTypes, ControlPoints
  <2>3. RoomForFrame'
    BY <1>6 DEF ReleaseFree, RoomForFrame, MemoryTypes
  <2>4. MarkTypes' /\ FlagTypes' /\ WriterTypes' /\ ReaderTypes' /\ WriterHasBuffer' /\ ReaderHasBuffer'
    BY <1>6 DEF ReleaseFree, MarkTypes, FlagTypes, WriterTypes, WriterPoints, ReaderTypes, ReaderPoints, FrameNumbers, Gone, Torn, Blank, Attempts, WriterHasBuffer, ReaderHasBuffer, CountedIn
  <2> QED
    BY <2>1, <2>2, <2>3, <2>4
<1>7. CASE ReleaseReset
  <2>1. MarkTypes'
    <3>1. /\ count' = [count EXCEPT ![cbuf] = 0]
          /\ writing' = writing \ {cbuf} /\ read' = read
      BY <1>7 DEF ReleaseReset
    <3>2. count' \in [Buffers -> Int]
      <4>1. count \in [Buffers -> Int] /\ 0 \in Int
        BY DEF MarkTypes
      <4> HIDE DEF Buffers
      <4> QED
        BY <3>1, <4>1, Zenon
    <3> QED
      BY <3>1, <3>2 DEF MarkTypes
  <2>2. ControlTypes'
    BY <1>7 DEF ReleaseReset, ControlTypes, ControlPoints
  <2>3. MemoryTypes' /\ FlagTypes' /\ WriterTypes' /\ ReaderTypes' /\ RoomForFrame' /\ WriterHasBuffer' /\ ReaderHasBuffer'
    BY <1>7 DEF ReleaseReset, MemoryTypes, FrameNumbers, Gone, Torn, Blank, FlagTypes, WriterTypes, WriterPoints, ReaderTypes, ReaderPoints, Attempts, RoomForFrame, WriterHasBuffer, ReaderHasBuffer, CountedIn
  <2> QED
    BY <2>1, <2>2, <2>3
<1>8. CASE ReleaseEnd
  <2>1. MemoryTypes'
    BY <1>8 DEF ReleaseEnd, MemoryTypes, FrameNumbers, Gone, Torn, Blank, RoomForFrame
  <2>2. MarkTypes'
    BY <1>8 DEF ReleaseEnd, MarkTypes, WriterTypes, WriterHasBuffer, ReaderTypes
  <2>3. FlagTypes'
    BY <1>8 DEF ReleaseEnd, FlagTypes
  <2>4. ControlTypes'
    BY <1>8 DEF ReleaseEnd, ControlTypes, ControlPoints
  <2>5. RoomForFrame'
    BY <1>8 DEF ReleaseEnd, RoomForFrame, MemoryTypes
  <2>6. WriterTypes' /\ ReaderTypes' /\ WriterHasBuffer' /\ ReaderHasBuffer'
    BY <1>8 DEF ReleaseEnd, WriterTypes, WriterPoints, ReaderTypes, ReaderPoints, FrameNumbers, Gone, Torn, Blank, Attempts, WriterHasBuffer, ReaderHasBuffer, CountedIn
  <2> QED
    BY <2>1, <2>2, <2>3, <2>4, <2>5, <2>6
<1>9. CASE Alloc
  <2>1. MemoryTypes'
    BY <1>9 DEF Alloc, MemoryTypes, FrameNumbers, Gone, Torn, Blank, RoomForFrame
  <2>2. MarkTypes'
    BY <1>9 DEF Alloc, MarkTypes, WriterTypes, WriterHasBuffer, ReaderTypes
  <2>3. ControlTypes'
    BY <1>9 DEF Alloc, ControlTypes, ControlPoints
  <2>4. RoomForFrame'
    BY <1>9 DEF Alloc, RoomForFrame, MemoryTypes
  <2>5. FlagTypes' /\ WriterTypes' /\ ReaderTypes' /\ WriterHasBuffer' /\ ReaderHasBuffer'
    BY <1>9 DEF Alloc, FlagTypes, WriterTypes, WriterPoints, ReaderTypes, ReaderPoints, FrameNumbers, Gone, Torn, Blank, Attempts, WriterHasBuffer, ReaderHasBuffer, CountedIn
  <2> QED
    BY <2>1, <2>2, <2>3, <2>4, <2>5
<1>10. CASE AllocFails
  <2>1. MemoryTypes'
    BY <1>10 DEF AllocFails, MemoryTypes, FrameNumbers, Gone, Torn, Blank, RoomForFrame
  <2>2. MarkTypes'
    <3>1. count' \in [Buffers -> Int]
      BY <1>10 DEF AllocFails, MarkTypes
    <3> QED
      BY <1>10, <3>1 DEF AllocFails, MarkTypes
  <2>3. ControlTypes'
    BY <1>10 DEF AllocFails, ControlTypes, ControlPoints
  <2>4. RoomForFrame'
    BY <1>10 DEF AllocFails, RoomForFrame, MemoryTypes
  <2>5. FlagTypes' /\ WriterTypes' /\ ReaderTypes' /\ WriterHasBuffer' /\ ReaderHasBuffer'
    BY <1>10 DEF AllocFails, FlagTypes, WriterTypes, WriterPoints, ReaderTypes, ReaderPoints, FrameNumbers, Gone, Torn, Blank, Attempts, WriterHasBuffer, ReaderHasBuffer, CountedIn
  <2> QED
    BY <2>1, <2>2, <2>3, <2>4, <2>5
<1>11. CASE AllocDone
  <2>1. MemoryTypes'
    BY <1>11 DEF AllocDone, MemoryTypes, FrameNumbers, Gone, Torn, Blank, RoomForFrame
  <2>2. MarkTypes'
    BY <1>11 DEF AllocDone, MarkTypes, WriterTypes, WriterHasBuffer, ReaderTypes
  <2>3. FlagTypes'
    BY <1>11 DEF AllocDone, FlagTypes
  <2>4. ControlTypes'
    BY <1>11 DEF AllocDone, ControlTypes, ControlPoints
  <2>5. RoomForFrame'
    BY <1>11 DEF AllocDone, RoomForFrame, MemoryTypes
  <2>6. WriterTypes' /\ ReaderTypes' /\ WriterHasBuffer' /\ ReaderHasBuffer'
    BY <1>11 DEF AllocDone, WriterTypes, WriterPoints, ReaderTypes, ReaderPoints, FrameNumbers, Gone, Torn, Blank, Attempts, WriterHasBuffer, ReaderHasBuffer, CountedIn
  <2> QED
    BY <2>1, <2>2, <2>3, <2>4, <2>5, <2>6
<1>12. CASE Listen
  <2>1. FlagTypes'
    BY <1>12 DEF Listen, FlagTypes
  <2>2. ControlTypes'
    BY <1>12 DEF Listen, ControlTypes, ControlPoints
  <2>3. MemoryTypes' /\ MarkTypes' /\ WriterTypes' /\ ReaderTypes' /\ RoomForFrame' /\ WriterHasBuffer' /\ ReaderHasBuffer'
    BY <1>12 DEF Listen, MemoryTypes, FrameNumbers, Gone, Torn, Blank, MarkTypes, WriterTypes, WriterPoints, ReaderTypes, ReaderPoints, Attempts, RoomForFrame, WriterHasBuffer, ReaderHasBuffer, CountedIn
  <2> QED
    BY <2>1, <2>2, <2>3
<1> QED
  BY <1>1, <1>2, <1>3, <1>4, <1>5, <1>6, <1>7, <1>8, <1>9, <1>10, <1>11, <1>12 DEF ControlStep

\* Every step keeps the invariant.
LEMMA IInvKept == IInv /\ [Next]_vars => IInv'
<1>1. IInv /\ UNCHANGED vars => IInv'
  BY DEF IInv, MemoryTypes, MarkTypes, FlagTypes, WriterTypes, ReaderTypes,
         ControlTypes, RoomForFrame, WriterHasBuffer, ReaderHasBuffer,
         vars, sharedVars, writerVars, readerVars, controlVars
<1> QED
  BY <1>1, WriterInv, ReaderInv, ControlInv DEF Next

\* Every variable keeps its type, and a reader works on a buffer that exists.
THEOREM TypesCorrect == Spec => [](TypeOK /\ ReaderHasBuffer)
<1>1. IInv => TypeOK /\ ReaderHasBuffer
  BY DEF IInv, TypeOK, MemoryTypes, MarkTypes, FlagTypes, WriterTypes, ReaderTypes, ControlTypes
<1> QED
  BY InitInv, IInvKept, <1>1, PTL DEF Spec

-----------------------------------------------------------------------------
(* One setup: the invariant.                                               *)

\* The control thread is through with buffer b for good, and its count no
\* longer says who is there.
Spent(b) ==
  /\ ~rebuild
  /\ \/ cpc = "end" \/ (cpc = "down" /\ setups # 0)
     \/ cpc \in {"wait", "free", "reset"} /\ b < cbuf

\* Its memory is or will be freed without asking again.
Freed(b) == Spent(b) \/ (~rebuild /\ cpc \in {"free", "reset"} /\ b = cbuf)

Locked(r) == rpc[r] \in {"locked", "copy"}

\* Where the control thread is in the one setup and the one teardown.
OneSetup ==
  /\ setups <= 1 /\ (setups = 0 => cpc = "down" /\ ~rebuild)
  /\ rebuild => cpc \in {"flag", "read", "wait", "free", "reset", "end"}
  /\ listening <=> cpc = "up"
  /\ ready => cpc \in {"listen", "up", "flag"} /\ ~rebuild
  /\ cpc \in {"wait", "free", "reset"} => cbuf \in Buffers

\* Before the buffers are there nobody reads them.
NoEarlyReader == setups = 0 \/ rebuild \/ cpc = "alloc" => \A r \in Readers : rpc[r] = "idle"

\* The writer works only between setup and teardown, on a buffer that is not
\* the read buffer, and once it has rechecked it, on one that no reader locked.
WriterAlone ==
  /\ wpc # "idle" => cpc = "up" /\ ready /\ seenRead = read
  /\ wpc \in {"claim", "recheck", "lock", "write", "commit", "publish"} => wbuf # read
  /\ wpc \in {"lock", "write", "commit", "publish"} => \A r \in Readers : Locked(r) => rbuf[r] # wbuf

\* A buffer's count is the number of readers at it.
CountsExact == \A b \in Buffers : ~Spent(b) => count[b] = Cardinality(Holders(b))

\* The read buffer holds the latest frame, all of it.
ReadIsLatest ==
  /\ ready => Latest = IF wpc \in {"commit", "publish"} THEN frames - 1 ELSE frames
  /\ ready /\ read # NoBuffer => data[read] = stamp[read] /\ stamp[read] \in FrameNumbers
  /\ wpc \in {"commit", "publish"} =>
       data[wbuf] = frames /\ stamp[wbuf] = frames /\ frames \in FrameNumbers

\* A locked buffer is not freed and holds one whole frame.
LockedIsWhole ==
  \A r \in Readers : Locked(r) =>
    /\ ~Freed(rbuf[r])
    /\ data[rbuf[r]] = stamp[rbuf[r]] /\ stamp[rbuf[r]] \in FrameNumbers

\* What a reader has copied so far.
CopyIsFrame ==
  \A r \in Readers :
    /\ rpc[r] \notin {"copy", "leave"} => copy[r] = Blank
    /\ rpc[r] = "copy" => copy[r] = stamp[rbuf[r]]

\* Buffers before b, besides the read buffer.
Passed(b) == IF seenRead \in 1 .. b - 1 THEN b - 2 ELSE b - 1

\* Each buffer that was passed over cost a reader of its own: one that left
\* can only have come back to the read buffer.
RivalsDiffer ==
  /\ wpc \in {"scan", "claim", "recheck"} =>
       /\ \A r \in rivals : rbuf[r] < wbuf \/ rbuf[r] = seenRead
       /\ Cardinality(rivals) >= Passed(wbuf)
  /\ wpc = "dropped" => Cardinality(rivals) >= NBuf - 1

SafeInv ==
  /\ OneSetup /\ NoEarlyReader /\ WriterAlone /\ CountsExact /\ ReadIsLatest
  /\ LockedIsWhole /\ CopyIsFrame /\ RivalsDiffer

\* What each thread leaves alone.
LEMMA WriterKeeps ==
  FrameArrives \/ WriterStep => UNCHANGED <<count, ready, readerVars, controlVars>>
BY DEF FrameArrives, WriterStep, Scan, Claim, Recheck, LockFrame, WriteEnds, Commit, Publish, Drop,
       sharedVars

LEMMA ReaderKeeps ==
  ASSUME NEW r \in Readers, Screenshot(r) \/ ReaderStep(r)
  PROVE  UNCHANGED <<data, stamp, writing, read, frames, ready, writerVars, controlVars>>
BY DEF ReaderStep, Screenshot, Load, Peek, Enter, Check, Retry, CopyBegins, CopyEnds, Leave, sharedVars

LEMMA ControlKeeps == Setup \/ Close \/ ControlStep => UNCHANGED <<writerVars, readerVars>>
BY DEF Setup, Close, ControlStep, ReleaseFlag, ReleaseRead, ReleaseWait, ReleaseFree, ReleaseReset,
       ReleaseEnd, Alloc, AllocFails, AllocDone, Listen

\* A reader joins the holders of its buffer when it enters.
LEMMA ReaderJoins ==
  ASSUME IInv, NEW r \in Readers, Enter(r), NEW b \in Buffers
  PROVE  /\ r \notin Holders(b)
         /\ Holders(b)' = IF b = rbuf[r] THEN Holders(b) \cup {r} ELSE Holders(b)
BY DEF IInv, ReaderTypes, Enter, ReaderGoes, Holders, CountedIn

\* It leaves them when it gives up or is done.
LEMMA ReaderParts ==
  ASSUME IInv, NEW r \in Readers, Retry(r) \/ Leave(r), NEW b \in Buffers
  PROVE  /\ r \in Holders(b) <=> b = rbuf[r]
         /\ Holders(b)' = Holders(b) \ {r}
<1> USE DEF IInv, ReaderTypes, ReaderGoes, ReaderIdle, Holders, CountedIn, Buffers, NoBuffer
<1>1. CASE Retry(r)
  BY <1>1 DEF Retry
<1>2. CASE Leave(r)
  BY <1>2 DEF Leave
<1> QED
  BY <1>1, <1>2

\* In between the holders stay who they are.
LEMMA ReaderStays ==
  ASSUME IInv, NEW r \in Readers, NEW b \in Buffers,
         Screenshot(r) \/ Load(r) \/ Peek(r) \/ Check(r) \/ CopyBegins(r) \/ CopyEnds(r)
  PROVE  Holders(b)' = Holders(b)
<1> USE DEF IInv, ReaderTypes, ReaderGoes, ReaderIdle, Holders, CountedIn
<1>1. CASE Screenshot(r) \/ Load(r) \/ Peek(r)
  BY <1>1 DEF Screenshot, Load, Peek
<1>2. CASE Check(r) \/ CopyBegins(r) \/ CopyEnds(r)
  BY <1>2 DEF Check, CopyBegins, CopyEnds
<1> QED
  BY <1>1, <1>2

\* There are finitely many.
LEMMA HoldersFinite == \A b \in Buffers : IsFiniteSet(Holders(b)) /\ Cardinality(Holders(b)) \in Nat
<1> TAKE b \in Buffers
<1>1. Holders(b) \in SUBSET Readers
  BY DEF Holders
<1>2. IsFiniteSet(Holders(b))
  BY <1>1, ConstantsAssumption, FS_Subset DEF ConstantsAssumption
<1> QED
  BY <1>2, FS_CardinalityType

\* A buffer whose count is not positive has no holder.
LEMMA NoHolder ==
  ASSUME SafeInv, NEW b \in Buffers, ~Spent(b), count[b] <= 0
  PROVE  \A r \in Readers : Locked(r) => rbuf[r] # b
<1>1. count[b] = Cardinality(Holders(b))
  BY DEF SafeInv, CountsExact
<1>2. Holders(b) = {}
  BY <1>1, HoldersFinite, FS_EmptySet
<1> QED
  BY <1>2 DEF Holders, CountedIn, Locked

\* A buffer that has readers is passed over for readers that were not met before.
LEMMA RivalsMet ==
  ASSUME IInv, SafeInv, wpc \in {"scan", "recheck"}, wbuf # seenRead, count[wbuf] > 0
  PROVE  /\ \A q \in rivals \cup Holders(wbuf) : rbuf[q] < wbuf + 1 \/ rbuf[q] = seenRead
         /\ Cardinality(rivals \cup Holders(wbuf)) \in Nat
         /\ Cardinality(rivals \cup Holders(wbuf)) >= Passed(wbuf) + 1
<1>1. wbuf \in Buffers /\ wpc # "idle" /\ rivals \in SUBSET Readers
  BY DEF IInv, WriterHasBuffer, WriterTypes
<1>2. count[wbuf] = Cardinality(Holders(wbuf))
  BY <1>1 DEF SafeInv, CountsExact, WriterAlone, Spent
<1>3. IsFiniteSet(rivals) /\ IsFiniteSet(Holders(wbuf))
  BY <1>1, HoldersFinite, ConstantsAssumption, FS_Subset DEF ConstantsAssumption
<1>4. rivals \cap Holders(wbuf) = {}
  BY <1>1 DEF SafeInv, RivalsDiffer, Holders, Buffers
<1>5. Cardinality(rivals \cup Holders(wbuf)) = Cardinality(rivals) + Cardinality(Holders(wbuf))
  <2>1. Cardinality(rivals \cap Holders(wbuf)) = 0
    BY <1>4, FS_EmptySet
  <2>2. Cardinality(rivals) \in Nat /\ Cardinality(Holders(wbuf)) \in Nat
    BY <1>3, FS_CardinalityType
  <2>3. Cardinality(rivals \cup Holders(wbuf))
          = Cardinality(rivals) + Cardinality(Holders(wbuf)) - Cardinality(rivals \cap Holders(wbuf))
    BY <1>3, FS_Union, Zenon
  <2> QED
    BY <2>1, <2>2, <2>3
<1>6. Cardinality(rivals) >= Passed(wbuf) /\ Cardinality(rivals) \in Nat
  BY <1>3, FS_CardinalityType DEF SafeInv, RivalsDiffer
<1>7. Passed(wbuf) \in Int
  BY <1>1 DEF Passed, Buffers
<1>8. \A q \in rivals \cup Holders(wbuf) : rbuf[q] < wbuf + 1 \/ rbuf[q] = seenRead
  BY <1>1 DEF SafeInv, RivalsDiffer, Holders, Buffers, IInv, ReaderTypes, NoBuffer
<1> QED
  BY <1>1, <1>2, <1>5, <1>6, <1>7, <1>8, HoldersFinite

-----------------------------------------------------------------------------
(* Every step keeps it.                                                     *)

\* The control thread goes through one setup and one teardown.
LEMMA OneSetupKept ==
  ASSUME MaxSetups <= 1, IInv, SafeInv, Next
  PROVE  OneSetup'
<1> USE ConstantsAssumption
    DEF ConstantsAssumption, IInv, SafeInv, Buffers, NoBuffer, sharedVars, writerVars, readerVars, controlVars
<1>1. CASE FrameArrives \/ WriterStep
  BY <1>1, WriterKeeps DEF OneSetup
<1>2. ASSUME NEW r \in Readers, Screenshot(r) \/ ReaderStep(r) PROVE OneSetup'
  BY <1>2, ReaderKeeps DEF OneSetup
<1>3. CASE Setup \/ Close \/ ControlStep
  <2>1. CASE Setup
    BY <2>1 DEF Setup, OneSetup, ControlTypes, FlagTypes
  <2>2. CASE Close
    BY <2>2 DEF Close, OneSetup, ControlTypes, FlagTypes
  <2>3. CASE ReleaseFlag
    BY <2>3 DEF ReleaseFlag, OneSetup, ControlTypes, FlagTypes
  <2>4. CASE ReleaseRead
    BY <2>4 DEF ReleaseRead, OneSetup, ControlTypes, FlagTypes
  <2>5. CASE ReleaseWait
    BY <2>5 DEF ReleaseWait, OneSetup, ControlTypes, FlagTypes
  <2>6. CASE ReleaseFree
    BY <2>6 DEF ReleaseFree, OneSetup, ControlTypes, FlagTypes
  <2>7. CASE ReleaseReset
    BY <2>7 DEF ReleaseReset, OneSetup, ControlTypes, FlagTypes
  <2>8. CASE ReleaseEnd
    BY <2>8 DEF ReleaseEnd, OneSetup, ControlTypes, FlagTypes
  <2>9. CASE Alloc
    BY <2>9 DEF Alloc, OneSetup, ControlTypes, FlagTypes
  <2>10. CASE AllocFails
    BY <2>10 DEF AllocFails, OneSetup, ControlTypes, FlagTypes
  <2>11. CASE AllocDone
    BY <2>11 DEF AllocDone, OneSetup, ControlTypes, FlagTypes
  <2>12. CASE Listen
    BY <2>12 DEF Listen, OneSetup, ControlTypes, FlagTypes
  <2> QED
    BY <1>3, <2>1, <2>2, <2>3, <2>4, <2>5, <2>6, <2>7, <2>8, <2>9, <2>10, <2>11, <2>12 DEF ControlStep
<1> QED
  BY <1>1, <1>2, <1>3 DEF Next

\* Nobody reads before the buffers are there.
LEMMA NoEarlyReaderKept ==
  ASSUME MaxSetups <= 1, IInv, SafeInv, Next
  PROVE  NoEarlyReader'
<1> USE ConstantsAssumption
    DEF ConstantsAssumption, IInv, SafeInv, Buffers, NoBuffer, sharedVars, writerVars, readerVars, controlVars
<1>1. CASE FrameArrives \/ WriterStep
  BY <1>1, WriterKeeps DEF NoEarlyReader
<1>2. ASSUME NEW r \in Readers, Screenshot(r) \/ ReaderStep(r) PROVE NoEarlyReader'
  <2>1. CASE Screenshot(r)
    BY <2>1 DEF Screenshot, NoEarlyReader, OneSetup, ReaderGoes, ReaderIdle, ReaderTypes
  <2>2. CASE Load(r)
    BY <2>2 DEF Load, NoEarlyReader, OneSetup, ReaderGoes, ReaderIdle, ReaderTypes
  <2>3. CASE Peek(r)
    BY <2>3 DEF Peek, NoEarlyReader, OneSetup, ReaderGoes, ReaderIdle, ReaderTypes
  <2>4. CASE Enter(r)
    BY <2>4 DEF Enter, NoEarlyReader, OneSetup, ReaderGoes, ReaderIdle, ReaderTypes
  <2>5. CASE Check(r)
    BY <2>5 DEF Check, NoEarlyReader, OneSetup, ReaderGoes, ReaderIdle, ReaderTypes
  <2>6. CASE Retry(r)
    BY <2>6 DEF Retry, NoEarlyReader, OneSetup, ReaderGoes, ReaderIdle, ReaderTypes
  <2>7. CASE CopyBegins(r)
    BY <2>7 DEF CopyBegins, NoEarlyReader, OneSetup, ReaderGoes, ReaderIdle, ReaderTypes
  <2>8. CASE CopyEnds(r)
    BY <2>8 DEF CopyEnds, NoEarlyReader, OneSetup, ReaderGoes, ReaderIdle, ReaderTypes
  <2>9. CASE Leave(r)
    BY <2>9 DEF Leave, NoEarlyReader, OneSetup, ReaderGoes, ReaderIdle, ReaderTypes
  <2> QED
    BY <1>2, <2>1, <2>2, <2>3, <2>4, <2>5, <2>6, <2>7, <2>8, <2>9 DEF ReaderStep
<1>3. CASE Setup \/ Close \/ ControlStep
  <2>1. CASE Setup
    BY <2>1 DEF Setup, NoEarlyReader, OneSetup, ControlTypes
  <2>2. CASE Close
    BY <2>2 DEF Close, NoEarlyReader, OneSetup, ControlTypes
  <2>3. CASE ReleaseFlag
    BY <2>3 DEF ReleaseFlag, NoEarlyReader, OneSetup, ControlTypes
  <2>4. CASE ReleaseRead
    BY <2>4 DEF ReleaseRead, NoEarlyReader, OneSetup, ControlTypes
  <2>5. CASE ReleaseWait
    BY <2>5 DEF ReleaseWait, NoEarlyReader, OneSetup, ControlTypes
  <2>6. CASE ReleaseFree
    BY <2>6 DEF ReleaseFree, NoEarlyReader, OneSetup, ControlTypes
  <2>7. CASE ReleaseReset
    BY <2>7 DEF ReleaseReset, NoEarlyReader, OneSetup, ControlTypes
  <2>8. CASE ReleaseEnd
    BY <2>8 DEF ReleaseEnd, NoEarlyReader, OneSetup, ControlTypes
  <2>9. CASE Alloc
    BY <2>9 DEF Alloc, NoEarlyReader, OneSetup, ControlTypes
  <2>10. CASE AllocFails
    BY <2>10 DEF AllocFails, NoEarlyReader, OneSetup, ControlTypes
  <2>11. CASE AllocDone
    BY <2>11 DEF AllocDone, NoEarlyReader, OneSetup, ControlTypes
  <2>12. CASE Listen
    BY <2>12 DEF Listen, NoEarlyReader, OneSetup, ControlTypes
  <2> QED
    BY <1>3, <2>1, <2>2, <2>3, <2>4, <2>5, <2>6, <2>7, <2>8, <2>9, <2>10, <2>11, <2>12 DEF ControlStep
<1> QED
  BY <1>1, <1>2, <1>3 DEF Next

\* The writer's buffer is its own.
LEMMA WriterAloneKept ==
  ASSUME MaxSetups <= 1, IInv, SafeInv, Next
  PROVE  WriterAlone'
<1> USE ConstantsAssumption
    DEF ConstantsAssumption, IInv, SafeInv, Buffers, NoBuffer, sharedVars, writerVars, readerVars, controlVars
<1>1. CASE FrameArrives \/ WriterStep
  <2>1. CASE FrameArrives
    BY <2>1 DEF FrameArrives, WriterAlone, Locked, OneSetup, TryNext, WriterIdle, WriterHasBuffer
  <2>2. CASE Scan
    BY <2>2 DEF Scan, WriterAlone, Locked, OneSetup, TryNext, WriterIdle, WriterHasBuffer
  <2>3. CASE Claim
    BY <2>3 DEF Claim, WriterAlone, Locked, OneSetup, TryNext, WriterIdle, WriterHasBuffer
  <2>4. CASE Recheck
    <3>1. CASE count[wbuf] > 0 \/ read = wbuf \/ ~ready
      BY <2>4, <3>1 DEF Recheck, WriterAlone, TryNext
    <3>2. CASE ~(count[wbuf] > 0 \/ read = wbuf \/ ~ready)
      <4>1. count[wbuf] <= 0 /\ wbuf \in Buffers /\ ~Spent(wbuf)
        BY <2>4, <3>2 DEF Recheck, WriterAlone, WriterHasBuffer, MarkTypes, Spent
      <4>2. \A r \in Readers : Locked(r) => rbuf[r] # wbuf
        BY <4>1, NoHolder
      <4> QED
        BY <2>4, <3>2, <4>2 DEF Recheck, WriterAlone, Locked
    <3> QED
      BY <3>1, <3>2
  <2>5. CASE LockFrame
    BY <2>5 DEF LockFrame, WriterAlone, Locked, OneSetup, TryNext, WriterIdle, WriterHasBuffer
  <2>6. CASE WriteEnds
    BY <2>6 DEF WriteEnds, WriterAlone, Locked, OneSetup, TryNext, WriterIdle, WriterHasBuffer
  <2>7. CASE Commit
    BY <2>7 DEF Commit, WriterAlone, Locked, OneSetup, TryNext, WriterIdle, WriterHasBuffer
  <2>8. CASE Publish
    BY <2>8 DEF Publish, WriterAlone, Locked, OneSetup, TryNext, WriterIdle, WriterHasBuffer
  <2>9. CASE Drop
    BY <2>9 DEF Drop, WriterAlone, Locked, OneSetup, TryNext, WriterIdle, WriterHasBuffer
  <2> QED
    BY <1>1, <2>1, <2>2, <2>3, <2>4, <2>5, <2>6, <2>7, <2>8, <2>9 DEF WriterStep
<1>2. ASSUME NEW r \in Readers, Screenshot(r) \/ ReaderStep(r) PROVE WriterAlone'
  <2>1. CASE Screenshot(r)
    BY <2>1 DEF Screenshot, WriterAlone, Locked, ReaderGoes, ReaderIdle, ReaderTypes
  <2>2. CASE Load(r)
    <3>1. ~Locked(r)' /\ \A q \in Readers \ {r} : rbuf'[q] = rbuf[q] /\ rpc'[q] = rpc[q]
      BY <2>2 DEF Load, ReaderGoes, ReaderIdle, ReaderTypes, Locked
    <3> QED
      BY <2>2, <3>1, <1>2, ReaderKeeps DEF WriterAlone, Locked
  <2>3. CASE Peek(r)
    BY <2>3 DEF Peek, WriterAlone, Locked, ReaderGoes, ReaderIdle, ReaderTypes
  <2>4. CASE Enter(r)
    BY <2>4 DEF Enter, WriterAlone, Locked, ReaderGoes, ReaderIdle, ReaderTypes
  <2>5. CASE Check(r)
    BY <2>5 DEF Check, WriterAlone, Locked, ReaderGoes, ReaderIdle, ReaderTypes
  <2>6. CASE Retry(r)
    <3>1. ~Locked(r)' /\ \A q \in Readers \ {r} : rbuf'[q] = rbuf[q] /\ rpc'[q] = rpc[q]
      BY <2>6 DEF Retry, ReaderGoes, ReaderIdle, ReaderTypes, Locked
    <3> QED
      BY <2>6, <3>1, <1>2, ReaderKeeps DEF WriterAlone, Locked
  <2>7. CASE CopyBegins(r)
    BY <2>7 DEF CopyBegins, WriterAlone, Locked, ReaderGoes, ReaderIdle, ReaderTypes
  <2>8. CASE CopyEnds(r)
    BY <2>8 DEF CopyEnds, WriterAlone, Locked, ReaderGoes, ReaderIdle, ReaderTypes
  <2>9. CASE Leave(r)
    BY <2>9 DEF Leave, WriterAlone, Locked, ReaderGoes, ReaderIdle, ReaderTypes
  <2> QED
    BY <1>2, <2>1, <2>2, <2>3, <2>4, <2>5, <2>6, <2>7, <2>8, <2>9 DEF ReaderStep
<1>3. CASE Setup \/ Close \/ ControlStep
  <2>1. CASE Setup
    BY <2>1 DEF Setup, WriterAlone, Locked, OneSetup
  <2>2. CASE Close
    BY <2>2 DEF Close, WriterAlone, Locked, OneSetup
  <2>3. CASE ReleaseFlag
    BY <2>3 DEF ReleaseFlag, WriterAlone, Locked, OneSetup
  <2>4. CASE ReleaseRead
    BY <2>4 DEF ReleaseRead, WriterAlone, Locked, OneSetup
  <2>5. CASE ReleaseWait
    BY <2>5 DEF ReleaseWait, WriterAlone, Locked, OneSetup
  <2>6. CASE ReleaseFree
    BY <2>6 DEF ReleaseFree, WriterAlone, Locked, OneSetup
  <2>7. CASE ReleaseReset
    BY <2>7 DEF ReleaseReset, WriterAlone, Locked, OneSetup
  <2>8. CASE ReleaseEnd
    BY <2>8 DEF ReleaseEnd, WriterAlone, Locked, OneSetup
  <2>9. CASE Alloc
    BY <2>9 DEF Alloc, WriterAlone, Locked, OneSetup
  <2>10. CASE AllocFails
    BY <2>10 DEF AllocFails, WriterAlone, Locked, OneSetup
  <2>11. CASE AllocDone
    BY <2>11 DEF AllocDone, WriterAlone, Locked, OneSetup
  <2>12. CASE Listen
    BY <2>12 DEF Listen, WriterAlone, Locked, OneSetup
  <2> QED
    BY <1>3, <2>1, <2>2, <2>3, <2>4, <2>5, <2>6, <2>7, <2>8, <2>9, <2>10, <2>11, <2>12 DEF ControlStep
<1> QED
  BY <1>1, <1>2, <1>3 DEF Next

\* The counts stay exact until the teardown has come by.
LEMMA CountsExactKept ==
  ASSUME MaxSetups <= 1, IInv, SafeInv, Next
  PROVE  CountsExact'
<1> USE ConstantsAssumption
    DEF ConstantsAssumption, IInv, SafeInv, Buffers, NoBuffer, sharedVars, writerVars, readerVars, controlVars
<1>1. CASE FrameArrives \/ WriterStep
  BY <1>1, WriterKeeps DEF CountsExact, Spent, Holders
<1>2. ASSUME NEW r \in Readers, Screenshot(r) \/ ReaderStep(r) PROVE CountsExact'
  <2>1. CASE Screenshot(r)
    BY <2>1, ReaderStays, ReaderKeeps, <1>2 DEF Screenshot, CountsExact, Spent
  <2>2. CASE Load(r)
    BY <2>2, ReaderStays, ReaderKeeps, <1>2 DEF Load, CountsExact, Spent
  <2>3. CASE Peek(r)
    BY <2>3, ReaderStays, ReaderKeeps, <1>2 DEF Peek, CountsExact, Spent
  <2>4. CASE Enter(r)
    <3> SUFFICES ASSUME NEW b \in Buffers, ~Spent(b)
                 PROVE  count'[b] = Cardinality(Holders(b)')
      BY <2>4 DEF CountsExact, Spent, Enter
    <3>1. count[b] = Cardinality(Holders(b))
      BY DEF CountsExact
    <3>2. CASE b = rbuf[r]
      <4>1. r \notin Holders(b) /\ Holders(b)' = Holders(b) \cup {r} /\ IsFiniteSet(Holders(b))
        BY <2>4, <3>2, ReaderJoins, HoldersFinite
      <4>2. Cardinality(Holders(b)') = Cardinality(Holders(b)) + 1
        BY <4>1, FS_AddElement, Zenon
      <4> QED
        BY <2>4, <3>1, <3>2, <4>2 DEF Enter, MarkTypes
    <3>3. CASE b # rbuf[r]
      BY <2>4, <3>1, <3>3, ReaderJoins DEF Enter, MarkTypes
    <3> QED
      BY <3>2, <3>3
  <2>5. CASE Check(r)
    BY <2>5, ReaderStays, ReaderKeeps, <1>2 DEF Check, CountsExact, Spent
  <2>6. CASE Retry(r)
    <3> SUFFICES ASSUME NEW b \in Buffers, ~Spent(b)
                 PROVE  count'[b] = Cardinality(Holders(b)')
      BY <2>6 DEF CountsExact, Spent, Retry
    <3>1. count[b] = Cardinality(Holders(b))
      BY DEF CountsExact
    <3>2. CASE b = rbuf[r]
      <4>1. r \in Holders(b) /\ Holders(b)' = Holders(b) \ {r} /\ IsFiniteSet(Holders(b))
        BY <2>6, <3>2, ReaderParts, HoldersFinite
      <4>2. Cardinality(Holders(b)') = Cardinality(Holders(b)) - 1
        BY <4>1, FS_RemoveElement, Zenon
      <4> QED
        BY <2>6, <3>1, <3>2, <4>2 DEF Retry, MarkTypes
    <3>3. CASE b # rbuf[r]
      <4>1. Holders(b)' = Holders(b)
        BY <2>6, <3>3, ReaderParts
      <4> QED
        BY <2>6, <3>1, <3>3, <4>1 DEF Retry, MarkTypes
    <3> QED
      BY <3>2, <3>3
  <2>7. CASE CopyBegins(r)
    BY <2>7, ReaderStays, ReaderKeeps, <1>2 DEF CopyBegins, CountsExact, Spent
  <2>8. CASE CopyEnds(r)
    BY <2>8, ReaderStays, ReaderKeeps, <1>2 DEF CopyEnds, CountsExact, Spent
  <2>9. CASE Leave(r)
    <3> SUFFICES ASSUME NEW b \in Buffers, ~Spent(b)
                 PROVE  count'[b] = Cardinality(Holders(b)')
      BY <2>9 DEF CountsExact, Spent, Leave
    <3>1. count[b] = Cardinality(Holders(b))
      BY DEF CountsExact
    <3>2. CASE b = rbuf[r]
      <4>1. r \in Holders(b) /\ Holders(b)' = Holders(b) \ {r} /\ IsFiniteSet(Holders(b))
        BY <2>9, <3>2, ReaderParts, HoldersFinite
      <4>2. Cardinality(Holders(b)') = Cardinality(Holders(b)) - 1
        BY <4>1, FS_RemoveElement, Zenon
      <4> QED
        BY <2>9, <3>1, <3>2, <4>2 DEF Leave, MarkTypes
    <3>3. CASE b # rbuf[r]
      <4>1. Holders(b)' = Holders(b)
        BY <2>9, <3>3, ReaderParts
      <4> QED
        BY <2>9, <3>1, <3>3, <4>1 DEF Leave, MarkTypes
    <3> QED
      BY <3>2, <3>3
  <2> QED
    BY <1>2, <2>1, <2>2, <2>3, <2>4, <2>5, <2>6, <2>7, <2>8, <2>9 DEF ReaderStep
<1>3. CASE Setup \/ Close \/ ControlStep
  <2>1. CASE Setup
    BY <2>1 DEF Setup, CountsExact, Spent, Holders, OneSetup, MarkTypes, ControlTypes
  <2>2. CASE Close
    BY <2>2 DEF Close, CountsExact, Spent, Holders, OneSetup, MarkTypes, ControlTypes
  <2>3. CASE ReleaseFlag
    BY <2>3 DEF ReleaseFlag, CountsExact, Spent, Holders, OneSetup, MarkTypes, ControlTypes
  <2>4. CASE ReleaseRead
    BY <2>4 DEF ReleaseRead, CountsExact, Spent, Holders, OneSetup, MarkTypes, ControlTypes
  <2>5. CASE ReleaseWait
    BY <2>5 DEF ReleaseWait, CountsExact, Spent, Holders, OneSetup, MarkTypes, ControlTypes
  <2>6. CASE ReleaseFree
    BY <2>6 DEF ReleaseFree, CountsExact, Spent, Holders, OneSetup, MarkTypes, ControlTypes
  <2>7. CASE ReleaseReset
    <3>1. CASE rebuild
      <4>1. \A b \in Buffers : Holders(b)' = {} /\ Holders(b) = {}
        BY <2>7, <3>1 DEF ReleaseReset, NoEarlyReader, Holders, CountedIn
      <4>2. Cardinality({}) = 0
        BY FS_EmptySet
      <4> QED
        BY <2>7, <3>1, <4>1, <4>2 DEF ReleaseReset, CountsExact, Spent, MarkTypes
    <3>2. CASE ~rebuild
      <4>1. \A b \in Buffers : Holders(b)' = Holders(b)
        BY <1>3, ControlKeeps DEF Holders
      <4>2. \A b \in Buffers : ~Spent(b)' => ~Spent(b) /\ b # cbuf
        BY <2>7, <3>2 DEF ReleaseReset, Spent, OneSetup
      <4> QED
        BY <2>7, <4>1, <4>2 DEF ReleaseReset, CountsExact, MarkTypes
    <3> QED
      BY <3>1, <3>2
  <2>8. CASE ReleaseEnd
    BY <2>8 DEF ReleaseEnd, CountsExact, Spent, Holders, OneSetup, MarkTypes, ControlTypes
  <2>9. CASE Alloc
    <3>1. \A b \in Buffers : Holders(b)' = {} /\ Holders(b) = {}
      BY <2>9 DEF Alloc, NoEarlyReader, Holders, CountedIn
    <3>2. Cardinality({}) = 0
      BY FS_EmptySet
    <3> QED
      BY <2>9, <3>1, <3>2 DEF Alloc, CountsExact, Spent, MarkTypes
  <2>10. CASE AllocFails
    <3>1. \A b \in Buffers : Holders(b)' = {} /\ Holders(b) = {}
      BY <2>10 DEF AllocFails, NoEarlyReader, Holders, CountedIn
    <3>2. Cardinality({}) = 0
      BY FS_EmptySet
    <3> QED
      BY <2>10, <3>1, <3>2 DEF AllocFails, CountsExact, Spent, MarkTypes
  <2>11. CASE AllocDone
    BY <2>11 DEF AllocDone, CountsExact, Spent, Holders, OneSetup, MarkTypes, ControlTypes
  <2>12. CASE Listen
    BY <2>12 DEF Listen, CountsExact, Spent, Holders, OneSetup, MarkTypes, ControlTypes
  <2> QED
    BY <1>3, <2>1, <2>2, <2>3, <2>4, <2>5, <2>6, <2>7, <2>8, <2>9, <2>10, <2>11, <2>12 DEF ControlStep
<1> QED
  BY <1>1, <1>2, <1>3 DEF Next

\* The read buffer stays the latest frame.
LEMMA ReadIsLatestKept ==
  ASSUME MaxSetups <= 1, IInv, SafeInv, Next
  PROVE  ReadIsLatest'
<1> USE ConstantsAssumption
    DEF ConstantsAssumption, IInv, SafeInv, Buffers, NoBuffer, sharedVars, writerVars, readerVars, controlVars
<1>1. CASE FrameArrives \/ WriterStep
  <2>1. CASE FrameArrives
    BY <2>1 DEF FrameArrives, ReadIsLatest, Latest, WriterAlone, WriterIdle, TryNext, MemoryTypes, MarkTypes, WriterHasBuffer, RoomForFrame, FrameNumbers
  <2>2. CASE Scan
    BY <2>2 DEF Scan, ReadIsLatest, Latest, WriterAlone, WriterIdle, TryNext, MemoryTypes, MarkTypes, WriterHasBuffer, RoomForFrame, FrameNumbers
  <2>3. CASE Claim
    BY <2>3 DEF Claim, ReadIsLatest, Latest, WriterAlone, WriterIdle, TryNext, MemoryTypes, MarkTypes, WriterHasBuffer, RoomForFrame, FrameNumbers
  <2>4. CASE Recheck
    BY <2>4 DEF Recheck, ReadIsLatest, Latest, WriterAlone, WriterIdle, TryNext, MemoryTypes, MarkTypes, WriterHasBuffer, RoomForFrame, FrameNumbers
  <2>5. CASE LockFrame
    BY <2>5 DEF LockFrame, ReadIsLatest, Latest, WriterAlone, WriterIdle, TryNext, MemoryTypes, MarkTypes, WriterHasBuffer, RoomForFrame, FrameNumbers
  <2>6. CASE WriteEnds
    BY <2>6 DEF WriteEnds, ReadIsLatest, Latest, WriterAlone, WriterIdle, TryNext, MemoryTypes, MarkTypes, WriterHasBuffer, RoomForFrame, FrameNumbers
  <2>7. CASE Commit
    BY <2>7 DEF Commit, ReadIsLatest, Latest, WriterAlone, WriterIdle, TryNext, MemoryTypes, MarkTypes, WriterHasBuffer, RoomForFrame, FrameNumbers
  <2>8. CASE Publish
    BY <2>8 DEF Publish, ReadIsLatest, Latest, WriterAlone, WriterIdle, TryNext, MemoryTypes, MarkTypes, WriterHasBuffer, RoomForFrame, FrameNumbers
  <2>9. CASE Drop
    BY <2>9 DEF Drop, ReadIsLatest, Latest, WriterAlone, WriterIdle, TryNext, MemoryTypes, MarkTypes, WriterHasBuffer, RoomForFrame, FrameNumbers
  <2> QED
    BY <1>1, <2>1, <2>2, <2>3, <2>4, <2>5, <2>6, <2>7, <2>8, <2>9 DEF WriterStep
<1>2. ASSUME NEW r \in Readers, Screenshot(r) \/ ReaderStep(r) PROVE ReadIsLatest'
  BY <1>2, ReaderKeeps DEF ReadIsLatest, Latest
<1>3. CASE Setup \/ Close \/ ControlStep
  <2>1. CASE Setup
    BY <2>1 DEF Setup, ReadIsLatest, Latest, WriterAlone, OneSetup, MemoryTypes
  <2>2. CASE Close
    BY <2>2 DEF Close, ReadIsLatest, Latest, WriterAlone, OneSetup, MemoryTypes
  <2>3. CASE ReleaseFlag
    BY <2>3 DEF ReleaseFlag, ReadIsLatest, Latest, WriterAlone, OneSetup, MemoryTypes
  <2>4. CASE ReleaseRead
    BY <2>4 DEF ReleaseRead, ReadIsLatest, Latest, WriterAlone, OneSetup, MemoryTypes
  <2>5. CASE ReleaseWait
    BY <2>5 DEF ReleaseWait, ReadIsLatest, Latest, WriterAlone, OneSetup, MemoryTypes
  <2>6. CASE ReleaseFree
    BY <2>6 DEF ReleaseFree, ReadIsLatest, Latest, WriterAlone, OneSetup, MemoryTypes
  <2>7. CASE ReleaseReset
    BY <2>7 DEF ReleaseReset, ReadIsLatest, Latest, WriterAlone, OneSetup, MemoryTypes
  <2>8. CASE ReleaseEnd
    BY <2>8 DEF ReleaseEnd, ReadIsLatest, Latest, WriterAlone, OneSetup, MemoryTypes
  <2>9. CASE Alloc
    BY <2>9 DEF Alloc, ReadIsLatest, Latest, WriterAlone, OneSetup, MemoryTypes
  <2>10. CASE AllocFails
    BY <2>10 DEF AllocFails, ReadIsLatest, Latest, WriterAlone, OneSetup, MemoryTypes
  <2>11. CASE AllocDone
    BY <2>11 DEF AllocDone, ReadIsLatest, Latest, WriterAlone, OneSetup, MemoryTypes
  <2>12. CASE Listen
    BY <2>12 DEF Listen, ReadIsLatest, Latest, WriterAlone, OneSetup, MemoryTypes
  <2> QED
    BY <1>3, <2>1, <2>2, <2>3, <2>4, <2>5, <2>6, <2>7, <2>8, <2>9, <2>10, <2>11, <2>12 DEF ControlStep
<1> QED
  BY <1>1, <1>2, <1>3 DEF Next

\* A locked buffer stays a whole frame.
LEMMA LockedIsWholeKept ==
  ASSUME MaxSetups <= 1, IInv, SafeInv, Next
  PROVE  LockedIsWhole'
<1> USE ConstantsAssumption
    DEF ConstantsAssumption, IInv, SafeInv, Buffers, NoBuffer, sharedVars, writerVars, readerVars, controlVars
<1>1. CASE FrameArrives \/ WriterStep
  <2>1. CASE FrameArrives
    BY <2>1 DEF FrameArrives, LockedIsWhole, Locked, Freed, Spent, WriterAlone, MemoryTypes, WriterIdle, ReaderHasBuffer, CountedIn
  <2>2. CASE Scan
    BY <2>2 DEF Scan, LockedIsWhole, Locked, Freed, Spent, WriterAlone, MemoryTypes, WriterIdle, ReaderHasBuffer, CountedIn
  <2>3. CASE Claim
    BY <2>3 DEF Claim, LockedIsWhole, Locked, Freed, Spent, WriterAlone, MemoryTypes, WriterIdle, ReaderHasBuffer, CountedIn
  <2>4. CASE Recheck
    BY <2>4 DEF Recheck, LockedIsWhole, Locked, Freed, Spent, WriterAlone, MemoryTypes, WriterIdle, ReaderHasBuffer, CountedIn
  <2>5. CASE LockFrame
    BY <2>5 DEF LockFrame, LockedIsWhole, Locked, Freed, Spent, WriterAlone, MemoryTypes, WriterIdle, ReaderHasBuffer, CountedIn
  <2>6. CASE WriteEnds
    BY <2>6 DEF WriteEnds, LockedIsWhole, Locked, Freed, Spent, WriterAlone, MemoryTypes, WriterIdle, ReaderHasBuffer, CountedIn
  <2>7. CASE Commit
    BY <2>7 DEF Commit, LockedIsWhole, Locked, Freed, Spent, WriterAlone, MemoryTypes, WriterIdle, ReaderHasBuffer, CountedIn
  <2>8. CASE Publish
    BY <2>8 DEF Publish, LockedIsWhole, Locked, Freed, Spent, WriterAlone, MemoryTypes, WriterIdle, ReaderHasBuffer, CountedIn
  <2>9. CASE Drop
    BY <2>9 DEF Drop, LockedIsWhole, Locked, Freed, Spent, WriterAlone, MemoryTypes, WriterIdle, ReaderHasBuffer, CountedIn
  <2> QED
    BY <1>1, <2>1, <2>2, <2>3, <2>4, <2>5, <2>6, <2>7, <2>8, <2>9 DEF WriterStep
<1>2. ASSUME NEW r \in Readers, Screenshot(r) \/ ReaderStep(r) PROVE LockedIsWhole'
  <2>1. CASE Screenshot(r)
    BY <2>1 DEF Screenshot, LockedIsWhole, Locked, Freed, Spent, OneSetup, ReadIsLatest, ReaderGoes, ReaderIdle, ReaderTypes, MarkTypes, ReaderHasBuffer, CountedIn
  <2>2. CASE Load(r)
    BY <2>2 DEF Load, LockedIsWhole, Locked, Freed, Spent, OneSetup, ReadIsLatest, ReaderGoes, ReaderIdle, ReaderTypes, MarkTypes, ReaderHasBuffer, CountedIn
  <2>3. CASE Peek(r)
    BY <2>3 DEF Peek, LockedIsWhole, Locked, Freed, Spent, OneSetup, ReadIsLatest, ReaderGoes, ReaderIdle, ReaderTypes, MarkTypes, ReaderHasBuffer, CountedIn
  <2>4. CASE Enter(r)
    BY <2>4 DEF Enter, LockedIsWhole, Locked, Freed, Spent, OneSetup, ReadIsLatest, ReaderGoes, ReaderIdle, ReaderTypes, MarkTypes, ReaderHasBuffer, CountedIn
  <2>5. CASE Check(r)
    BY <2>5 DEF Check, LockedIsWhole, Locked, Freed, Spent, OneSetup, ReadIsLatest, ReaderGoes, ReaderIdle, ReaderTypes, MarkTypes, ReaderHasBuffer, CountedIn
  <2>6. CASE Retry(r)
    BY <2>6 DEF Retry, LockedIsWhole, Locked, Freed, Spent, OneSetup, ReadIsLatest, ReaderGoes, ReaderIdle, ReaderTypes, MarkTypes, ReaderHasBuffer, CountedIn
  <2>7. CASE CopyBegins(r)
    BY <2>7 DEF CopyBegins, LockedIsWhole, Locked, Freed, Spent, OneSetup, ReadIsLatest, ReaderGoes, ReaderIdle, ReaderTypes, MarkTypes, ReaderHasBuffer, CountedIn
  <2>8. CASE CopyEnds(r)
    BY <2>8 DEF CopyEnds, LockedIsWhole, Locked, Freed, Spent, OneSetup, ReadIsLatest, ReaderGoes, ReaderIdle, ReaderTypes, MarkTypes, ReaderHasBuffer, CountedIn
  <2>9. CASE Leave(r)
    BY <2>9 DEF Leave, LockedIsWhole, Locked, Freed, Spent, OneSetup, ReadIsLatest, ReaderGoes, ReaderIdle, ReaderTypes, MarkTypes, ReaderHasBuffer, CountedIn
  <2> QED
    BY <1>2, <2>1, <2>2, <2>3, <2>4, <2>5, <2>6, <2>7, <2>8, <2>9 DEF ReaderStep
<1>3. CASE Setup \/ Close \/ ControlStep
  <2>1. CASE Setup
    BY <2>1 DEF Setup, LockedIsWhole, Locked, Freed, Spent, OneSetup, ReaderHasBuffer, CountedIn, MemoryTypes, MarkTypes, NoEarlyReader
  <2>2. CASE Close
    BY <2>2 DEF Close, LockedIsWhole, Locked, Freed, Spent, OneSetup, ReaderHasBuffer, CountedIn, MemoryTypes, MarkTypes, NoEarlyReader
  <2>3. CASE ReleaseFlag
    BY <2>3 DEF ReleaseFlag, LockedIsWhole, Locked, Freed, Spent, OneSetup, ReaderHasBuffer, CountedIn, MemoryTypes, MarkTypes, NoEarlyReader
  <2>4. CASE ReleaseRead
    BY <2>4 DEF ReleaseRead, LockedIsWhole, Locked, Freed, Spent, OneSetup, ReaderHasBuffer, CountedIn, MemoryTypes, MarkTypes, NoEarlyReader
  <2>5. CASE ReleaseWait
    <3>1. \A r \in Readers : Locked(r) => rbuf[r] # cbuf
      <4>1. CASE rebuild
        BY <2>5, <4>1 DEF ReleaseWait, NoEarlyReader, Locked
      <4>2. CASE ~rebuild
        BY <2>5, <4>2, NoHolder DEF ReleaseWait, OneSetup, Spent, MarkTypes
      <4> QED
        BY <4>1, <4>2
    <3> QED
      BY <2>5, <3>1 DEF ReleaseWait, LockedIsWhole, Locked, Freed, Spent
  <2>6. CASE ReleaseFree
    BY <2>6 DEF ReleaseFree, LockedIsWhole, Locked, Freed, Spent, OneSetup, ReaderHasBuffer, CountedIn, MemoryTypes, MarkTypes, NoEarlyReader
  <2>7. CASE ReleaseReset
    <3>1. \A b \in Buffers : Freed(b)' => Freed(b)
      BY <2>7 DEF ReleaseReset, Freed, Spent, OneSetup
    <3>2. \A r \in Readers : Locked(r) => rbuf[r] \in Buffers
      BY DEF Locked, ReaderHasBuffer, CountedIn
    <3> QED
      BY <2>7, <3>1, <3>2 DEF ReleaseReset, LockedIsWhole, Locked
  <2>8. CASE ReleaseEnd
    BY <2>8 DEF ReleaseEnd, LockedIsWhole, Locked, Freed, Spent, OneSetup, ReaderHasBuffer, CountedIn, MemoryTypes, MarkTypes, NoEarlyReader
  <2>9. CASE Alloc
    BY <2>9 DEF Alloc, LockedIsWhole, Locked, Freed, Spent, OneSetup, ReaderHasBuffer, CountedIn, MemoryTypes, MarkTypes, NoEarlyReader
  <2>10. CASE AllocFails
    BY <2>10 DEF AllocFails, LockedIsWhole, Locked, Freed, Spent, OneSetup, ReaderHasBuffer, CountedIn, MemoryTypes, MarkTypes, NoEarlyReader
  <2>11. CASE AllocDone
    BY <2>11 DEF AllocDone, LockedIsWhole, Locked, Freed, Spent, OneSetup, ReaderHasBuffer, CountedIn, MemoryTypes, MarkTypes, NoEarlyReader
  <2>12. CASE Listen
    BY <2>12 DEF Listen, LockedIsWhole, Locked, Freed, Spent, OneSetup, ReaderHasBuffer, CountedIn, MemoryTypes, MarkTypes, NoEarlyReader
  <2> QED
    BY <1>3, <2>1, <2>2, <2>3, <2>4, <2>5, <2>6, <2>7, <2>8, <2>9, <2>10, <2>11, <2>12 DEF ControlStep
<1> QED
  BY <1>1, <1>2, <1>3 DEF Next

\* A copy is the frame of the locked buffer.
LEMMA CopyIsFrameKept ==
  ASSUME MaxSetups <= 1, IInv, SafeInv, Next
  PROVE  CopyIsFrame'
<1> USE ConstantsAssumption
    DEF ConstantsAssumption, IInv, SafeInv, Buffers, NoBuffer, sharedVars, writerVars, readerVars, controlVars
<1>1. CASE FrameArrives \/ WriterStep
  <2>1. CASE FrameArrives
    BY <2>1 DEF FrameArrives, CopyIsFrame, WriterAlone, Locked, MemoryTypes
  <2>2. CASE Scan
    BY <2>2 DEF Scan, CopyIsFrame, WriterAlone, Locked, MemoryTypes
  <2>3. CASE Claim
    BY <2>3 DEF Claim, CopyIsFrame, WriterAlone, Locked, MemoryTypes
  <2>4. CASE Recheck
    BY <2>4 DEF Recheck, CopyIsFrame, WriterAlone, Locked, MemoryTypes
  <2>5. CASE LockFrame
    BY <2>5 DEF LockFrame, CopyIsFrame, WriterAlone, Locked, MemoryTypes
  <2>6. CASE WriteEnds
    BY <2>6 DEF WriteEnds, CopyIsFrame, WriterAlone, Locked, MemoryTypes
  <2>7. CASE Commit
    BY <2>7 DEF Commit, CopyIsFrame, WriterAlone, Locked, MemoryTypes
  <2>8. CASE Publish
    BY <2>8 DEF Publish, CopyIsFrame, WriterAlone, Locked, MemoryTypes
  <2>9. CASE Drop
    BY <2>9 DEF Drop, CopyIsFrame, WriterAlone, Locked, MemoryTypes
  <2> QED
    BY <1>1, <2>1, <2>2, <2>3, <2>4, <2>5, <2>6, <2>7, <2>8, <2>9 DEF WriterStep
<1>2. ASSUME NEW r \in Readers, Screenshot(r) \/ ReaderStep(r) PROVE CopyIsFrame'
  <2>1. CASE Screenshot(r)
    BY <2>1 DEF Screenshot, CopyIsFrame, ReaderGoes, ReaderIdle, ReaderTypes, LockedIsWhole, Locked, MemoryTypes, Gone, FrameNumbers, Blank
  <2>2. CASE Load(r)
    BY <2>2 DEF Load, CopyIsFrame, ReaderGoes, ReaderIdle, ReaderTypes, LockedIsWhole, Locked, MemoryTypes, Gone, FrameNumbers, Blank
  <2>3. CASE Peek(r)
    <3>1. /\ rpc' = [rpc EXCEPT ![r] = rpc'[r]] /\ rpc'[r] \notin {"copy", "leave"}
          /\ \A q \in Readers : copy'[q] = IF q = r THEN Blank ELSE copy[q]
          /\ \A q \in Readers \ {r} : rbuf'[q] = rbuf[q]
      BY <2>3 DEF Peek, ReaderGoes, ReaderIdle, ReaderTypes, CopyIsFrame
    <3> QED
      BY <2>3, <3>1 DEF Peek, CopyIsFrame, ReaderTypes
  <2>4. CASE Enter(r)
    BY <2>4 DEF Enter, CopyIsFrame, ReaderGoes, ReaderIdle, ReaderTypes, LockedIsWhole, Locked, MemoryTypes, Gone, FrameNumbers, Blank
  <2>5. CASE Check(r)
    BY <2>5 DEF Check, CopyIsFrame, ReaderGoes, ReaderIdle, ReaderTypes, LockedIsWhole, Locked, MemoryTypes, Gone, FrameNumbers, Blank
  <2>6. CASE Retry(r)
    BY <2>6 DEF Retry, CopyIsFrame, ReaderGoes, ReaderIdle, ReaderTypes, LockedIsWhole, Locked, MemoryTypes, Gone, FrameNumbers, Blank
  <2>7. CASE CopyBegins(r)
    BY <2>7 DEF CopyBegins, CopyIsFrame, ReaderGoes, ReaderIdle, ReaderTypes, LockedIsWhole, Locked, MemoryTypes, Gone, FrameNumbers, Blank
  <2>8. CASE CopyEnds(r)
    BY <2>8 DEF CopyEnds, CopyIsFrame, ReaderGoes, ReaderIdle, ReaderTypes, LockedIsWhole, Locked, MemoryTypes, Gone, FrameNumbers, Blank
  <2>9. CASE Leave(r)
    BY <2>9 DEF Leave, CopyIsFrame, ReaderGoes, ReaderIdle, ReaderTypes, LockedIsWhole, Locked, MemoryTypes, Gone, FrameNumbers, Blank
  <2> QED
    BY <1>2, <2>1, <2>2, <2>3, <2>4, <2>5, <2>6, <2>7, <2>8, <2>9 DEF ReaderStep
<1>3. CASE Setup \/ Close \/ ControlStep
  <2>1. CASE Setup
    BY <2>1 DEF Setup, CopyIsFrame, LockedIsWhole, Locked, Freed, NoEarlyReader, MemoryTypes
  <2>2. CASE Close
    BY <2>2 DEF Close, CopyIsFrame, LockedIsWhole, Locked, Freed, NoEarlyReader, MemoryTypes
  <2>3. CASE ReleaseFlag
    BY <2>3 DEF ReleaseFlag, CopyIsFrame, LockedIsWhole, Locked, Freed, NoEarlyReader, MemoryTypes
  <2>4. CASE ReleaseRead
    BY <2>4 DEF ReleaseRead, CopyIsFrame, LockedIsWhole, Locked, Freed, NoEarlyReader, MemoryTypes
  <2>5. CASE ReleaseWait
    BY <2>5 DEF ReleaseWait, CopyIsFrame, LockedIsWhole, Locked, Freed, NoEarlyReader, MemoryTypes
  <2>6. CASE ReleaseFree
    BY <2>6 DEF ReleaseFree, CopyIsFrame, LockedIsWhole, Locked, Freed, NoEarlyReader, MemoryTypes
  <2>7. CASE ReleaseReset
    BY <2>7 DEF ReleaseReset, CopyIsFrame, LockedIsWhole, Locked, Freed, NoEarlyReader, MemoryTypes
  <2>8. CASE ReleaseEnd
    BY <2>8 DEF ReleaseEnd, CopyIsFrame, LockedIsWhole, Locked, Freed, NoEarlyReader, MemoryTypes
  <2>9. CASE Alloc
    BY <2>9 DEF Alloc, CopyIsFrame, LockedIsWhole, Locked, Freed, NoEarlyReader, MemoryTypes
  <2>10. CASE AllocFails
    BY <2>10 DEF AllocFails, CopyIsFrame, LockedIsWhole, Locked, Freed, NoEarlyReader, MemoryTypes
  <2>11. CASE AllocDone
    BY <2>11 DEF AllocDone, CopyIsFrame, LockedIsWhole, Locked, Freed, NoEarlyReader, MemoryTypes
  <2>12. CASE Listen
    BY <2>12 DEF Listen, CopyIsFrame, LockedIsWhole, Locked, Freed, NoEarlyReader, MemoryTypes
  <2> QED
    BY <1>3, <2>1, <2>2, <2>3, <2>4, <2>5, <2>6, <2>7, <2>8, <2>9, <2>10, <2>11, <2>12 DEF ControlStep
<1> QED
  BY <1>1, <1>2, <1>3 DEF Next

\* The readers a frame was dropped for are different ones.
LEMMA RivalsDifferKept ==
  ASSUME MaxSetups <= 1, IInv, SafeInv, Next
  PROVE  RivalsDiffer'
<1> USE ConstantsAssumption
    DEF ConstantsAssumption, IInv, SafeInv, Buffers, NoBuffer, sharedVars, writerVars, readerVars, controlVars
<1>1. CASE FrameArrives \/ WriterStep
  <2>1. CASE FrameArrives
    <3>1. Cardinality({}) = 0
      BY FS_EmptySet
    <3> QED
      BY <2>1, <3>1 DEF FrameArrives, RivalsDiffer, Passed
  <2>2. CASE Scan
    <3>1. CASE wbuf = seenRead
      BY <2>2, <3>1 DEF Scan, RivalsDiffer, Passed, TryNext, WriterTypes, WriterHasBuffer, ReaderTypes
    <3>2. CASE wbuf # seenRead /\ count[wbuf] > 0
      <4>1. /\ \A q \in rivals \cup Holders(wbuf) : rbuf[q] < wbuf + 1 \/ rbuf[q] = seenRead
            /\ Cardinality(rivals \cup Holders(wbuf)) \in Nat
            /\ Cardinality(rivals \cup Holders(wbuf)) >= Passed(wbuf) + 1
        BY <2>2, <3>2, RivalsMet DEF Scan
      <4>2. /\ wbuf # seenRead /\ wbuf \in Buffers /\ seenRead' = seenRead /\ rbuf' = rbuf
            /\ rivals' = rivals \cup Holders(wbuf) /\ TryNext
        BY <2>2, <3>2 DEF Scan, WriterHasBuffer, MarkTypes
      <4>3. CASE wbuf = NBuf
        <5>1. Passed(wbuf) >= NBuf - 2 /\ Passed(wbuf) \in Int
          BY <4>2, <4>3 DEF Passed
        <5> QED
          BY <4>1, <4>2, <4>3, <5>1 DEF RivalsDiffer, TryNext
      <4>4. CASE wbuf # NBuf
        <5>1. Passed(wbuf)' = Passed(wbuf) + 1
          BY <4>2, <4>4 DEF Passed, TryNext
        <5> QED
          BY <4>1, <4>2, <4>4, <5>1 DEF RivalsDiffer, TryNext
      <4> QED
        BY <4>3, <4>4
    <3>3. CASE wbuf # seenRead /\ count[wbuf] <= 0
      BY <2>2, <3>3 DEF Scan, RivalsDiffer, Passed, WriterHasBuffer, MarkTypes
    <3> QED
      BY <2>2, <3>1, <3>2, <3>3 DEF Scan
  <2>3. CASE Claim
    BY <2>3 DEF Claim, RivalsDiffer, Passed, WriterAlone, TryNext, WriterIdle, WriterTypes, WriterHasBuffer, MarkTypes
  <2>4. CASE Recheck
    <3>1. CASE count[wbuf] > 0 \/ read = wbuf \/ ~ready
      <4>1. /\ \A q \in rivals \cup Holders(wbuf) : rbuf[q] < wbuf + 1 \/ rbuf[q] = seenRead
            /\ Cardinality(rivals \cup Holders(wbuf)) \in Nat
            /\ Cardinality(rivals \cup Holders(wbuf)) >= Passed(wbuf) + 1
        BY <2>4, <3>1, RivalsMet DEF Recheck, WriterAlone
      <4>2. /\ wbuf # seenRead /\ wbuf \in Buffers /\ seenRead' = seenRead /\ rbuf' = rbuf
            /\ rivals' = rivals \cup Holders(wbuf) /\ TryNext
        BY <2>4, <3>1 DEF Recheck, WriterHasBuffer, MarkTypes, WriterAlone
      <4>3. CASE wbuf = NBuf
        <5>1. Passed(wbuf) >= NBuf - 2 /\ Passed(wbuf) \in Int
          BY <4>2, <4>3 DEF Passed
        <5> QED
          BY <4>1, <4>2, <4>3, <5>1 DEF RivalsDiffer, TryNext
      <4>4. CASE wbuf # NBuf
        <5>1. Passed(wbuf)' = Passed(wbuf) + 1
          BY <4>2, <4>4 DEF Passed, TryNext
        <5> QED
          BY <4>1, <4>2, <4>4, <5>1 DEF RivalsDiffer, TryNext
      <4> QED
        BY <4>3, <4>4
    <3>2. CASE ~(count[wbuf] > 0 \/ read = wbuf \/ ~ready)
      BY <2>4, <3>2 DEF Recheck, RivalsDiffer
    <3> QED
      BY <3>1, <3>2
  <2>5. CASE LockFrame
    BY <2>5 DEF LockFrame, RivalsDiffer, Passed, WriterAlone, TryNext, WriterIdle, WriterTypes, WriterHasBuffer, MarkTypes
  <2>6. CASE WriteEnds
    BY <2>6 DEF WriteEnds, RivalsDiffer, Passed, WriterAlone, TryNext, WriterIdle, WriterTypes, WriterHasBuffer, MarkTypes
  <2>7. CASE Commit
    BY <2>7 DEF Commit, RivalsDiffer, Passed, WriterAlone, TryNext, WriterIdle, WriterTypes, WriterHasBuffer, MarkTypes
  <2>8. CASE Publish
    BY <2>8 DEF Publish, RivalsDiffer, Passed, WriterAlone, TryNext, WriterIdle, WriterTypes, WriterHasBuffer, MarkTypes
  <2>9. CASE Drop
    BY <2>9 DEF Drop, RivalsDiffer, Passed, WriterAlone, TryNext, WriterIdle, WriterTypes, WriterHasBuffer, MarkTypes
  <2> QED
    BY <1>1, <2>1, <2>2, <2>3, <2>4, <2>5, <2>6, <2>7, <2>8, <2>9 DEF WriterStep
<1>2. ASSUME NEW r \in Readers, Screenshot(r) \/ ReaderStep(r) PROVE RivalsDiffer'
  <2>1. CASE Screenshot(r)
    BY <2>1 DEF Screenshot, RivalsDiffer, Passed, WriterAlone, WriterHasBuffer, ReaderGoes, ReaderIdle, ReaderTypes, WriterTypes, MarkTypes
  <2>2. CASE Load(r)
    <3>1. wpc # "idle" => rbuf'[r] = NoBuffer \/ rbuf'[r] = seenRead
      BY <2>2 DEF Load, ReaderIdle, ReaderTypes, WriterAlone
    <3>2. \A q \in Readers \ {r} : rbuf'[q] = rbuf[q]
      BY <2>2 DEF Load, ReaderIdle, ReaderTypes
    <3> QED
      BY <2>2, <3>1, <3>2, <1>2, ReaderKeeps DEF RivalsDiffer, Passed, WriterTypes, WriterHasBuffer
  <2>3. CASE Peek(r)
    <3>1. rbuf'[r] \in {NoBuffer, rbuf[r]} /\ \A q \in Readers \ {r} : rbuf'[q] = rbuf[q]
      BY <2>3 DEF Peek, ReaderIdle, ReaderTypes
    <3> QED
      BY <2>3, <3>1, <1>2, ReaderKeeps DEF RivalsDiffer, Passed, WriterTypes, WriterHasBuffer
  <2>4. CASE Enter(r)
    BY <2>4 DEF Enter, RivalsDiffer, Passed, WriterAlone, WriterHasBuffer, ReaderGoes, ReaderIdle, ReaderTypes, WriterTypes, MarkTypes
  <2>5. CASE Check(r)
    BY <2>5 DEF Check, RivalsDiffer, Passed, WriterAlone, WriterHasBuffer, ReaderGoes, ReaderIdle, ReaderTypes, WriterTypes, MarkTypes
  <2>6. CASE Retry(r)
    <3>1. rbuf'[r] \in {NoBuffer, rbuf[r]} /\ \A q \in Readers \ {r} : rbuf'[q] = rbuf[q]
      BY <2>6 DEF Retry, ReaderIdle, ReaderTypes
    <3> QED
      BY <2>6, <3>1, <1>2, ReaderKeeps DEF RivalsDiffer, Passed, WriterTypes, WriterHasBuffer
  <2>7. CASE CopyBegins(r)
    BY <2>7 DEF CopyBegins, RivalsDiffer, Passed, WriterAlone, WriterHasBuffer, ReaderGoes, ReaderIdle, ReaderTypes, WriterTypes, MarkTypes
  <2>8. CASE CopyEnds(r)
    BY <2>8 DEF CopyEnds, RivalsDiffer, Passed, WriterAlone, WriterHasBuffer, ReaderGoes, ReaderIdle, ReaderTypes, WriterTypes, MarkTypes
  <2>9. CASE Leave(r)
    <3>1. rbuf'[r] \in {NoBuffer, rbuf[r]} /\ \A q \in Readers \ {r} : rbuf'[q] = rbuf[q]
      BY <2>9 DEF Leave, ReaderIdle, ReaderTypes
    <3> QED
      BY <2>9, <3>1, <1>2, ReaderKeeps DEF RivalsDiffer, Passed, WriterTypes, WriterHasBuffer
  <2> QED
    BY <1>2, <2>1, <2>2, <2>3, <2>4, <2>5, <2>6, <2>7, <2>8, <2>9 DEF ReaderStep
<1>3. CASE Setup \/ Close \/ ControlStep
  BY <1>3, ControlKeeps DEF RivalsDiffer, Passed
<1> QED
  BY <1>1, <1>2, <1>3 DEF Next

\* The initial states satisfy the invariant.
LEMMA InitSafe == Init => SafeInv
<1> SUFFICES ASSUME Init PROVE SafeInv
  OBVIOUS
<1>1. OneSetup /\ NoEarlyReader /\ WriterAlone
  BY DEF Init, OneSetup, NoEarlyReader, WriterAlone
<1>2. CountsExact
  <2>1. \A b \in Buffers : Holders(b) = {} /\ count[b] = 0
    BY DEF Init, Holders, CountedIn
  <2> QED
    BY <2>1, FS_EmptySet DEF CountsExact
<1>3. ReadIsLatest /\ LockedIsWhole /\ CopyIsFrame /\ RivalsDiffer
  BY DEF Init, ReadIsLatest, LockedIsWhole, Locked, CopyIsFrame, RivalsDiffer
<1> QED
  BY <1>1, <1>2, <1>3 DEF SafeInv

LEMMA SafeKept == MaxSetups <= 1 /\ IInv /\ SafeInv /\ [Next]_vars => SafeInv'
<1> SUFFICES ASSUME MaxSetups <= 1, IInv, SafeInv, [Next]_vars PROVE SafeInv'
  OBVIOUS
<1>1. CASE Next
  BY <1>1, OneSetupKept, NoEarlyReaderKept, WriterAloneKept, CountsExactKept, ReadIsLatestKept,
     LockedIsWholeKept, CopyIsFrameKept, RivalsDifferKept DEF SafeInv
<1>2. CASE UNCHANGED vars
  BY <1>2 DEF vars, sharedVars, writerVars, readerVars, controlVars, SafeInv, OneSetup, NoEarlyReader,
     WriterAlone, CountsExact, Spent, Holders, ReadIsLatest, Latest, LockedIsWhole, Locked, Freed,
     CopyIsFrame, RivalsDiffer, Passed
<1> QED
  BY <1>1, <1>2

LEMMA AllSafe == MaxSetups <= 1 => (Spec => [](IInv /\ SafeInv))
<1> SUFFICES ASSUME MaxSetups <= 1 PROVE Spec => [](IInv /\ SafeInv)
  OBVIOUS
<1>1. IInv /\ SafeInv /\ [Next]_vars => IInv' /\ SafeInv'
  BY IInvKept, SafeKept
<1> QED
  BY InitInv, InitSafe, <1>1, PTL DEF Spec

\* One setup in a process: a reader's frame is neither rewritten nor freed
\* while the reader has it locked.
THEOREM LockedSafe == MaxSetups <= 1 => (Spec => []LockedFrameIsSafe)
<1> SUFFICES ASSUME MaxSetups <= 1 PROVE Spec => []LockedFrameIsSafe
  OBVIOUS
<1>1. SafeInv => LockedFrameIsSafe
  BY DEF SafeInv, WriterAlone, LockedIsWhole, Locked, LockedFrameIsSafe
<1> QED
  BY AllSafe, <1>1, PTL

\* One setup in a process: a frame is dropped only when each buffer besides
\* the read one had a reader of its own.
THEOREM DropsForReaders == MaxSetups <= 1 => (Spec => []DroppedOnlyForReaders)
<1> SUFFICES ASSUME MaxSetups <= 1 PROVE Spec => []DroppedOnlyForReaders
  OBVIOUS
<1>1. SafeInv => DroppedOnlyForReaders
  BY DEF SafeInv, RivalsDiffer, DroppedOnlyForReaders
<1> QED
  BY AllSafe, <1>1, PTL

-----------------------------------------------------------------------------
(* The refinement.                                                          *)

LEMMA RegisterStarts == Init => Register!RegisterInit
BY DEF Init, Register!RegisterInit, Latest, Taken

\* The writer publishes a frame or does nothing the register sees.
LEMMA WriterImplements ==
  ASSUME IInv, SafeInv, FrameArrives \/ WriterStep
  PROVE  [Register!RegisterNext]_(Register!rvars)
<1> USE DEF IInv, SafeInv, Register!RegisterNext, Register!rvars, Register!Publish
<1>1. Taken' = Taken
  <2> SUFFICES ASSUME NEW r \in Readers, Locked(r) PROVE stamp'[rbuf[r]] = stamp[rbuf[r]]
    BY WriterKeeps DEF Taken, Locked, readerVars
  <2>1. CASE WriteEnds
    BY <2>1 DEF WriteEnds, WriterAlone, MemoryTypes
  <2>2. CASE ~WriteEnds
    BY <2>2 DEF FrameArrives, WriterStep, Scan, Claim, Recheck, LockFrame, Commit, Publish, Drop, sharedVars
  <2> QED
    BY <2>1, <2>2
<1>2. CASE Publish
  BY <1>1, <1>2 DEF Publish, Latest, ReadIsLatest, WriterAlone, WriterHasBuffer, Buffers, NoBuffer, MemoryTypes
<1>3. CASE WriteEnds
  BY <1>1, <1>3 DEF WriteEnds, Latest, WriterAlone, MemoryTypes
<1>4. CASE ~Publish /\ ~WriteEnds
  BY <1>1, <1>4 DEF FrameArrives, WriterStep, Scan, Claim, Recheck, LockFrame, Commit, Drop, sharedVars, Latest
<1> QED
  BY <1>2, <1>3, <1>4

\* A screenshot takes the frame when it locks the buffer and returns it when
\* it leaves.
LEMMA ReaderImplements ==
  ASSUME IInv, SafeInv, NEW r \in Readers, Screenshot(r) \/ ReaderStep(r)
  PROVE  [Register!RegisterNext]_(Register!rvars)
<1> USE DEF IInv, SafeInv, Register!RegisterNext, Register!rvars, ReaderTypes, ReaderGoes, ReaderIdle
<1>1. Latest' = Latest /\ stamp' = stamp
  BY ReaderKeeps DEF Latest
<1>2. CASE Check(r) /\ rpc'[r] = "locked"
  <2>1. Latest = stamp[rbuf[r]] /\ Latest # 0
    BY <1>2 DEF Check, Latest, ReadIsLatest, FrameNumbers, ReaderHasBuffer, CountedIn, Buffers, NoBuffer
  <2>2. Taken' = [Taken EXCEPT ![r] = Latest]
    BY <1>1, <1>2, <2>1 DEF Check, Taken
  <2> QED
    BY <1>1, <2>1, <2>2 DEF Register!Take
<1>3. CASE Leave(r)
  <2>1. Taken' = [Taken EXCEPT ![r] = 0]
    BY <1>1, <1>3 DEF Leave, Taken
  <2> QED
    BY <1>1, <2>1 DEF Register!Return
<1>4. CASE ~(Check(r) /\ rpc'[r] = "locked") /\ ~Leave(r)
  <2>1. Taken' = Taken
    <3>1. CASE Screenshot(r) \/ Load(r) \/ Peek(r) \/ Enter(r) \/ Retry(r)
      BY <1>1, <3>1 DEF Screenshot, Load, Peek, Enter, Retry, Taken
    <3>2. CASE Check(r)
      BY <1>1, <1>4, <3>2 DEF Check, Taken, CopyIsFrame, Blank
    <3>3. CASE CopyBegins(r)
      BY <1>1, <3>3 DEF CopyBegins, Taken, LockedIsWhole, Locked, FrameNumbers, Gone
    <3>4. CASE CopyEnds(r)
      BY <1>1, <3>4 DEF CopyEnds, Taken, LockedIsWhole, Locked, CopyIsFrame
    <3> QED
      BY <1>4, <3>1, <3>2, <3>3, <3>4 DEF ReaderStep
  <2> QED
    BY <1>1, <2>1
<1> QED
  BY <1>2, <1>3, <1>4

\* The control thread clears the register when it takes the buffers down.
LEMMA ControlImplements ==
  ASSUME IInv, SafeInv, Setup \/ Close \/ ControlStep
  PROVE  [Register!RegisterNext]_(Register!rvars)
<1> USE DEF IInv, SafeInv, Register!RegisterNext, Register!rvars
<1>1. Taken' = Taken
  <2> SUFFICES ASSUME NEW r \in Readers, Locked(r) PROVE stamp'[rbuf[r]] = stamp[rbuf[r]]
    BY ControlKeeps DEF Taken, Locked, readerVars
  <2>1. CASE ReleaseFree
    BY <2>1 DEF ReleaseFree, LockedIsWhole, Freed, NoEarlyReader, Locked, MemoryTypes
  <2>2. CASE Alloc \/ AllocFails
    BY <2>2 DEF Alloc, AllocFails, NoEarlyReader, Locked
  <2>3. CASE ~(ReleaseFree \/ Alloc \/ AllocFails)
    BY <2>3 DEF Setup, Close, ControlStep, ReleaseFlag, ReleaseRead, ReleaseWait, ReleaseReset,
       ReleaseEnd, AllocDone, Listen, sharedVars
  <2> QED
    BY <2>1, <2>2, <2>3
<1>2. Latest' = 0 \/ Latest' = Latest
  <2>1. CASE ready /\ ready'
    BY <2>1 DEF OneSetup, Setup, Close, ControlStep, ReleaseFlag, ReleaseRead, ReleaseWait, ReleaseFree,
       ReleaseReset, ReleaseEnd, Alloc, AllocFails, AllocDone, Listen, sharedVars, Latest
  <2>2. CASE ~ready'
    BY <2>2 DEF Latest
  <2>3. CASE ~ready /\ ready'
    BY <2>3 DEF Setup, Close, ControlStep, ReleaseFlag, ReleaseRead, ReleaseWait, ReleaseFree,
       ReleaseReset, ReleaseEnd, Alloc, AllocFails, AllocDone, Listen, sharedVars, Latest, FlagTypes
  <2> QED
    BY <2>1, <2>2, <2>3
<1> QED
  BY <1>1, <1>2 DEF Register!Clear

\* One setup in a process: the buffers are a register of the latest frame.
THEOREM RegisterImplemented == MaxSetups <= 1 => (Spec => ImplementsRegister)
<1> SUFFICES ASSUME MaxSetups <= 1 PROVE Spec => ImplementsRegister
  OBVIOUS
<1>1. IInv /\ SafeInv /\ [Next]_vars => [Register!RegisterNext]_(Register!rvars)
  <2> SUFFICES ASSUME IInv, SafeInv, [Next]_vars PROVE [Register!RegisterNext]_(Register!rvars)
    OBVIOUS
  <2>1. CASE UNCHANGED vars
    BY <2>1 DEF vars, sharedVars, readerVars, Register!rvars, Latest, Taken
  <2>2. CASE Next
    BY <2>2, WriterImplements, ReaderImplements, ControlImplements DEF Next
  <2> QED
    BY <2>1, <2>2
<1> QED
  BY RegisterStarts, AllSafe, <1>1, PTL DEF Spec, ImplementsRegister, Register!RegisterSpec
=============================================================================
