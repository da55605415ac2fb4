---------------------------- MODULE FrameBuffer ----------------------------
(***************************************************************************)
(* The triple buffer between the capture callback and the screenshots      *)
(* (bridge_frame_buffer.cpp), with the capturer that sets it up and tears  *)
(* it down (bridge_capture.cpp).                                           *)
(*                                                                         *)
(* The capture callback is the one writer: it takes a buffer nobody holds, *)
(* fills it and makes it the read buffer.  Binder threads are the readers: *)
(* they count themselves in on the read buffer, check that it still is     *)
(* the read buffer, copy it and count themselves out.  The control thread  *)
(* (calls are serialized by BackgroundDisplayService) allocates and frees. *)
(*                                                                         *)
(* Every access to an atomic that another thread may write meanwhile is a  *)
(* step, in sequentially consistent order; filling, copying and freeing    *)
(* memory have a beginning and an end.  AImageReader_delete returns when   *)
(* no callback runs any more, so the control thread never frees under the  *)
(* writer.                                                                 *)
(***************************************************************************)
EXTENDS Naturals, Integers, FiniteSets

CONSTANTS
  Readers,     \* binder threads taking screenshots
  NBuf,        \* FRAME_BUFFER_COUNT
  MaxFrames,   \* bound on the frames written after one setup
  MaxSetups    \* bound on the setups

ASSUME ConstantsAssumption ==
  IsFiniteSet(Readers) /\ NBuf \in Nat \ {0} /\ MaxFrames \in Nat /\ MaxSetups \in Nat

Buffers == 1 .. NBuf
NoBuffer == 0

VARIABLES
  data,      \* what each bgr_data holds
  stamp,     \* frame_count of each buffer
  writing,   \* g_buffer_states: the buffers marked FRAME_STATE_WRITING
  count,     \* g_reader_counts
  read,      \* g_read_buffer
  frames,    \* g_frame_count
  ready,     \* g_frame_buffers_initialized
  wpc, wbuf, seenRead, rivals,         \* the writer
  rpc, rbuf, attempt, copy,            \* the readers
  cpc, cbuf, rebuild, listening, setups   \* the control thread

sharedVars == <<data, stamp, writing, count, read, frames, ready>>
writerVars == <<wpc, wbuf, seenRead, rivals>>
readerVars == <<rpc, rbuf, attempt, copy>>
controlVars == <<cpc, cbuf, rebuild, listening, setups>>

vars == <<sharedVars, writerVars, readerVars, controlVars>>

Gone == -1    \* no memory is allocated
Torn == -2    \* the writer is in the middle of it
Blank == 0    \* allocated, no frame yet

Attempts == 3

WriterPoints == {"idle", "scan", "claim", "recheck", "lock", "write", "commit", "publish", "dropped"}
ReaderPoints == {"idle", "load", "peek", "enter", "check", "retry", "locked", "copy", "leave"}
\* A reader here has counted itself in and not out again.
CountedIn == {"check", "retry", "locked", "copy", "leave"}
ControlPoints == {"down", "flag", "read", "wait", "free", "reset", "end", "alloc", "listen", "up"}

Init ==
  /\ data = [b \in Buffers |-> Gone] /\ stamp = [b \in Buffers |-> 0]
  /\ writing = {} /\ count = [b \in Buffers |-> 0]
  /\ read = NoBuffer /\ frames = 0 /\ ready = FALSE
  /\ wpc = "idle" /\ wbuf = NoBuffer /\ seenRead = NoBuffer /\ rivals = {}
  /\ rpc = [r \in Readers |-> "idle"] /\ rbuf = [r \in Readers |-> NoBuffer]
  /\ attempt = [r \in Readers |-> 0]
  /\ copy = [r \in Readers |-> Blank]
  /\ cpc = "down" /\ cbuf = NoBuffer /\ rebuild = FALSE /\ listening = FALSE /\ setups = 0

-----------------------------------------------------------------------------
(* The writer: WriteHardwareBufferToFrame.                                  *)

WriterIdle == wpc' = "idle" /\ wbuf' = NoBuffer /\ seenRead' = NoBuffer /\ rivals' = {}

\* A frame arrives and the read buffer is looked up once.
FrameArrives ==
  /\ wpc = "idle" /\ listening /\ ready /\ frames < MaxFrames
  /\ wpc' = "scan" /\ wbuf' = 1 /\ seenRead' = read /\ rivals' = {}
  /\ UNCHANGED <<sharedVars, readerVars, controlVars>>

\* The readers counted in on buffer b.
Holders(b) == {r \in Readers : rbuf[r] = b /\ rpc[r] \in CountedIn}

\* The next candidate, or no buffer left and the frame is dropped.
TryNext ==
  /\ wbuf' = IF wbuf = NBuf THEN NoBuffer ELSE wbuf + 1
  /\ wpc' = IF wbuf = NBuf THEN "dropped" ELSE "scan"

\* The read buffer and a buffer with readers are passed over; another one is
\* claimed.
Scan ==
  /\ wpc = "scan"
  /\ \/ /\ wbuf = seenRead
        /\ TryNext /\ UNCHANGED rivals
     \/ /\ wbuf # seenRead /\ count[wbuf] > 0
        /\ TryNext /\ rivals' = rivals \cup Holders(wbuf)
     \/ /\ wbuf # seenRead /\ count[wbuf] <= 0
        /\ wpc' = "claim" /\ UNCHANGED <<wbuf, rivals>>
  /\ UNCHANGED <<sharedVars, seenRead, readerVars, controlVars>>

\* The compare-and-swap; the writer is alone in marking buffers.
Claim ==
  /\ wpc = "claim"
  /\ writing' = writing \cup {wbuf}
  /\ wpc' = "recheck"
  /\ UNCHANGED <<data, stamp, count, read, frames, ready, wbuf, seenRead, rivals, readerVars, controlVars>>

\* A reader may have come in since: the claim is given back.
Recheck ==
  /\ wpc = "recheck"
  /\ \/ /\ count[wbuf] > 0 \/ read = wbuf \/ ~ready
        /\ writing' = writing \ {wbuf}
        /\ TryNext /\ rivals' = rivals \cup Holders(wbuf)
     \/ /\ ~(count[wbuf] > 0 \/ read = wbuf \/ ~ready)
        /\ wpc' = "lock" /\ UNCHANGED <<writing, wbuf, rivals>>
  /\ UNCHANGED <<data, stamp, count, read, frames, ready, seenRead, readerVars, controlVars>>

\* AHardwareBuffer_lock fails and the buffer is marked free, or the pixels
\* are converted into it.
LockFrame ==
  /\ wpc = "lock"
  /\ \/ /\ WriterIdle
        /\ writing' = writing \ {wbuf}
        /\ UNCHANGED data
     \/ /\ wpc' = "write"
        /\ data' = [data EXCEPT ![wbuf] = Torn]
        /\ UNCHANGED <<wbuf, seenRead, rivals, writing>>
  /\ UNCHANGED <<stamp, count, read, frames, ready, readerVars, controlVars>>

BugWriteEnds ==
  /\ wpc = "write"
  /\ data' = [data EXCEPT ![wbuf] = frames + 1]
  /\ stamp' = [stamp EXCEPT ![wbuf] = frames]
  /\ frames' = frames + 1
  /\ wpc' = "commit"
  /\ UNCHANGED <<writing, count, read, ready, wbuf, seenRead, rivals, readerVars, controlVars>>

\* The conversion ends and the frame gets its number.
WriteEnds ==
  /\ wpc = "write"
  /\ data' = [data EXCEPT ![wbuf] = frames + 1]
  /\ stamp' = [stamp EXCEPT ![wbuf] = frames + 1]
  /\ frames' = frames + 1
  /\ wpc' = "commit"
  /\ UNCHANGED <<writing, count, read, ready, wbuf, seenRead, rivals, readerVars, controlVars>>

\* CommitWriteBuffer.
Commit ==
  /\ wpc = "commit"
  /\ writing' = writing \ {wbuf}
  /\ wpc' = "publish"
  /\ UNCHANGED <<data, stamp, count, read, frames, ready, wbuf, seenRead, rivals, readerVars, controlVars>>

Publish ==
  /\ wpc = "publish"
  /\ read' = IF ready THEN wbuf ELSE read
  /\ WriterIdle
  /\ UNCHANGED <<data, stamp, writing, count, frames, ready, readerVars, controlVars>>

\* No buffer was free: the frame is not kept.
Drop ==
  /\ wpc = "dropped"
  /\ WriterIdle
  /\ UNCHANGED <<sharedVars, readerVars, controlVars>>

-----------------------------------------------------------------------------
(* Reader r: CreateFrameBufferBitmap.                                       *)

ReaderGoes(r, point) == rpc' = [rpc EXCEPT ![r] = point]

\* The call returns its copy or nothing.
ReaderIdle(r) ==
  /\ rpc' = [rpc EXCEPT ![r] = "idle"]
  /\ rbuf' = [rbuf EXCEPT ![r] = NoBuffer]
  /\ attempt' = [attempt EXCEPT ![r] = 0]
  /\ copy' = [copy EXCEPT ![r] = Blank]

Screenshot(r) ==
  /\ rpc[r] = "idle" /\ ready
  /\ ReaderGoes(r, "load")
  /\ attempt' = [attempt EXCEPT ![r] = 1]
  /\ UNCHANGED <<sharedVars, writerVars, rbuf, copy, controlVars>>

Load(r) ==
  /\ rpc[r] = "load"
  /\ \/ /\ read = NoBuffer
        /\ ReaderIdle(r)
     \/ /\ read # NoBuffer
        /\ ReaderGoes(r, "peek") /\ rbuf' = [rbuf EXCEPT ![r] = read]
        /\ UNCHANGED <<attempt, copy>>
  /\ UNCHANGED <<sharedVars, writerVars, controlVars>>

\* frame->frame_count == 0
Peek(r) ==
  /\ rpc[r] = "peek"
  /\ \/ stamp[rbuf[r]] = 0 /\ ReaderIdle(r)
     \/ stamp[rbuf[r]] # 0 /\ ReaderGoes(r, "enter") /\ UNCHANGED <<rbuf, attempt, copy>>
  /\ UNCHANGED <<sharedVars, writerVars, controlVars>>

Enter(r) ==
  /\ rpc[r] = "enter"
  /\ count' = [count EXCEPT ![rbuf[r]] = @ + 1]
  /\ ReaderGoes(r, "check")
  /\ UNCHANGED <<data, stamp, writing, read, frames, ready, writerVars, rbuf, attempt, copy, controlVars>>

\* The buffer counts as locked if it still is the read buffer; waiting for a
\* writer that is at it is given up after a while.
Check(r) ==
  /\ rpc[r] = "check"
  /\ ReaderGoes(r, IF read # rbuf[r] \/ ~ready THEN "retry"
                   ELSE IF rbuf[r] \in writing THEN "leave" ELSE "locked")
  /\ UNCHANGED <<sharedVars, writerVars, rbuf, attempt, copy, controlVars>>

Retry(r) ==
  /\ rpc[r] = "retry"
  /\ count' = [count EXCEPT ![rbuf[r]] = @ - 1]
  /\ \/ /\ attempt[r] < Attempts
        /\ ReaderGoes(r, "load")
        /\ attempt' = [attempt EXCEPT ![r] = @ + 1]
        /\ rbuf' = [rbuf EXCEPT ![r] = NoBuffer]
        /\ UNCHANGED copy
     \/ attempt[r] = Attempts /\ ReaderIdle(r)
  /\ UNCHANGED <<data, stamp, writing, read, frames, ready, writerVars, controlVars>>

\* The copy begins unless there is no memory.
CopyBegins(r) ==
  /\ rpc[r] = "locked"
  /\ ReaderGoes(r, IF data[rbuf[r]] = Gone THEN "leave" ELSE "copy")
  /\ copy' = [copy EXCEPT ![r] = data[rbuf[r]]]
  /\ UNCHANGED <<sharedVars, writerVars, rbuf, attempt, controlVars>>

\* What was copied is a frame only if it did not change meanwhile.
CopyEnds(r) ==
  /\ rpc[r] = "copy"
  /\ ReaderGoes(r, "leave")
  /\ copy' = [copy EXCEPT ![r] = IF data[rbuf[r]] = @ THEN @ ELSE Torn]
  /\ UNCHANGED <<sharedVars, writerVars, rbuf, attempt, controlVars>>

BugLeave(r) ==
  /\ rpc[r] = "leave"
  /\ count' = count
  /\ ReaderIdle(r)
  /\ UNCHANGED <<data, stamp, writing, read, frames, ready, writerVars, controlVars>>

\* UnlockPixels.
Leave(r) ==
  /\ rpc[r] = "leave"
  /\ count' = [count EXCEPT ![rbuf[r]] = @ - 1]
  /\ ReaderIdle(r)
  /\ UNCHANGED <<data, stamp, writing, read, frames, ready, writerVars, controlVars>>

-----------------------------------------------------------------------------
(* The control thread: SetupNativeCapturer and ReleaseNativeCapturer.       *)

\* A setup begins with a release.
Setup ==
  /\ cpc = "down" /\ setups < MaxSetups
  /\ setups' = setups + 1
  /\ rebuild' = TRUE /\ cpc' = "flag"
  /\ UNCHANGED <<sharedVars, writerVars, readerVars, cbuf, listening>>

\* The listener is removed and AImageReader_delete waits for the callback.
Close ==
  /\ cpc = "up" /\ wpc = "idle"
  /\ listening' = FALSE
  /\ rebuild' = FALSE /\ cpc' = "flag"
  /\ UNCHANGED <<sharedVars, writerVars, readerVars, cbuf, setups>>

\* ReleaseFrameBuffers, up to its loop.
ReleaseFlag ==
  /\ cpc = "flag"
  /\ ready' = FALSE /\ cpc' = "read"
  /\ UNCHANGED <<data, stamp, writing, count, read, frames, writerVars, readerVars,
                 cbuf, rebuild, listening, setups>>

ReleaseRead ==
  /\ cpc = "read"
  /\ read' = NoBuffer
  /\ cpc' = "wait" /\ cbuf' = 1
  /\ UNCHANGED <<data, stamp, writing, count, frames, ready, writerVars, readerVars,
                 rebuild, listening, setups>>

BugReleaseWait ==
  /\ cpc = "wait"
  /\ cbuf \notin writing
  /\ cpc' = "free"
  /\ UNCHANGED <<sharedVars, writerVars, readerVars, cbuf, rebuild, listening, setups>>

\* while (... WRITING || readers > 0) yield
ReleaseWait ==
  /\ cpc = "wait"
  /\ cbuf \notin writing /\ count[cbuf] <= 0
  /\ cpc' = "free"
  /\ UNCHANGED <<sharedVars, writerVars, readerVars, cbuf, rebuild, listening, setups>>

ReleaseFree ==
  /\ cpc = "free"
  /\ data' = [data EXCEPT ![cbuf] = Gone]
  /\ stamp' = [stamp EXCEPT ![cbuf] = 0]
  /\ cpc' = "reset"
  /\ UNCHANGED <<writing, count, read, frames, ready, writerVars, readerVars,
                 cbuf, rebuild, listening, setups>>

ReleaseReset ==
  /\ cpc = "reset"
  /\ writing' = writing \ {cbuf}
  /\ count' = [count EXCEPT ![cbuf] = 0]
  /\ \/ cbuf < NBuf /\ cpc' = "wait" /\ cbuf' = cbuf + 1
     \/ cbuf = NBuf /\ cpc' = "end" /\ cbuf' = NoBuffer
  /\ UNCHANGED <<data, stamp, read, frames, ready, writerVars, readerVars, rebuild, listening, setups>>

\* A setup goes on with InitFrameBuffers.
ReleaseEnd ==
  /\ cpc = "end"
  /\ read' = NoBuffer /\ frames' = 0
  /\ IF rebuild THEN cpc' = "alloc" /\ cbuf' = 1 ELSE cpc' = "down" /\ cbuf' = NoBuffer
  /\ rebuild' = FALSE
  /\ UNCHANGED <<data, stamp, writing, count, ready, writerVars, readerVars, listening, setups>>

Alloc ==
  /\ cpc = "alloc" /\ cbuf \in Buffers
  /\ data' = [data EXCEPT ![cbuf] = Blank]
  /\ stamp' = [stamp EXCEPT ![cbuf] = 0]
  /\ writing' = writing \ {cbuf}
  /\ count' = [count EXCEPT ![cbuf] = 0]
  /\ cbuf' = IF cbuf = NBuf THEN NoBuffer ELSE cbuf + 1
  /\ UNCHANGED <<read, frames, ready, writerVars, readerVars, cpc, rebuild, listening, setups>>

\* posix_memalign fails: what was allocated is freed, and the setup goes on
\* without buffers.
AllocFails ==
  /\ cpc = "alloc" /\ cbuf \in Buffers
  /\ data' = [b \in Buffers |-> IF b <= cbuf THEN Gone ELSE data[b]]
  /\ stamp' = [b \in Buffers |-> IF b <= cbuf THEN 0 ELSE stamp[b]]
  /\ writing' = {b \in writing : b > cbuf}
  /\ count' = [b \in Buffers |-> IF b <= cbuf THEN 0 ELSE count[b]]
  /\ read' = NoBuffer /\ frames' = 0
  /\ cpc' = "listen" /\ cbuf' = NoBuffer
  /\ UNCHANGED <<ready, writerVars, readerVars, rebuild, listening, setups>>

AllocDone ==
  /\ cpc = "alloc" /\ cbuf = NoBuffer
  /\ read' = NoBuffer /\ frames' = 0
  /\ ready' = TRUE
  /\ cpc' = "listen"
  /\ UNCHANGED <<data, stamp, writing, count, writerVars, readerVars, cbuf, rebuild, listening, setups>>

\* The image reader is created with its listener, or the setup is undone.
Listen ==
  /\ cpc = "listen"
  /\ \/ listening' = TRUE /\ cpc' = "up"
     \/ listening' = FALSE /\ cpc' = "flag"
  /\ UNCHANGED <<sharedVars, writerVars, readerVars, cbuf, rebuild, setups>>

-----------------------------------------------------------------------------

WriterStep ==
  Scan \/ Claim \/ Recheck \/ LockFrame \/ WriteEnds \/ Commit \/ Publish \/ Drop

ReaderStep(r) ==
  Load(r) \/ Peek(r) \/ Enter(r) \/ Check(r) \/ Retry(r) \/ CopyBegins(r) \/ CopyEnds(r) \/ Leave(r)

ControlStep ==
  \/ ReleaseFlag \/ ReleaseRead \/ ReleaseWait \/ ReleaseFree \/ ReleaseReset \/ ReleaseEnd
  \/ Alloc \/ AllocFails \/ AllocDone \/ Listen

Next ==
  \/ FrameArrives \/ WriterStep
  \/ \E r \in Readers : Screenshot(r) \/ ReaderStep(r)
  \/ Setup \/ Close \/ ControlStep

\* Threads are scheduled; nothing calls anything unless it wants to.
Fairness ==
  /\ WF_vars(WriterStep)
  /\ WF_vars(ControlStep)
  /\ \A r \in Readers : WF_vars(ReaderStep(r))

Spec == Init /\ [][Next]_vars /\ Fairness

-----------------------------------------------------------------------------
(* Properties.                                                              *)

FrameNumbers == 1 .. MaxFrames

TypeOK ==
  /\ data \in [Buffers -> FrameNumbers \cup {Gone, Torn, Blank}]
  /\ stamp \in [Buffers -> 0 .. MaxFrames] /\ frames \in 0 .. MaxFrames
  /\ writing \subseteq Buffers /\ count \in [Buffers -> Int]
  /\ read \in Buffers \cup {NoBuffer} /\ ready \in BOOLEAN
  /\ wpc \in WriterPoints /\ wbuf \in Buffers \cup {NoBuffer}
  /\ seenRead \in Buffers \cup {NoBuffer} /\ rivals \subseteq Readers
  /\ rpc \in [Readers -> ReaderPoints] /\ rbuf \in [Readers -> Buffers \cup {NoBuffer}]
  /\ attempt \in [Readers -> 0 .. Attempts]
  /\ copy \in [Readers -> FrameNumbers \cup {Gone, Torn, Blank}]
  /\ cpc \in ControlPoints /\ cbuf \in Buffers \cup {NoBuffer}
  /\ rebuild \in BOOLEAN /\ listening \in BOOLEAN /\ setups \in 0 .. MaxSetups

\* While a reader holds the lock on a frame, the capture callback is not at
\* its buffer and its memory is allocated.
LockedFrameIsSafe ==
  \A r \in Readers :
    rpc[r] \in {"locked", "copy"} =>
      /\ ~(wpc \in {"lock", "write"} /\ wbuf = rbuf[r])
      /\ data[rbuf[r]] \in FrameNumbers

\* A captured frame is lost only to readers: on the way through the buffers
\* the writer met as many of them as there are buffers besides the one that
\* is read.
DroppedOnlyForReaders == wpc = "dropped" => Cardinality(rivals) >= NBuf - 1

\* Tearing the capturer down ends, whatever screenshots are on the way.
ReleaseTerminates == (cpc = "flag") ~> (cpc \notin {"flag", "read", "wait", "free", "reset", "end"})

\* The frame a screenshot that begins now would get.
Latest == IF ready /\ read # NoBuffer THEN stamp[read] ELSE 0

\* The frame each screenshot has in hand.
Taken ==
  [r \in Readers |->
     CASE rpc[r] \in {"locked", "copy"} -> stamp[rbuf[r]]
       [] rpc[r] = "leave" -> copy[r]
       [] OTHER -> 0]

\* A screenshot is the latest frame at the moment its reader found the buffer
\* unchanged.
Register == INSTANCE FrameRegister WITH latest <- Latest, taken <- Taken

ImplementsRegister == Register!RegisterSpec
=============================================================================
