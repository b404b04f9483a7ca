------------------------------ MODULE ImageWrite ------------------------------
(***************************************************************************)
(* pkg/image: Retry runs Write until it succeeds, the retry window is used *)
(* up, or the context is cancelled.  Write downloads the image and copies  *)
(* it over the whole-disk device.                                          *)
(*                                                                         *)
(* What the device holds is kept as provenance: for every block of the     *)
(* image, the number of the attempt whose bytes it holds, 0 for what was   *)
(* there before.  "cache" is the device as the kernel's page cache shows   *)
(* it, "media" is what survives a power loss.  Attempts are numbered over  *)
(* all runs of the action, so a block left over from an earlier attempt or *)
(* an earlier run is never mistaken for one of the current attempt.        *)
(***************************************************************************)
EXTENDS Integers

CONSTANTS
    NumBlocks,  \* blocks of the decompressed image
    Window,     \* RETRY_WINDOW; zero or less means a single attempt
    Base,       \* RetryBase
    Cap,        \* RetryCap
    FrameEnds,  \* blocks of the image before the ends of its zstd frames, 0 among them
    Horizon,    \* bound: the clock stops here
    MaxRuns     \* bound: how often the action is run

ASSUME ImageAssumption ==
    /\ NumBlocks \in Nat \ {0}
    /\ Window \in Int
    /\ Base \in Nat \ {0}
    /\ Cap \in Nat
    /\ Base <= Cap
    /\ FrameEnds \subseteq 0 .. NumBlocks
    /\ Horizon \in Nat
    /\ MaxRuns \in Nat

VARIABLES
    pc,         \* where Retry and the Write it called stand
    run,        \* runs of the action so far
    attempt,    \* calls of Write so far, over all runs
    now,        \* time since this run called Retry
    delay,      \* Retry's delay
    wake,       \* when the pending time.After fires
    slept,      \* the delays waited for in this run, summed
    n,          \* blocks io.Copy has written in this attempt
    cuts,       \* offsets at which a body that breaks off passes for a complete one
    stalled,    \* the server has stopped sending, the connection stays open
    cancelled,  \* ctx is done: the action was told to stop
    cache,      \* block -> attempt, as the page cache shows it
    media,      \* block -> attempt, on stable storage
    table       \* the partition table the kernel works with

clock   == <<now, wake, delay, slept>>
disk    == <<cache, media, table>>
network == <<cuts, stalled>>
vars    == <<pc, run, attempt, clock, n, network, cancelled, disk>>

Blocks  == 0 .. NumBlocks - 1
Writing == {"request", "open", "copy", "sync", "reread"}
Running == Writing \cup {"decide", "sleep"}
Stopped == pc \notin Running

Init ==
    /\ pc = "request"
    /\ run = 1
    /\ attempt = 1
    /\ now = 0 /\ wake = 0 /\ delay = Base /\ slept = 0
    /\ n = 0
    /\ cuts = {} /\ stalled = FALSE
    /\ cancelled = FALSE
    /\ cache = [b \in Blocks |-> 0]
    /\ media = [b \in Blocks |-> 0]
    /\ table = "old"

-------------------------------------------------------------------------------
(* Write, step by step. *)

(***************************************************************************)
(* client.Do answers 200, which it never does once ctx is done.  The       *)
(* answer decides where a body that breaks off is taken for a whole one:   *)
(* nowhere if the response marks its own end (length or chunks),           *)
(* anywhere if it does not, and for a .zst URL between two frames: the     *)
(* zstd decoder ends cleanly where a new frame would begin, which for an   *)
(* empty body is at once.                                                  *)
(***************************************************************************)
Respond ==
    /\ pc = "request" /\ ~stalled /\ ~cancelled
    /\ pc' = "open"
    /\ cuts' \in {{}, 0 .. NumBlocks, FrameEnds}
    /\ UNCHANGED <<run, attempt, clock, n, stalled, cancelled, disk>>

(* client.Do fails, or answers 404 or any other status: Write returns before *)
(* the device is opened.                                                     *)
RequestFails ==
    /\ pc = "request" /\ (~stalled \/ cancelled)
    /\ pc' = "decide"
    /\ stalled' = FALSE
    /\ UNCHANGED <<run, attempt, clock, n, cuts, cancelled, disk>>

(* os.OpenFile(device, O_WRONLY): the copy starts at offset 0. *)
Open ==
    /\ pc = "open"
    /\ \/ pc' = "copy" /\ n' = 0
       \/ pc' = "decide" /\ UNCHANGED n
    /\ UNCHANGED <<run, attempt, clock, network, cancelled, disk>>

(* io.Copy writes the next block. *)
CopyBlock ==
    /\ pc = "copy" /\ ~stalled /\ n < NumBlocks
    /\ cache' = [cache EXCEPT ![n] = attempt]
    /\ n' = n + 1
    /\ UNCHANGED <<pc, run, attempt, clock, network, cancelled, media, table>>

(* What io.Copy takes for the end of the stream: nobody compares the bytes   *)
(* that came with the bytes that were to come.                               *)
EndOfStream == n = NumBlocks \/ n \in cuts

CopyEnds ==
    /\ pc = "copy" /\ ~stalled
    /\ EndOfStream
    /\ pc' = "sync"
    /\ UNCHANGED <<run, attempt, clock, n, network, cancelled, disk>>

(* io.Copy fails: the connection breaks, the stream is corrupt, the device   *)
(* reports an error.  A stalled read returns only when ctx is cancelled.     *)
CopyFailsIgnored ==
    /\ pc = "copy" /\ (~stalled \/ cancelled)
    /\ pc' = "sync"
    /\ stalled' = FALSE
    /\ UNCHANGED <<run, attempt, clock, n, cuts, cancelled, disk>>

CopyFailsWithoutContext ==
    /\ pc = "copy" /\ ~stalled
    /\ pc' = "decide"
    /\ stalled' = FALSE
    /\ UNCHANGED <<run, attempt, clock, n, cuts, cancelled, disk>>

CopyFails ==
    /\ pc = "copy" /\ (~stalled \/ cancelled)
    /\ pc' = "decide"
    /\ stalled' = FALSE
    /\ UNCHANGED <<run, attempt, clock, n, cuts, cancelled, disk>>

(* out.Sync: on success the page cache is on stable storage. *)
Sync ==
    /\ pc = "sync"
    /\ \/ pc' = "reread" /\ media' = cache
       \/ pc' = "decide" /\ UNCHANGED media
    /\ UNCHANGED <<run, attempt, clock, n, network, cancelled, cache, table>>

(* BLKRRPART; a refusal is logged and Write succeeds all the same. *)
ReRead ==
    /\ pc = "reread"
    /\ pc' = "ok"
    /\ table' \in {table, "new"}
    /\ UNCHANGED <<run, attempt, clock, n, network, cancelled, cache, media>>

-------------------------------------------------------------------------------
(* Retry, once fn has failed. *)

NoTimeLeftUnchecked == Window <= 0

NoTimeLeftIgnoringDelay == Window <= 0 \/ now > Window

NoTimeLeft == Window <= 0 \/ now + delay > Window

GiveUp ==
    /\ pc = "decide" /\ NoTimeLeft
    /\ pc' = "failed"
    /\ UNCHANGED <<run, attempt, clock, n, network, cancelled, disk>>

(* Retry enters the select: the timer is armed for "delay" from now. *)
Backoff ==
    /\ pc = "decide" /\ ~NoTimeLeft
    /\ pc' = "sleep"
    /\ wake' = now + delay
    /\ slept' = slept + delay
    /\ UNCHANGED <<run, attempt, now, delay, n, network, cancelled, disk>>

NextDelayUncapped == 2 * delay

NextDelayQuadrupled == IF 4 * delay > Cap THEN Cap ELSE 4 * delay

NextDelay == IF 2 * delay > Cap THEN Cap ELSE 2 * delay

(* The timer wins the select, possibly late; the next attempt begins. *)
Wake ==
    /\ pc = "sleep" /\ now >= wake
    /\ pc' = "request"
    /\ attempt' = attempt + 1
    /\ delay' = NextDelay
    /\ UNCHANGED <<run, now, wake, slept, n, network, cancelled, disk>>

(* ctx.Done() wins the select. *)
SleepCancelled ==
    /\ pc = "sleep" /\ cancelled
    /\ pc' = "failed"
    /\ UNCHANGED <<run, attempt, clock, n, network, cancelled, disk>>

-------------------------------------------------------------------------------
(* The world around the action. *)

Tick ==
    /\ pc \in Running /\ now < Horizon
    /\ now' = now + 1
    /\ UNCHANGED <<pc, run, attempt, delay, wake, slept, n, network, cancelled, disk>>

(* The server stops sending for good.  Write sets no timeout of any kind; a  *)
(* server that is merely slow needs no action.                               *)
Stall ==
    /\ pc \in {"request", "copy"} /\ ~stalled
    /\ stalled' = TRUE
    /\ UNCHANGED <<pc, run, attempt, clock, n, cuts, cancelled, disk>>

(* SIGTERM or SIGINT: main's signal.NotifyContext cancels ctx. *)
Cancel ==
    /\ pc \in Running /\ ~cancelled
    /\ cancelled' = TRUE
    /\ UNCHANGED <<pc, run, attempt, clock, n, network, disk>>

(* The kernel writes a dirty block back whenever it likes. *)
Writeback ==
    /\ \E b \in Blocks :
        /\ media[b] # cache[b]
        /\ media' = [media EXCEPT ![b] = cache[b]]
    /\ UNCHANGED <<pc, run, attempt, clock, n, network, cancelled, cache, table>>

(* The process is killed, or the machine loses power and boots again: the    *)
(* kernel then reads the partition table it finds, whole or not.             *)
Kill ==
    /\ pc \in Running
    /\ pc' = "crashed"
    /\ stalled' = FALSE
    /\ UNCHANGED <<run, attempt, clock, n, cuts, cancelled, disk>>

PowerLoss ==
    /\ pc' = IF Stopped THEN pc ELSE "crashed"
    /\ cache' = media
    /\ stalled' = FALSE
    /\ table' \in {table, "new"}
    /\ UNCHANGED <<run, attempt, clock, n, cuts, cancelled, media>>

(* The action is run again over whatever the last run left behind. *)
Rerun ==
    /\ pc \in {"failed", "crashed"} /\ run < MaxRuns
    /\ pc' = "request"
    /\ run' = run + 1
    /\ attempt' = attempt + 1
    /\ now' = 0 /\ wake' = 0 /\ delay' = Base /\ slept' = 0
    /\ n' = 0
    /\ cuts' = {} /\ stalled' = FALSE
    /\ cancelled' = FALSE
    /\ UNCHANGED disk

-------------------------------------------------------------------------------
Program ==
    \/ Respond \/ RequestFails \/ Open
    \/ CopyBlock \/ CopyEnds \/ CopyFails \/ Sync \/ ReRead
    \/ GiveUp \/ Backoff \/ Wake \/ SleepCancelled

World ==
    \/ Tick \/ Stall \/ Cancel
    \/ Writeback \/ Kill \/ PowerLoss \/ Rerun

Next == Program \/ World

Spec == Init /\ [][Next]_vars

(***************************************************************************)
(* The goroutine that runs Retry is scheduled, every request, copy and     *)
(* sync that is not stalled returns, and time passes.  Nothing makes a     *)
(* stalled server send again, and nobody has to cancel, crash or rerun.    *)
(***************************************************************************)
FairSpec == Spec /\ WF_vars(Program) /\ WF_vars(Tick)

-------------------------------------------------------------------------------
TypeOK ==
    /\ pc \in Running \cup {"ok", "failed", "crashed"}
    /\ run \in Nat \ {0}
    /\ attempt \in Nat \ {0}
    /\ now \in Nat /\ wake \in Nat /\ slept \in Nat
    /\ delay \in Nat \ {0} /\ delay <= Cap
    /\ n \in 0 .. NumBlocks
    /\ cuts \subseteq 0 .. NumBlocks
    /\ stalled \in BOOLEAN /\ cancelled \in BOOLEAN
    /\ cache \in [Blocks -> Nat]
    /\ media \in [Blocks -> Nat]
    /\ table \in {"old", "new"}

(***************************************************************************)
(* When Write reports n written blocks as a success, one single attempt    *)
(* wrote all n of them and they are on stable storage, whatever earlier    *)
(* attempts and runs left half-written; and n is the whole image unless    *)
(* the body broke off where that cannot be told from its end.  In that     *)
(* case the rest of the device is what it was (image.go:104-124).          *)
(***************************************************************************)
WrittenIsStored ==
    pc = "ok" =>
        /\ n = NumBlocks \/ n \in cuts
        /\ \A b \in Blocks : b < n => media[b] = attempt

(***************************************************************************)
(* All the back-off delays of a run together fit in the retry window, how  *)
(* ever long the attempts between them take (image.go:139-163).            *)
(***************************************************************************)
SleepBudget == slept <= (IF Window > 0 THEN Window ELSE 0)

(***************************************************************************)
(* Retry does not give up early: unless it was told to stop, nearly half   *)
(* of the window has passed, because the next delay is never longer than   *)
(* the time already spent plus RetryBase (image.go:148, 160-163).          *)
(***************************************************************************)
GivesUpLate ==
    pc = "failed" /\ ~cancelled /\ Window > 0 => 2 * now + Base > Window

(***************************************************************************)
(* Once ctx is cancelled the action comes to an end, even in the middle of *)
(* a stalled download (image.go:48, 154-158).                              *)
(***************************************************************************)
CancelStops == cancelled ~> Stopped

(***************************************************************************)
(* Every run comes to an end, unless it waits for ever for a server that   *)
(* has stopped sending: there is no timeout (image.go:53, 104).            *)
(***************************************************************************)
EndsUnlessStalled ==
    \/ []<>Stopped
    \/ <>[](stalled /\ ~cancelled /\ pc \in {"request", "copy"})

(***************************************************************************)
(* "On success the device is synced and its partition table re-read"       *)
(* (image.go:31-32).  Not so when the kernel refuses BLKRRPART.            *)
(***************************************************************************)
ReReadOnSuccess == pc = "ok" => table = "new"
===============================================================================
