------------------------------ MODULE CacheProg ------------------------------
(***************************************************************************)
(* The GOCACHEPROG protocol engine of internal/cacheprog/cacheprog.go.     *)
(*                                                                         *)
(* Run writes the capability line, starts readLoop in a goroutine and      *)
(* waits for the lifecycle context; readLoop reads request records from    *)
(* stdin and starts one handler goroutine per get, put or unknown command; *)
(* a put's body lines are streamed to its handler through an io.Pipe,      *)
(* whose Write returns only once the handler has read the chunk.  Handlers *)
(* write responses under writeMu; a write error cancels the lifecycle.     *)
(* Run then waits for the handlers (wg.Wait) and returns.                  *)
(*                                                                         *)
(* A record is [cmd, id, chunks]: chunks is the number of body lines      *)
(* NextValidLine returns for a put (0 when BodySize = 0).  Reading a       *)
(* record or a body line may fail (I/O error, a malformed or overlong      *)
(* line, more than ten empty lines).  The handler is the HTTP client of    *)
(* the daemon; whether it succeeds is not observable here, only whether   *)
(* it reads the body to its end before returning.                         *)
(***************************************************************************)
EXTENDS Naturals, Sequences

CONSTANTS
    Input,        \* the records the Go command writes to stdin, in order
    ReadErrors,   \* TRUE: a read of stdin may fail
    GoExits,      \* TRUE: the Go command may exit (stdin ends, stdout breaks)
    EarlyReturn,  \* TRUE: a put handler may return before reading its body
    None

VARIABLES
    pos,          \* index of the next record readLoop reads
    rl,           \* readLoop's pc
    chunk,        \* body lines of the current put written to its pipe
    pipe,         \* pipe[i]: the io.Pipe of the put record i
    h,            \* h[i]: the handler goroutine of record i
    cause,        \* context.Cause of the lifecycle: None, "canceled", "err"
    run,          \* Run's pc
    result,       \* what Run returned: None, "nil", "err"
    out,          \* the response IDs written to stdout, in order
    goExited      \* the Go command has exited

vars == <<pos, rl, chunk, pipe, h, cause, run, result, out, goExited>>

Idx == 1 .. Len(Input)
Rec == [cmd : {"get", "put", "close", "unknown"}, id : Nat, chunks : Nat]
Pipe == [pending : BOOLEAN, w : {"open", "eof", "err"}]
MaxChunks == IF Input = <<>> THEN 0
             ELSE CHOOSE m \in {Input[i].chunks : i \in Idx} : \A i \in Idx : Input[i].chunks <= m

TypeOK ==
    /\ Input \in Seq(Rec)
    /\ pos \in 1 .. Len(Input) + 1
    /\ rl \in {"idle", "top", "read", "body", "bodyWrite", "exited"}
    /\ chunk \in 0 .. MaxChunks
    /\ pipe \in [Idx -> Pipe]
    /\ h \in [Idx -> {"none", "run", "putRead", "done"}]
    /\ cause \in {None, "canceled", "err"}
    /\ run \in {"cap", "wait", "drain", "returned"}
    /\ result \in {None, "nil", "err"}
    /\ out \in Seq(Nat)
    /\ goExited \in BOOLEAN

Init ==
    /\ pos = 1
    /\ rl = "idle"
    /\ chunk = 0
    /\ pipe = [i \in Idx |-> [pending |-> FALSE, w |-> "open"]]
    /\ h = [i \in Idx |-> "none"]
    /\ cause = None
    /\ run = "cap"
    /\ result = None
    /\ out = <<>>
    /\ goExited = FALSE

(* lifecycleCancel(err): the first cancellation fixes the cause.          *)
Cancel(c) == cause' = IF cause = None THEN c ELSE cause

(* handlers started by runAsync and not yet finished: the WaitGroup count *)
Running == {i \in Idx : h[i] \in {"run", "putRead"}}

(* mustWriteResponse: the encoder writes the line; once the Go command    *)
(* has exited, stdout is broken, both the response and the error response *)
(* fail, and the lifecycle is cancelled with the error.                   *)
WriteResponse(id) ==
    IF goExited THEN Cancel("err") /\ UNCHANGED out
    ELSE out' = Append(out, id) /\ UNCHANGED cause

-----------------------------------------------------------------------------
(* Run, cacheprog.go:168-190.  The capability line is written first; on   *)
(* failure Run returns before readLoop exists.                             *)
SendCapability ==
    /\ run = "cap"
    /\ IF goExited
         THEN run' = "returned" /\ result' = "err" /\ UNCHANGED <<rl, out>>
         ELSE /\ out' = Append(out, 0)
              /\ run' = "wait" /\ rl' = "top"
              /\ UNCHANGED result
    /\ UNCHANGED <<pos, chunk, pipe, h, cause, goExited>>

(* Mutant: Run leaves its select only on the close command.              *)
RunWaitCloseOnly ==
    /\ run = "wait" /\ cause = "canceled"
    /\ run' = "drain"
    /\ UNCHANGED <<pos, rl, chunk, pipe, h, cause, result, out, goExited>>

(* Mutant: Run does not wait for the lifecycle before wg.Wait.           *)
RunWaitNoDone ==
    /\ run = "wait"
    /\ run' = "drain"
    /\ UNCHANGED <<pos, rl, chunk, pipe, h, cause, result, out, goExited>>

(* <-cp.lifecycle.Done(), then the deferred wg.Wait().                     *)
RunWait ==
    /\ run = "wait" /\ cause # None
    /\ run' = "drain"
    /\ UNCHANGED <<pos, rl, chunk, pipe, h, cause, result, out, goExited>>

(* Mutant: Run without the deferred wg.Wait.                              *)
RunReturnNoWait ==
    /\ run = "drain"
    /\ run' = "returned"
    /\ result' = IF cause = "canceled" THEN "nil" ELSE "err"
    /\ UNCHANGED <<pos, rl, chunk, pipe, h, cause, out, goExited>>

(* wg.Wait returns when the count is zero; Run maps context.Canceled to   *)
(* nil.                                                                    *)
RunReturn ==
    /\ run = "drain" /\ Running = {}
    /\ run' = "returned"
    /\ result' = IF cause = "canceled" THEN "nil" ELSE "err"
    /\ UNCHANGED <<pos, rl, chunk, pipe, h, cause, out, goExited>>

-----------------------------------------------------------------------------
(* readLoop, cacheprog.go:57-156.  When readLoop returns, its goroutine    *)
(* calls lifecycleCancel with the returned error (nil: Canceled).          *)
Exit(c) == rl' = "exited" /\ Cancel(c)

(* The select at the top of the loop.                                     *)
LoopTop ==
    /\ rl = "top"
    /\ IF cause # None THEN Exit("canceled") ELSE rl' = "read" /\ UNCHANGED cause
    /\ UNCHANGED <<pos, chunk, pipe, h, run, result, out, goExited>>

(* NextValidLine and the dispatch on the command.  runAsync starts the    *)
(* handler before the body is read.                                        *)
ReadRecord ==
    LET r == Input[pos] IN
    /\ rl = "read"
    /\ \/ /\ pos > Len(Input) \/ goExited
          /\ Exit("canceled")
          /\ UNCHANGED <<pos, h, pipe>>
       \/ /\ ReadErrors
          /\ Exit("err")
          /\ UNCHANGED <<pos, h, pipe>>
       \/ /\ pos <= Len(Input) /\ r.cmd = "close"
          /\ Exit("canceled")
          /\ UNCHANGED <<pos, h, pipe>>
       \/ /\ pos <= Len(Input) /\ r.cmd \in {"get", "unknown"}
          /\ h' = [h EXCEPT ![pos] = "run"]
          /\ pos' = pos + 1 /\ rl' = "top"
          /\ UNCHANGED <<pipe, cause>>
       \/ /\ pos <= Len(Input) /\ r.cmd = "put" /\ r.chunks = 0
          /\ h' = [h EXCEPT ![pos] = "putRead"]
          /\ pipe' = [pipe EXCEPT ![pos].w = "eof"]
          /\ pos' = pos + 1 /\ rl' = "top"
          /\ UNCHANGED cause
       \/ /\ pos <= Len(Input) /\ r.cmd = "put" /\ r.chunks > 0
          /\ h' = [h EXCEPT ![pos] = "putRead"]
          /\ rl' = "body"
          /\ UNCHANGED <<pos, pipe, cause>>
    /\ chunk' = 0
    /\ UNCHANGED <<run, result, out, goExited>>

(* cacheprog.go:113-118: the next body line is read and written to the    *)
(* pipe; a read error closes the pipe with an error and ends readLoop.    *)
ReadBody ==
    /\ rl = "body"
    /\ \/ /\ pipe' = [pipe EXCEPT ![pos].pending = TRUE]
          /\ chunk' = chunk + 1 /\ rl' = "bodyWrite"
          /\ UNCHANGED cause
       \/ /\ ReadErrors \/ goExited
          /\ pipe' = [pipe EXCEPT ![pos].w = "err"]
          /\ Exit("err")
          /\ UNCHANGED chunk
    /\ UNCHANGED <<pos, h, run, result, out, goExited>>

(* Mutant: the loop ends one body line late.                             *)
BodyWrittenLate ==
    /\ rl = "bodyWrite" /\ ~pipe[pos].pending
    /\ IF chunk > Input[pos].chunks
         THEN /\ pipe' = [pipe EXCEPT ![pos].w = "eof"]
              /\ pos' = pos + 1 /\ rl' = "top"
         ELSE rl' = "body" /\ UNCHANGED <<pipe, pos>>
    /\ UNCHANGED <<chunk, h, cause, run, result, out, goExited>>

(* Mutant: the last body line does not close the pipe.                   *)
BodyWrittenNoClose ==
    /\ rl = "bodyWrite" /\ ~pipe[pos].pending
    /\ IF chunk = Input[pos].chunks
         THEN pos' = pos + 1 /\ rl' = "top" /\ UNCHANGED pipe
         ELSE rl' = "body" /\ UNCHANGED <<pipe, pos>>
    /\ UNCHANGED <<chunk, h, cause, run, result, out, goExited>>

(* pipeWrite.Write returns once the handler has read the chunk (its error *)
(* is ignored); the last line (not isPrefix) closes the pipe.             *)
BodyWritten ==
    /\ rl = "bodyWrite" /\ ~pipe[pos].pending
    /\ IF chunk = Input[pos].chunks
         THEN /\ pipe' = [pipe EXCEPT ![pos].w = "eof"]
              /\ pos' = pos + 1 /\ rl' = "top"
         ELSE rl' = "body" /\ UNCHANGED <<pipe, pos>>
    /\ UNCHANGED <<chunk, h, cause, run, result, out, goExited>>

-----------------------------------------------------------------------------
(* Mutant: an unknown command is dropped without a response.             *)
HandleGetNoDefault(i) ==
    /\ h[i] = "run"
    /\ h' = [h EXCEPT ![i] = "done"]
    /\ IF Input[i].cmd = "unknown" THEN UNCHANGED <<out, cause>>
       ELSE WriteResponse(Input[i].id)
    /\ UNCHANGED <<pos, rl, chunk, pipe, run, result, goExited>>

(* The get handler (cacheprog.go:127-146) and the unknown-command handler *)
(* (147-153): one call, one response with the record's ID.                *)
HandleGet(i) ==
    /\ h[i] = "run"
    /\ h' = [h EXCEPT ![i] = "done"]
    /\ WriteResponse(Input[i].id)
    /\ UNCHANGED <<pos, rl, chunk, pipe, run, result, goExited>>

(* The put handler (cacheprog.go:90-107) reads the body from pipeRead.    *)
PutReadChunk(i) ==
    /\ h[i] = "putRead" /\ pipe[i].pending
    /\ pipe' = [pipe EXCEPT ![i].pending = FALSE]
    /\ UNCHANGED <<pos, rl, chunk, h, cause, run, result, out, goExited>>

(* handler.Put returns, at the end of the body or when the pipe reports   *)
(* an error, or (EarlyReturn) before reading it all: the daemon is        *)
(* unreachable, the request times out, or the server answers without     *)
(* consuming the body.  pipeRead is never closed.                         *)
PutReturn(i) ==
    /\ h[i] = "putRead"
    /\ \/ ~pipe[i].pending /\ pipe[i].w # "open"
       \/ EarlyReturn
    /\ h' = [h EXCEPT ![i] = "done"]
    /\ WriteResponse(Input[i].id)
    /\ UNCHANGED <<pos, rl, chunk, pipe, run, result, goExited>>

(* The Go command exits: stdin reaches its end once the buffered lines   *)
(* are read, and writes to stdout fail.                                   *)
GoExit ==
    /\ GoExits /\ ~goExited
    /\ goExited' = TRUE
    /\ UNCHANGED <<pos, rl, chunk, pipe, h, cause, run, result, out>>

-----------------------------------------------------------------------------
ReadLoop == LoopTop \/ ReadRecord \/ ReadBody \/ BodyWritten
RunSteps == SendCapability \/ RunWait \/ RunReturn
Handler(i) == HandleGet(i) \/ PutReadChunk(i) \/ PutReturn(i)

Next ==
    \/ RunSteps
    \/ ReadLoop
    \/ \E i \in Idx : Handler(i)
    \/ GoExit

(* Every goroutine that can run runs; stdin delivers what the Go command  *)
(* wrote.  Whether stdout breaks is up to the Go command.                 *)
Spec == Init /\ [][Next]_vars /\ WF_vars(RunSteps) /\ WF_vars(ReadLoop)
        /\ \A i \in Idx : WF_vars(Handler(i))

-----------------------------------------------------------------------------
(* Run returns: after the Go command has written its records (ending with *)
(* close or end of input), the engine finishes (spec: close terminates    *)
(* reads and the engine then awaits outstanding handlers).                *)
RunReturns == <>(run = "returned")

(* A put handler that has returned with its body still unread: a chunk  *)
(* is pending or pipeWrite is still open.                                 *)
Abandoned(i) == h[i] = "done" /\ (pipe[i].pending \/ pipe[i].w = "open")

(* Run returns unless a put handler abandoned its body: whatever stdin    *)
(* and stdout do, readLoop ends, the deferred wg.Wait sees every handler  *)
(* finish, and Run returns (the abandoned case is engine_pipe_hang).      *)
RunReturnsUnlessAbandoned == <>(run = "returned" \/ \E i \in Idx : Abandoned(i))

(* When Run returns nil no handler is left running and every request     *)
(* readLoop dispatched has its response on stdout (unless stdout broke):  *)
(* the deferred wg.Wait keeps Run from returning before the handlers.     *)
AnsweredBeforeReturn ==
    result = "nil" =>
        /\ Running = {}
        /\ \A i \in Idx : h[i] # "none" =>
              goExited \/ \E k \in DOMAIN out : out[k] = Input[i].id

(* Every request readLoop dispatched is eventually answered on stdout,    *)
(* unless the Go command has exited.                                      *)
EveryRequestAnswered ==
    \A i \in Idx : h[i] # "none" ~> (goExited \/ \E k \in DOMAIN out : out[k] = Input[i].id)

(* runAsync (cacheprog.go:158-164) starts a handler with wg.Add.  No      *)
(* handler starts after Run has returned unless the Go command exited     *)
(* first.  Run returns after the lifecycle is cancelled and wg.Wait; a    *)
(* cancel by readLoop's own exit stops all dispatch, but a cancel by a    *)
(* failed write to stdout leaves readLoop past its select, and its wg.Add *)
(* can then follow wg.Wait.                                               *)
NoHandlerAfterReturn ==
    [][run = "returned" /\ (\E i \in Idx : h[i] = "none" /\ h'[i] # "none")
         => goExited]_vars
=============================================================================
