------------------------------ MODULE DesktopChat ------------------------------
(***************************************************************************)
(* The chat of the desktop application: an answer is streamed in rounds,   *)
(* with tools called between them, and one flag for the whole application  *)
(* asks for an answer to be given up.  It is looked at once per chunk.     *)
(***************************************************************************)
EXTENDS DesktopState

CONSTANTS
  MaxIterations,   \* rounds of one answer
  MaxChunks        \* bound on the chunks of one answer

VARIABLES
  cancel_flag,
  iteration, chunks,   \* of each answer
  late                 \* chunks shown since the answer was to be cancelled,
                       \* or None: a history

chatVars == <<cancel_flag, iteration, chunks, late>>

ChatInit ==
  /\ cancel_flag = FALSE
  /\ iteration = [n \in Commands |-> 0]
  /\ chunks = [n \in Commands |-> 0]
  /\ late = [n \in Commands |-> None]

Answering(n) == pc[n] \in {"ask", "stream", "chunk", "tools"}

(* AppState::get_repo reads the active name, then what is loaded under it; *)
(* the answer keeps that graph whatever is opened or reloaded later.       *)
ActiveName(n) ==
  /\ pc[n] = "activeName"
  /\ IF active_repo = None
     THEN Return(n) /\ UNCHANGED repo
     ELSE /\ repo' = [repo EXCEPT ![n] = active_repo]
          /\ GoTo(n, "getRepo")
          /\ UNCHANGED <<localVars, load_lock>>
  /\ UNCHANGED <<started, kind, diskVars, registry, repos, active_repo, removed, chatVars>>

GetRepo(n) ==
  /\ pc[n] = "getRepo" /\ kind[n] = "chat_ask"
  /\ IF repos[repo[n]] = None
     THEN Return(n)
     ELSE /\ got' = [got EXCEPT ![n] = repos[repo[n]]]
          /\ GoTo(n, "ask")
          /\ UNCHANGED <<entries, load_lock>>
  /\ UNCHANGED <<started, kind, repo, diskVars, registry, repos, active_repo, removed, chatVars>>

ChatAsk == Give("chat_ask", None, "activeName") /\ UNCHANGED chatVars

AnswerStep(n) ==
  UNCHANGED <<started, kind, repo, diskVars, registry, repos, active_repo, removed>>

(* No provider, or one that fails: the answer is made from the graph, or,  *)
(* after the first round, is an error.                                     *)
StreamCompletion(n) ==
  /\ pc[n] = "ask"
  /\ \/ /\ iteration' = [iteration EXCEPT ![n] = @ + 1]
        /\ GoTo(n, "stream")
        /\ UNCHANGED <<localVars, load_lock>>
     \/ Return(n) /\ UNCHANGED iteration
  /\ AnswerStep(n)
  /\ UNCHANGED <<cancel_flag, chunks, late>>

(* Mutant: the flag is looked at between the rounds only. *)
NextChunkUnchecked(n) ==
  /\ pc[n] = "stream"
  /\ chunks[n] < MaxChunks
  /\ GoTo(n, "chunk")
  /\ AnswerStep(n)
  /\ UNCHANGED <<localVars, load_lock, chatVars>>

(* A chunk has come. *)
NextChunk(n) ==
  /\ pc[n] = "stream"
  /\ chunks[n] < MaxChunks
  /\ GoTo(n, IF cancel_flag THEN "cancelled" ELSE "chunk")
  /\ AnswerStep(n)
  /\ UNCHANGED <<localVars, load_lock, chatVars>>

ShowChunk(n) ==
  /\ pc[n] = "chunk"
  /\ chunks' = [chunks EXCEPT ![n] = @ + 1]
  /\ late' = [late EXCEPT ![n] = IF @ = None THEN None ELSE @ + 1]
  /\ GoTo(n, "stream")
  /\ AnswerStep(n)
  /\ UNCHANGED <<localVars, load_lock, cancel_flag, iteration>>

(* The request is used up, also when it was meant for another answer.      *)
Cancelled(n) ==
  /\ pc[n] = "cancelled"
  /\ cancel_flag' = FALSE
  /\ late' = [m \in Commands |-> None]
  /\ Return(n)
  /\ AnswerStep(n)
  /\ UNCHANGED <<iteration, chunks>>

(* The stream is over: the model called tools, or announced to, or is      *)
(* done; after the last round the answer says that it is incomplete.       *)
EndOfStream(n) ==
  /\ pc[n] = "stream"
  /\ \/ GoTo(n, "tools") /\ UNCHANGED <<localVars, load_lock>>
     \/ Return(n)
  /\ AnswerStep(n)
  /\ UNCHANGED chatVars

ExecuteTools(n) ==
  /\ pc[n] = "tools"
  /\ IF iteration[n] < MaxIterations
     THEN GoTo(n, "ask") /\ UNCHANGED <<localVars, load_lock>>
     ELSE Return(n)
  /\ AnswerStep(n)
  /\ UNCHANGED chatVars

ChatCancel ==
  /\ Give("chat_cancel", None, "done")
  /\ cancel_flag' = TRUE
  /\ late' = [n \in Commands |-> IF Answering(n) /\ late[n] = None THEN 0 ELSE late[n]]
  /\ UNCHANGED <<iteration, chunks>>

ChatStep(n) ==
  \/ ActiveName(n)
  \/ GetRepo(n)
  \/ StreamCompletion(n)
  \/ NextChunk(n)
  \/ ShowChunk(n)
  \/ Cancelled(n)
  \/ EndOfStream(n)
  \/ ExecuteTools(n)

ChatNext ==
  \/ ChatAsk
  \/ ChatCancel
  \/ \E n \in Commands : ChatStep(n)

-----------------------------------------------------------------------------
(* An answer that is to be cancelled shows at most one chunk more, which   *)
(* it had before it looked at the flag, in whichever round it is; unless   *)
(* another answer has used the request up.                                 *)
CancelStopsSoon == \A n \in Commands : late[n] \in {None, 0, 1}

=============================================================================
