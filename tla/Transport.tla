----------------------------- MODULE Transport ------------------------------
(***************************************************************************)
(* Requests between their admission and the end of the process: the        *)
(* debounced record of which API keys were used, flushed in the            *)
(* background, and the sessions of the MCP endpoint, closed at shutdown.   *)
(***************************************************************************)
EXTENDS FiniteSets

CONSTANTS Call,     \* concurrent MCP requests
          Token     \* API keys

VARIABLES stopped,    \* the transport's context is cancelled
          sweeping,   \* the SDK's Shutdown has yet to take its snapshot of sessions
          call,       \* where each MCP request is
          sessions,   \* MCP sessions, named after the request that opened them
          dirty,      \* keys used since the last flush began
          batch,      \* keys of the flush that is running
          flusher,    \* "waiting", "flushing", "last", "done"
          unsaved,    \* keys used since the repository last recorded a use of them
          lost        \* keys of a flush that failed, or used after the last one

mcpVars == <<stopped, sweeping, call, sessions>>
usedVars == <<dirty, batch, flusher, unsaved, lost>>
transportVars == <<mcpVars, usedVars>>

TransportInit ==
    /\ stopped = FALSE /\ sweeping = FALSE
    /\ call = [c \in Call |-> "idle"] /\ sessions = {}
    /\ dirty = {} /\ batch = {} /\ flusher = "waiting" /\ unsaved = {} /\ lost = {}
-----------------------------------------------------------------------------
(* The MCP endpoint.                                                       *)

\* A request after the cancellation is refused at once.
ServeHTTP(c) ==
    /\ call[c] = "idle" /\ ~stopped
    /\ call' = [call EXCEPT ![c] = "admitted"]
    /\ UNCHANGED <<stopped, sweeping, sessions, usedVars>>

\* The SDK opens a session for a request that initializes one, even when it was
\* cancelled on its way; other requests pass, or are refused before.
Initialize(c) ==
    /\ call[c] = "admitted" /\ call' = [call EXCEPT ![c] = "leaving"]
    /\ sessions' \in {sessions, sessions \cup {c}}
    /\ UNCHANGED <<stopped, sweeping, usedVars>>

\* Mutant: a request leaves its session to the shutdown.
LeaveOnly(c) ==
    /\ call[c] = "leaving" /\ call' = [call EXCEPT ![c] = "idle"]
    /\ UNCHANGED <<stopped, sweeping, sessions, usedVars>>

\* The deferred call: a request that leaves after the cancellation closes every session.
Leave(c) ==
    /\ call[c] = "leaving" /\ call' = [call EXCEPT ![c] = "idle"]
    /\ sessions' = IF stopped THEN {} ELSE sessions
    /\ UNCHANGED <<stopped, sweeping, usedVars>>

\* A client ends its session, or it has been idle for too long.
SessionEnds ==
    /\ \E s \in sessions : sessions' = sessions \ {s}
    /\ UNCHANGED <<stopped, sweeping, call, usedVars>>

Shutdown ==
    /\ ~stopped /\ stopped' = TRUE /\ sweeping' = TRUE
    /\ UNCHANGED <<call, sessions, usedVars>>

\* The SDK closes the sessions it finds.
CloseSessions ==
    /\ sweeping /\ sweeping' = FALSE /\ sessions' = {}
    /\ UNCHANGED <<stopped, call, usedVars>>
-----------------------------------------------------------------------------
(* lastUsedTracker.                                                        *)

MarkUsed(k) ==
    /\ dirty' = dirty \cup {k} /\ unsaved' = unsaved \cup {k}
    /\ lost' = IF flusher \in {"last", "done"} THEN lost \cup {k} ELSE lost \ {k}
    /\ UNCHANGED <<mcpVars, batch, flusher>>

\* Every minute: the dirty set is taken and replaced under the mutex.
FlushBegins ==
    /\ flusher = "waiting" /\ dirty # {}
    /\ batch' = dirty /\ dirty' = {} /\ flusher' = "flushing"
    /\ UNCHANGED <<mcpVars, unsaved, lost>>

\* Once more when the application's context ends.
LastFlush ==
    /\ flusher = "waiting" /\ stopped
    /\ batch' = dirty /\ dirty' = {} /\ flusher' = "last"
    /\ UNCHANGED <<mcpVars, unsaved, lost>>

\* Mutant: the dirty set is cleared after the flush.
ClearsDirty ==
    /\ flusher \in {"flushing", "last"}
    /\ flusher' = IF flusher = "last" THEN "done" ELSE "waiting"
    /\ unsaved' = unsaved \ (batch \ dirty)
    /\ batch' = {} /\ dirty' = {} /\ UNCHANGED <<mcpVars, lost>>

\* UpdateLastUsedAt records the keys of the batch; a use since then is a later one.
FlushEnds ==
    /\ flusher \in {"flushing", "last"}
    /\ flusher' = IF flusher = "last" THEN "done" ELSE "waiting"
    /\ unsaved' = unsaved \ (batch \ dirty)
    /\ batch' = {} /\ UNCHANGED <<mcpVars, dirty, lost>>

\* It fails, and the batch is dropped.
FlushFails ==
    /\ flusher \in {"flushing", "last"}
    /\ flusher' = IF flusher = "last" THEN "done" ELSE "waiting"
    /\ lost' = lost \cup (batch \ dirty)
    /\ batch' = {} /\ UNCHANGED <<mcpVars, dirty, unsaved>>

TransportNext ==
    \/ \E c \in Call : ServeHTTP(c) \/ Initialize(c) \/ Leave(c)
    \/ SessionEnds \/ Shutdown \/ CloseSessions
    \/ \E k \in Token : MarkUsed(k)
    \/ FlushBegins \/ LastFlush \/ FlushEnds \/ FlushFails

TransportSpec == TransportInit /\ [][TransportNext]_transportVars
-----------------------------------------------------------------------------
(* Properties.                                                             *)

\* Every variable has its type (httpTransport, lastUsedTracker).
TransportTypeOK ==
    /\ {stopped, sweeping} \subseteq BOOLEAN
    /\ call \in [Call -> {"idle", "admitted", "leaving"}] /\ sessions \subseteq Call
    /\ flusher \in {"waiting", "flushing", "last", "done"}
    /\ batch # {} => flusher \in {"flushing", "last"}
    /\ dirty \cup batch \cup lost \cup unsaved \subseteq Token

\* No MCP session outlives the shutdown: one whose initialization was admitted
\* before it and finished after the SDK's sweep is closed by its own request
\* (httpTransport.ServeHTTP and Shutdown).
NoSessionLeft ==
    stopped /\ ~sweeping /\ (\A c \in Call : call[c] = "idle") => sessions = {}

\* A use of a key is recorded, is about to be, or was lost to a flush that
\* failed or to the end of the process; never to a request that marks it while
\* a flush is running (lastUsedTracker.markUsed and flush).
UsesAreKept ==
    unsaved \subseteq batch \cup lost \cup (IF flusher \in {"last", "done"} THEN {} ELSE dirty)
=============================================================================
