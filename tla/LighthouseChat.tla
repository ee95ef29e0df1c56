---------------------------- MODULE LighthouseChat ----------------------------
(***************************************************************************)
(* The Lighthouse chat page: a submit that may first create the session,   *)
(* then opens an EventSource on it and only then sends the message; the    *)
(* events of the run that answers; the reload of the messages when a run   *)
(* ends; "new chat" and archiving, which reset the page in place; leaving  *)
(* the page.  The session server is outside the repository: it runs one    *)
(* agent per session, answers 409 to a second message and keeps no events  *)
(* for listeners that are not connected.                                   *)
(*                                                                         *)
(* What is typed and streamed is left out, and so is the stream's status,  *)
(* which only decides whether a Retry button (a submit like any other) is  *)
(* shown.                                                                  *)
(***************************************************************************)
EXTENDS Naturals, FiniteSets

CONSTANT NumSubmits \* bound: messages submitted from the page

ASSUME ChatAssumption == NumSubmits \in Nat \ {0}

Submits == 1 .. NumSubmits
NoSession == NumSubmits + 1  \* the page is on a new chat
Elsewhere == NumSubmits + 1  \* a run started from another page
Sessions == 0 .. NumSubmits  \* 0 exists from the start, k is created by submit k

VARIABLES
  mounted,       \* the page is on screen
  activeSession, \* activeSessionId and the ref that mirrors it
  source,        \* eventSourceRef: the submit that opened the EventSource, 0 for none
  link,          \* its readyState, "connecting" or "open"
  gate,          \* streamState.activeTaskId: the submit whose run it names, 0 for null
  isSubmitting,
  blocked,       \* blockedByConflict
  phase,         \* where each submitMessage call stands
  session,       \* the session each submit writes to
  running,       \* server: the submit whose run is in progress in each session, or 0
  refreshing,    \* submits whose run's end started a reload of the messages
  shown,         \* the sessions whose messages are on screen
  abandoned,     \* history: submits in progress when the page was reset or left
  uninvited,     \* history: submits whose new session came back to a page that had been
                 \* reset or left, or had got another session meanwhile
  fate           \* history of the stream in eventSourceRef: "dropped" if it lost its connection,
                 \* "swept" if the reload for an earlier run cleared its gate, "unheard" if its
                 \* send call failed in transport or a run ended before it was connected

chatVars == <<mounted, activeSession, source, link, gate, isSubmitting, blocked, phase, session,
              running, refreshing, shown, abandoned, uninvited, fate>>

chatHistory == <<abandoned, uninvited, fate>>
Outstanding == {k \in Submits : phase[k] \notin {"new", "done"}}

ChatTypeOK ==
  /\ mounted \in BOOLEAN /\ isSubmitting \in BOOLEAN /\ blocked \in BOOLEAN
  /\ activeSession \in Sessions \cup {NoSession}
  /\ source \in 0 .. NumSubmits /\ gate \in 0 .. NumSubmits
  /\ link \in {"connecting", "open"}
  /\ phase \in [Submits -> {"new", "creating", "sending", "accepted", "refused", "conflict",
                            "lost", "reloading", "done"}]
  /\ session \in [Submits -> Sessions \cup {NoSession}]
  /\ running \in [Sessions -> 0 .. Elsewhere]
  /\ shown \in SUBSET Sessions
  /\ refreshing \in SUBSET Submits
  /\ abandoned \in SUBSET Submits /\ uninvited \in SUBSET Submits
  /\ fate \in SUBSET {"dropped", "swept", "unheard"}

\* The page opens on an existing session or on a new chat.
ChatInit ==
  /\ mounted = TRUE
  /\ activeSession \in {0, NoSession}
  /\ shown = Sessions \cap {activeSession}
  /\ source = 0 /\ link = "connecting" /\ gate = 0
  /\ isSubmitting = FALSE /\ blocked = FALSE
  /\ phase = [k \in Submits |-> "new"]
  /\ session = [k \in Submits |-> NoSession]
  /\ running = [s \in Sessions |-> 0]
  /\ refreshing = {}
  /\ abandoned = {} /\ uninvited = {} /\ fate = {}

-----------------------------------------------------------------------------
(* Submitting a message.                                                   *)

CloseStream == source' = 0 /\ link' = "connecting" /\ fate' = {}

CanSend == gate = 0 /\ ~blocked /\ ~isSubmitting

\* submitMessage after ensureSession: the optimistic message, the gate on a
\* provisional task, the stream, and then the request.
BeginSend(k, s) ==
  /\ blocked' = FALSE
  /\ shown' = shown \cup {s}
  /\ gate' = k
  /\ source' = k /\ link' = "connecting" /\ fate' = {}
  /\ session' = [session EXCEPT ![k] = s]
  /\ phase' = [phase EXCEPT ![k] = "sending"]

SubmitMessage(k) ==
  /\ mounted /\ CanSend
  /\ phase[k] = "new" /\ \A j \in 1 .. k - 1 : phase[j] # "new"
  /\ isSubmitting' = TRUE
  /\ \/ /\ activeSession # NoSession
        /\ BeginSend(k, activeSession)
     \/ /\ activeSession = NoSession
        /\ phase' = [phase EXCEPT ![k] = "creating"]
        /\ UNCHANGED <<blocked, shown, gate, source, link, fate, session>>
  /\ UNCHANGED <<mounted, activeSession, running, refreshing, abandoned, uninvited>>

\* ensureSession: the new session becomes the active one, whatever the page has
\* turned to meanwhile; without a session the submit ends.
SessionCreated(k) ==
  /\ phase[k] = "creating"
  /\ activeSession' = k
  /\ BeginSend(k, k)
  /\ uninvited' = IF k \in abandoned \/ activeSession # NoSession THEN uninvited \cup {k}
                  ELSE uninvited
  /\ UNCHANGED <<mounted, isSubmitting, running, refreshing, abandoned>>

SessionNotCreated(k) ==
  /\ phase[k] = "creating"
  /\ phase' = [phase EXCEPT ![k] = "done"]
  /\ isSubmitting' = FALSE
  /\ UNCHANGED <<mounted, activeSession, source, link, gate, blocked, session, running, refreshing,
                 shown, chatHistory>>

\* sendLighthouseV2Message reaches the server, is refused, or fails in transport
\* before or after the server has taken it.
SendMessage(k) ==
  LET s == session[k]
      taken == running[s] = 0
  IN  /\ phase[k] = "sending"
      /\ \/ /\ phase' = [phase EXCEPT ![k] = IF taken THEN "accepted" ELSE "conflict"]
            /\ running' = IF taken THEN [running EXCEPT ![s] = k] ELSE running
         \/ /\ phase' = [phase EXCEPT ![k] = "refused"]
            /\ UNCHANGED running
         \/ /\ phase' = [phase EXCEPT ![k] = "lost"]
            /\ running' \in {running} \cup (IF taken THEN {[running EXCEPT ![s] = k]} ELSE {})
      /\ UNCHANGED <<mounted, activeSession, source, link, gate, isSubmitting, blocked, session,
                     refreshing, shown, chatHistory>>

AcceptedUngated(k) ==
  /\ phase[k] = "accepted"
  /\ phase' = [phase EXCEPT ![k] = "done"]
  /\ gate' = 0 /\ isSubmitting' = FALSE
  /\ UNCHANGED <<mounted, activeSession, source, link, blocked, session, running, refreshing,
                 shown, chatHistory>>

AcceptedAlwaysGates(k) ==
  /\ phase[k] = "accepted"
  /\ phase' = [phase EXCEPT ![k] = "done"]
  /\ gate' = k /\ isSubmitting' = FALSE
  /\ UNCHANGED <<mounted, activeSession, source, link, blocked, session, running, refreshing,
                 shown, chatHistory>>

\* The task's id replaces the provisional one if that is still the gate: an end that
\* came before this answer is not undone.
SendAccepted(k) ==
  /\ phase[k] = "accepted"
  /\ phase' = [phase EXCEPT ![k] = "done"]
  /\ isSubmitting' = FALSE
  /\ UNCHANGED <<mounted, activeSession, source, link, gate, blocked, session, running, refreshing,
                 shown, chatHistory>>

\* The error path: the stream, whosever it is, is closed and the gate opened; after
\* a 409 the composer stays blocked and the messages are loaded again.
SendFailed(k) ==
  /\ phase[k] \in {"refused", "conflict"}
  /\ CloseStream /\ gate' = 0
  /\ blocked' = (blocked \/ phase[k] = "conflict")
  /\ phase' = [phase EXCEPT ![k] = IF @ = "conflict" THEN "reloading" ELSE "done"]
  /\ isSubmitting' = (isSubmitting /\ phase[k] = "conflict")
  /\ UNCHANGED <<mounted, activeSession, session, running, refreshing, shown, abandoned, uninvited>>

\* The call rejects: only the finally block runs.
SendRejected(k) ==
  /\ phase[k] = "lost"
  /\ phase' = [phase EXCEPT ![k] = "done"]
  /\ isSubmitting' = FALSE
  /\ fate' = IF source = k THEN fate \cup {"unheard"} ELSE fate
  /\ UNCHANGED <<mounted, activeSession, source, link, gate, blocked, session, running, refreshing,
                 shown, abandoned, uninvited>>

\* refreshMessages: the result replaces the messages, unless the call failed or the
\* page is no longer on that session.
RefreshMessages(s) ==
  \/ s = activeSession /\ shown' = {s}
  \/ shown' = shown

ConflictReloaded(k) ==
  /\ phase[k] = "reloading"
  /\ RefreshMessages(session[k])
  /\ phase' = [phase EXCEPT ![k] = "done"]
  /\ isSubmitting' = FALSE
  /\ UNCHANGED <<mounted, activeSession, source, link, gate, blocked, session, running, refreshing,
                 chatHistory>>

-----------------------------------------------------------------------------
(* The stream.                                                             *)

StreamOpens ==
  /\ source # 0 /\ link = "connecting"
  /\ link' = "open"
  /\ UNCHANGED <<mounted, activeSession, source, gate, isSubmitting, blocked, phase, session,
                 running, refreshing, shown, chatHistory>>

\* onerror of the current source, which the browser reconnects: "disconnect" opens the gate.
StreamDrops ==
  /\ source # 0
  /\ link' = "connecting"
  /\ gate' = 0
  /\ fate' = fate \cup {"dropped"}
  /\ UNCHANGED <<mounted, activeSession, source, isSubmitting, blocked, phase, session, running,
                 refreshing, shown, abandoned, uninvited>>

\* onerror with the source closed for good (a 401 or 404 on its request).
StreamRefused ==
  /\ source # 0 /\ link = "connecting"
  /\ CloseStream /\ gate' = 0
  /\ UNCHANGED <<mounted, activeSession, isSubmitting, blocked, phase, session, running,
                 refreshing, shown, abandoned, uninvited>>

\* A run ends, with message.end or error.  A connected stream of its session delivers
\* the event: handleTerminalEvent closes it and reloads the messages.
RunEnds(s) ==
  LET listening == source # 0 /\ session[source] = s
  IN  /\ running[s] # 0
      /\ running' = [running EXCEPT ![s] = 0]
      /\ \/ /\ listening /\ link = "open"
            /\ CloseStream /\ gate' = 0 /\ blocked' = FALSE
            /\ refreshing' = refreshing \cup {source}
         \/ /\ ~(listening /\ link = "open")
            /\ fate' = IF listening THEN fate \cup {"unheard"} ELSE fate
            /\ UNCHANGED <<gate, source, link, blocked, refreshing>>
      /\ UNCHANGED <<mounted, activeSession, isSubmitting, phase, session, shown, abandoned,
                     uninvited>>

TerminalRefreshUnguarded(k) ==
  /\ k \in refreshing
  /\ refreshing' = refreshing \ {k}
  /\ shown' = {session[k]} /\ gate' = 0
  /\ fate' = IF session[k] = activeSession /\ gate # 0 THEN fate \cup {"swept"} ELSE fate
  /\ UNCHANGED <<mounted, activeSession, source, link, isSubmitting, blocked, phase, session,
                 running, abandoned, uninvited>>

\* The reload after a run's end: if it succeeds for the active session, the stream
\* state starts over, the one of a message submitted meanwhile included.
TerminalRefresh(k) ==
  /\ k \in refreshing
  /\ refreshing' = refreshing \ {k}
  /\ \/ /\ session[k] = activeSession
        /\ shown' = {session[k]} /\ gate' = 0
        /\ fate' = IF gate # 0 THEN fate \cup {"swept"} ELSE fate
     \/ UNCHANGED <<shown, gate, fate>>
  /\ UNCHANGED <<mounted, activeSession, source, link, isSubmitting, blocked, phase, session,
                 running, abandoned, uninvited>>

-----------------------------------------------------------------------------
(* The page.                                                               *)

\* "New chat", or archiving the session on screen.
ResetToNewChat ==
  /\ mounted
  /\ activeSession' = NoSession /\ shown' = {}
  /\ CloseStream /\ gate' = 0 /\ isSubmitting' = FALSE /\ blocked' = FALSE
  /\ abandoned' = abandoned \cup Outstanding
  /\ UNCHANGED <<mounted, phase, session, running, refreshing, uninvited>>

\* The user goes to another page: its state is gone, the calls in progress go on.
Unmount ==
  /\ mounted
  /\ mounted' = FALSE
  /\ activeSession' = NoSession /\ shown' = {}
  /\ CloseStream /\ gate' = 0 /\ isSubmitting' = FALSE /\ blocked' = FALSE
  /\ refreshing' = {}
  /\ abandoned' = abandoned \cup Outstanding
  /\ UNCHANGED <<phase, session, running, uninvited>>

RunElsewhere(s) ==
  /\ mounted /\ running[s] = 0 /\ s = activeSession
  /\ running' = [running EXCEPT ![s] = Elsewhere]
  /\ UNCHANGED <<mounted, activeSession, source, link, gate, isSubmitting, blocked, phase, session,
                 refreshing, shown, chatHistory>>

Answer(k) ==
  \/ SessionCreated(k) \/ SessionNotCreated(k) \/ SendMessage(k)
  \/ SendAccepted(k) \/ SendFailed(k) \/ SendRejected(k) \/ ConflictReloaded(k)

ChatNext ==
  \/ \E k \in Submits : SubmitMessage(k) \/ Answer(k) \/ TerminalRefresh(k)
  \/ \E s \in Sessions : RunEnds(s) \/ RunElsewhere(s)
  \/ StreamOpens \/ StreamDrops \/ StreamRefused
  \/ ResetToNewChat \/ Unmount

\* Calls return, with an answer or an error, and the server ends every run.
ChatFairness ==
  /\ \A k \in Submits : WF_chatVars(Answer(k)) /\ WF_chatVars(TerminalRefresh(k))
  /\ \A s \in Sessions : WF_chatVars(RunEnds(s))

ChatSpec == ChatInit /\ [][ChatNext]_chatVars /\ ChatFairness

-----------------------------------------------------------------------------
(* Properties.                                                             *)

\* The messages on screen and the open stream belong to the session the page is on,
\* and no stream outlives the page, unless the call that creates a session came back
\* after the page had been reset or left, or had got the session of another submit:
\* refreshMessages and resetToNewChat drop the rest.
ChatOnOneSession ==
  uninvited = {} => /\ shown \subseteq {activeSession}
                    /\ source # 0 => mounted /\ session[source] = activeSession

\* A message is submitted only when the one before is done, unless the page was reset
\* under it: the finally block of the older call then clears the newer one's flag.
OneSubmitAtATime == abandoned = {} => Cardinality(Outstanding) <= 1

\* While a run's answer is streaming in, the composer is closed, unless the stream has
\* dropped or the reload of an earlier run's messages came back meanwhile.
ComposerClosedWhileAnswering ==
  \A k \in Submits :
    source = k /\ running[session[k]] = k /\ fate \cap {"dropped", "swept"} = {} => gate = k

\* A closed composer opens again: an end event, an error answer or a dropped stream
\* clears the gate, unless the send call failed in transport or the run had ended
\* before the stream was connected.
ComposerReopens ==
  \A k \in Submits :
    (mounted /\ gate = k) ~> (~mounted \/ gate # k \/ "unheard" \in fate)
=============================================================================
