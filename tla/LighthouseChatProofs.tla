------------------------- MODULE LighthouseChatProofs -------------------------
(***************************************************************************)
(* Proofs about LighthouseChat, for any number of submits: its types, that *)
(* the page stays on one session, that the composer is closed while an     *)
(* answer streams in, that one message is submitted at a time, and that    *)
(* whatever keeps the composer closed has an end under way (the safety     *)
(* part of ComposerReopens).                                               *)
(***************************************************************************)
EXTENDS LighthouseChat, FiniteSetTheorems, TLAPS

-----------------------------------------------------------------------------
(* Types *)

LEMMA Numbers ==
  /\ \A k \in Submits : /\ k \in Sessions /\ k # 0
                        /\ k \in 0 .. NumSubmits /\ k \in 0 .. Elsewhere
  /\ 0 \in Sessions /\ 0 \in 0 .. NumSubmits /\ 0 \in 0 .. Elsewhere
  /\ Elsewhere \in 0 .. Elsewhere /\ NoSession \notin Sessions
  BY ChatAssumption DEF Submits, Sessions, NoSession, Elsewhere

Phases == {"new", "creating", "sending", "accepted", "refused", "conflict", "lost",
           "reloading", "done"}

\* The flags of the page.
PageFlags == mounted \in BOOLEAN /\ isSubmitting \in BOOLEAN /\ blocked \in BOOLEAN

\* Everything else.
DataTypes ==
  /\ activeSession \in Sessions \cup {NoSession}
  /\ source \in 0 .. NumSubmits /\ gate \in 0 .. NumSubmits
  /\ link \in {"connecting", "open"}
  /\ phase \in [Submits -> Phases]
  /\ session \in [Submits -> Sessions \cup {NoSession}]
  /\ running \in [Sessions -> 0 .. Elsewhere]
  /\ shown \in SUBSET Sessions
  /\ refreshing \in SUBSET Submits
  /\ abandoned \in SUBSET Submits /\ uninvited \in SUBSET Submits
  /\ fate \in SUBSET {"dropped", "swept", "unheard"}

\* A submit that sends, listens or reloads has its session.
HasSession ==
  \A k \in Submits :
    session[k] = NoSession =>
      phase[k] \in {"new", "creating", "done"} /\ k # source /\ k \notin refreshing

LEMMA TypeParts == ChatTypeOK <=> PageFlags /\ DataTypes
  BY DEF ChatTypeOK, PageFlags, DataTypes, Phases

LEMMA InitChatTypes == ChatInit => ChatTypeOK
<1> SUFFICES ASSUME ChatInit PROVE ChatTypeOK
  OBVIOUS
<1>1. PageFlags
  BY DEF ChatInit, PageFlags
<1>2. activeSession \in Sessions \cup {NoSession} /\ shown \in SUBSET Sessions
  BY Numbers DEF ChatInit
<1>3. DataTypes
  BY <1>2, Numbers DEF ChatInit, DataTypes, Phases
<1> QED
  BY <1>1, <1>3, TypeParts

\* A submit starts to send to session s.
LEMMA BeginSendTypes ==
  ASSUME DataTypes, NEW k \in Submits, NEW s \in Sessions, BeginSend(k, s)
  PROVE  /\ shown' \in SUBSET Sessions
         /\ source' \in 0 .. NumSubmits /\ gate' \in 0 .. NumSubmits
         /\ link' \in {"connecting", "open"} /\ fate' \in SUBSET {"dropped", "swept", "unheard"}
         /\ phase' \in [Submits -> Phases]
         /\ session' \in [Submits -> Sessions \cup {NoSession}]
  BY Numbers DEF DataTypes, BeginSend, Phases

LEMMA SubmitTypes ==
  ASSUME ChatTypeOK, NEW k \in Submits, SubmitMessage(k)
  PROVE  ChatTypeOK'
<1>1. PageFlags /\ DataTypes
  BY TypeParts
<1>2. PageFlags'
  <2>1. blocked' \in BOOLEAN
    BY <1>1 DEF PageFlags, SubmitMessage, BeginSend
  <2> QED
    BY <1>1, <2>1 DEF PageFlags, SubmitMessage
<1>3. CASE activeSession # NoSession
  <2>1. BeginSend(k, activeSession) /\ activeSession \in Sessions
    BY <1>1, <1>3 DEF SubmitMessage, DataTypes
  <2>2. DataTypes'
    BY <1>1, <2>1, BeginSendTypes DEF SubmitMessage, DataTypes
  <2> QED
    BY <1>2, <2>2, TypeParts DEF ChatTypeOK, PageFlags, DataTypes, Phases
<1>4. CASE activeSession = NoSession
  <2>1. DataTypes'
    BY <1>1, <1>4 DEF SubmitMessage, DataTypes, Phases
  <2> QED
    BY <1>2, <2>1 DEF ChatTypeOK, PageFlags, DataTypes, Phases
<1> QED
  BY <1>3, <1>4

\* The calls of a submit come back.
LEMMA AnswerStepTypes ==
  ASSUME ChatTypeOK, HasSession, NEW k \in Submits, Answer(k)
  PROVE  ChatTypeOK'
<1>1. PageFlags /\ DataTypes
  BY TypeParts
<1>2. PageFlags'
  <2>1. isSubmitting' \in BOOLEAN
    BY <1>1 DEF PageFlags, Answer, SessionCreated, SessionNotCreated, SendMessage, SendAccepted,
                SendFailed, SendRejected, ConflictReloaded
  <2>2. blocked' \in BOOLEAN
    BY <1>1 DEF PageFlags, Answer, SessionCreated, SessionNotCreated, SendMessage, SendAccepted,
                SendFailed, SendRejected, ConflictReloaded, BeginSend
  <2> QED
    BY <1>1, <2>1, <2>2
    DEF PageFlags, Answer, SessionCreated, SessionNotCreated, SendMessage, SendAccepted,
        SendFailed, SendRejected, ConflictReloaded
<1>3. DataTypes'
  <2>1. CASE SessionCreated(k)
    <3>1. k \in Sessions
      BY Numbers
    <3>2. BeginSend(k, k)
      BY <2>1 DEF SessionCreated
    <3> QED
      BY <1>1, <2>1, <3>1, <3>2, BeginSendTypes DEF SessionCreated, DataTypes
  <2>2. CASE SendMessage(k)
    <3>1. running' \in [Sessions -> 0 .. Elsewhere]
      BY <1>1, <2>2, Numbers DEF SendMessage, DataTypes
    <3>2. phase' \in [Submits -> Phases]
      BY <1>1, <2>2 DEF SendMessage, DataTypes, Phases
    <3> QED
      BY <1>1, <2>2, <3>1, <3>2 DEF SendMessage, DataTypes, chatHistory
  <2>3. CASE SendFailed(k)
    <3>1. phase' \in [Submits -> Phases]
      BY <1>1, <2>3 DEF SendFailed, DataTypes, Phases
    <3> QED
      BY <1>1, <2>3, <3>1, Numbers DEF SendFailed, DataTypes, CloseStream
  <2>4. CASE ConflictReloaded(k)
    <3>1. shown' \in SUBSET Sessions
      <4>1. session[k] \in Sessions
        BY <1>1, <2>4 DEF HasSession, ConflictReloaded, DataTypes
      <4> QED
        BY <1>1, <2>4, <4>1 DEF ConflictReloaded, RefreshMessages, DataTypes
    <3> QED
      BY <1>1, <2>4, <3>1 DEF ConflictReloaded, DataTypes, Phases, chatHistory
  <2>5. CASE SessionNotCreated(k) \/ SendAccepted(k) \/ SendRejected(k)
    <3>1. phase' \in [Submits -> Phases] /\ fate' \in SUBSET {"dropped", "swept", "unheard"}
      BY <1>1, <2>5 DEF SessionNotCreated, SendAccepted, SendRejected, DataTypes, Phases,
                        chatHistory
    <3> QED
      BY <1>1, <2>5, <3>1
      DEF SessionNotCreated, SendAccepted, SendRejected, DataTypes, chatHistory
  <2> QED
    BY <2>1, <2>2, <2>3, <2>4, <2>5 DEF Answer
<1> QED
  BY <1>2, <1>3 DEF ChatTypeOK, PageFlags, DataTypes, Phases

\* The stream, the reload it starts, and the end of a run.
LEMMA StreamTypes ==
  ASSUME ChatTypeOK, HasSession,
         \/ StreamOpens \/ StreamDrops \/ StreamRefused
         \/ \E s \in Sessions : RunEnds(s) \/ RunElsewhere(s)
         \/ \E k \in Submits : TerminalRefresh(k)
  PROVE  ChatTypeOK'
<1>1. PageFlags /\ DataTypes
  BY TypeParts
<1>2. CASE StreamOpens \/ StreamDrops \/ StreamRefused
  <2>1. PageFlags'
    BY <1>1, <1>2 DEF PageFlags, StreamOpens, StreamDrops, StreamRefused
  <2>2. DataTypes'
    BY <1>1, <1>2, Numbers
    DEF DataTypes, StreamOpens, StreamDrops, StreamRefused, CloseStream, chatHistory
  <2> QED
    BY <2>1, <2>2 DEF ChatTypeOK, PageFlags, DataTypes, Phases
<1>3. ASSUME NEW s \in Sessions, RunEnds(s) PROVE ChatTypeOK'
  <2>1. PageFlags'
    <3>1. blocked' \in BOOLEAN
      BY <1>1, <1>3 DEF PageFlags, RunEnds
    <3> QED
      BY <1>1, <1>3, <3>1 DEF PageFlags, RunEnds
  <2>2. source # 0 => source \in Submits
    BY <1>1, ChatAssumption DEF DataTypes, Submits
  <2>3. /\ running' \in [Sessions -> 0 .. Elsewhere] /\ refreshing' \in SUBSET Submits
        /\ source' \in 0 .. NumSubmits /\ gate' \in 0 .. NumSubmits
        /\ link' \in {"connecting", "open"}
    BY <1>1, <1>3, <2>2, Numbers DEF DataTypes, RunEnds, CloseStream
  <2>4. fate' \in SUBSET {"dropped", "swept", "unheard"}
    BY <1>1, <1>3 DEF DataTypes, RunEnds, CloseStream
  <2>5. DataTypes'
    BY <1>1, <1>3, <2>3, <2>4 DEF DataTypes, RunEnds
  <2> QED
    BY <2>1, <2>5 DEF ChatTypeOK, PageFlags, DataTypes, Phases
<1>4. ASSUME NEW s \in Sessions, RunElsewhere(s) PROVE ChatTypeOK'
  <2>1. PageFlags'
    BY <1>1, <1>4 DEF PageFlags, RunElsewhere
  <2>2. DataTypes'
    BY <1>1, <1>4, Numbers DEF DataTypes, RunElsewhere, chatHistory
  <2> QED
    BY <2>1, <2>2 DEF ChatTypeOK, PageFlags, DataTypes, Phases
<1>5. ASSUME NEW k \in Submits, TerminalRefresh(k) PROVE ChatTypeOK'
  <2>1. PageFlags'
    BY <1>1, <1>5 DEF PageFlags, TerminalRefresh
  <2>2. session[k] \in Sessions
    BY <1>1, <1>5 DEF HasSession, TerminalRefresh, DataTypes
  <2>3. shown' \in SUBSET Sessions /\ gate' \in 0 .. NumSubmits
        /\ fate' \in SUBSET {"dropped", "swept", "unheard"} /\ refreshing' \in SUBSET Submits
    BY <1>1, <1>5, <2>2, Numbers DEF DataTypes, TerminalRefresh
  <2>4. DataTypes'
    BY <1>1, <1>5, <2>3 DEF DataTypes, TerminalRefresh
  <2> QED
    BY <2>1, <2>4 DEF ChatTypeOK, PageFlags, DataTypes, Phases
<1> QED
  BY <1>2, <1>3, <1>4, <1>5

\* The page is reset or left.
LEMMA ResetTypes ==
  ASSUME ChatTypeOK, ResetToNewChat \/ Unmount
  PROVE  ChatTypeOK'
<1>1. PageFlags /\ DataTypes
  BY TypeParts
<1>2. PageFlags'
  BY <1>1 DEF PageFlags, ResetToNewChat, Unmount
<1>3. Outstanding \subseteq Submits
  BY DEF Outstanding
<1>4. DataTypes'
  BY <1>1, <1>3, Numbers DEF DataTypes, ResetToNewChat, Unmount, CloseStream
<1> QED
  BY <1>2, <1>4 DEF ChatTypeOK, PageFlags, DataTypes, Phases

\* Every step keeps the sessions of the submits.
LEMMA HasSessionKept ==
  ASSUME ChatTypeOK, HasSession, ChatNext
  PROVE  HasSession'
<1>1. DataTypes
  BY TypeParts
<1>2. ASSUME NEW k \in Submits, SubmitMessage(k) PROVE HasSession'
  <2>1. CASE activeSession # NoSession
    BY <1>1, <1>2, <2>1 DEF HasSession, SubmitMessage, BeginSend, DataTypes
  <2>2. CASE activeSession = NoSession
    BY <1>1, <1>2, <2>2 DEF HasSession, SubmitMessage, DataTypes
  <2> QED
    BY <2>1, <2>2
<1>3. ASSUME NEW k \in Submits, Answer(k) PROVE HasSession'
  <2>1. CASE SessionCreated(k)
    <3>1. k # NoSession
      BY Numbers
    <3> QED
      BY <1>1, <2>1, <3>1 DEF HasSession, SessionCreated, BeginSend, DataTypes
  <2>2. CASE SessionNotCreated(k) \/ SendAccepted(k) \/ SendRejected(k) \/ ConflictReloaded(k)
    BY <1>1, <2>2
    DEF HasSession, SessionNotCreated, SendAccepted, SendRejected, ConflictReloaded, DataTypes
  <2>3. CASE SendMessage(k)
    BY <1>1, <2>3 DEF HasSession, SendMessage, DataTypes
  <2>4. CASE SendFailed(k)
    BY <1>1, <2>4, Numbers DEF HasSession, SendFailed, CloseStream, DataTypes
  <2> QED
    BY <1>3, <2>1, <2>2, <2>3, <2>4 DEF Answer
<1>4. ASSUME NEW k \in Submits, TerminalRefresh(k) PROVE HasSession'
  BY <1>4 DEF HasSession, TerminalRefresh
<1>5. CASE StreamOpens \/ StreamDrops \/ StreamRefused
  BY <1>5, Numbers DEF HasSession, StreamOpens, StreamDrops, StreamRefused, CloseStream
<1>6. ASSUME NEW s \in Sessions, RunEnds(s) PROVE HasSession'
  BY <1>6, Numbers DEF HasSession, RunEnds, CloseStream
<1>7. CASE \E s \in Sessions : RunElsewhere(s)
  BY <1>7 DEF HasSession, RunElsewhere
<1>8. CASE ResetToNewChat \/ Unmount
  BY <1>8, Numbers DEF HasSession, ResetToNewChat, Unmount, CloseStream
<1> QED
  BY <1>2, <1>3, <1>4, <1>5, <1>6, <1>7, <1>8 DEF ChatNext

LEMMA InitHasSession == ChatInit => HasSession
  BY Numbers DEF ChatInit, HasSession

ChatTypes == ChatTypeOK /\ HasSession

LEMMA StepChatTypes == ChatTypes /\ [ChatNext]_chatVars => ChatTypes'
<1>1. ASSUME ChatTypes, UNCHANGED chatVars PROVE ChatTypes'
  <2>1. ChatTypeOK' /\ HasSession'
    BY <1>1 DEF ChatTypes, ChatTypeOK, HasSession, chatVars
  <2> QED
    BY <2>1 DEF ChatTypes
<1>2. ASSUME ChatTypes, ChatNext PROVE ChatTypes'
  <2>1. ChatTypeOK'
    BY <1>2, SubmitTypes, AnswerStepTypes, StreamTypes, ResetTypes DEF ChatTypes, ChatNext
  <2> QED
    BY <1>2, <2>1, HasSessionKept DEF ChatTypes
<1> QED
  BY <1>1, <1>2

\* The variables keep their types.
THEOREM ChatTypeCorrect == ChatSpec => []ChatTypeOK
<1>1. ChatInit => ChatTypes
  BY InitChatTypes, InitHasSession DEF ChatTypes
<1>2. ChatTypes => ChatTypeOK
  BY DEF ChatTypes
<1> QED
  BY <1>1, <1>2, StepChatTypes, PTL DEF ChatSpec

-----------------------------------------------------------------------------
(* One session, and the composer's gate.  The stream in eventSourceRef is   *)
(* that of the gate until it drops or a reload sweeps the gate away; a      *)
(* submit that creates a session is abandoned when the page is left.        *)

GateOfSource == source # 0 /\ fate \cap {"dropped", "swept"} = {} => gate = source

CreatingOnPage ==
  \A k \in Submits : phase[k] = "creating" /\ k \notin abandoned => mounted

ChatInv == ChatTypes /\ GateOfSource /\ CreatingOnPage /\ ChatOnOneSession

LEMMA InitChatInv == ChatInit => ChatInv
<1> SUFFICES ASSUME ChatInit PROVE ChatInv
  OBVIOUS
<1>1. ChatTypes
  BY InitChatTypes, InitHasSession DEF ChatTypes
<1>2. GateOfSource /\ CreatingOnPage
  BY DEF ChatInit, GateOfSource, CreatingOnPage
<1>3. ChatOnOneSession
  BY DEF ChatInit, ChatOnOneSession
<1> QED
  BY <1>1, <1>2, <1>3 DEF ChatInv

\* The gate and the stream are set together and cleared together.
LEMMA GateKept ==
  ASSUME ChatInv, ChatNext
  PROVE  GateOfSource'
<1>1. GateOfSource
  BY DEF ChatInv
<1>2. ASSUME NEW k \in Submits, SubmitMessage(k) PROVE GateOfSource'
  BY <1>1, <1>2 DEF GateOfSource, SubmitMessage, BeginSend
<1>3. ASSUME NEW k \in Submits, Answer(k) PROVE GateOfSource'
  <2>1. CASE SessionCreated(k) \/ SendFailed(k)
    BY <2>1 DEF GateOfSource, SessionCreated, BeginSend, SendFailed, CloseStream
  <2>2. CASE SessionNotCreated(k) \/ SendMessage(k) \/ SendAccepted(k) \/ ConflictReloaded(k)
    BY <1>1, <2>2
    DEF GateOfSource, SessionNotCreated, SendMessage, SendAccepted, ConflictReloaded, chatHistory
  <2>3. CASE SendRejected(k)
    BY <1>1, <2>3 DEF GateOfSource, SendRejected
  <2> QED
    BY <1>3, <2>1, <2>2, <2>3 DEF Answer
<1>4. ASSUME NEW k \in Submits, TerminalRefresh(k) PROVE GateOfSource'
  BY <1>1, <1>4 DEF GateOfSource, TerminalRefresh
<1>5. CASE StreamOpens \/ StreamDrops \/ StreamRefused
  BY <1>1, <1>5 DEF GateOfSource, StreamOpens, StreamDrops, StreamRefused, CloseStream, chatHistory
<1>6. ASSUME NEW s \in Sessions, RunEnds(s) PROVE GateOfSource'
  BY <1>1, <1>6 DEF GateOfSource, RunEnds, CloseStream
<1>7. CASE \E s \in Sessions : RunElsewhere(s)
  BY <1>1, <1>7 DEF GateOfSource, RunElsewhere, chatHistory
<1>8. CASE ResetToNewChat \/ Unmount
  BY <1>8 DEF GateOfSource, ResetToNewChat, Unmount, CloseStream
<1> QED
  BY <1>2, <1>3, <1>4, <1>5, <1>6, <1>7, <1>8 DEF ChatNext

LEMMA CreatingKept ==
  ASSUME ChatInv, ChatNext
  PROVE  CreatingOnPage'
<1>1. CreatingOnPage /\ DataTypes
  BY TypeParts DEF ChatInv, ChatTypes
<1>2. ASSUME NEW k \in Submits, SubmitMessage(k) PROVE CreatingOnPage'
  BY <1>1, <1>2 DEF CreatingOnPage, SubmitMessage
<1>3. ASSUME NEW k \in Submits, Answer(k) PROVE CreatingOnPage'
  <2>1. CASE SessionCreated(k) \/ SessionNotCreated(k) \/ SendMessage(k)
    BY <1>1, <2>1 DEF CreatingOnPage, DataTypes, SessionCreated, BeginSend, SessionNotCreated,
                      SendMessage, chatHistory
  <2>2. CASE SendAccepted(k) \/ SendFailed(k) \/ SendRejected(k) \/ ConflictReloaded(k)
    BY <1>1, <2>2 DEF CreatingOnPage, DataTypes, SendAccepted, SendFailed, SendRejected,
                      ConflictReloaded, chatHistory
  <2> QED
    BY <1>3, <2>1, <2>2 DEF Answer
<1>4. CASE \/ StreamOpens \/ StreamDrops \/ StreamRefused
           \/ \E s \in Sessions : RunEnds(s) \/ RunElsewhere(s)
           \/ \E k \in Submits : TerminalRefresh(k)
  <2>1. UNCHANGED <<mounted, phase, abandoned>>
    BY <1>4 DEF StreamOpens, StreamDrops, StreamRefused, RunEnds, RunElsewhere, TerminalRefresh,
                chatHistory
  <2> QED
    BY <1>1, <2>1 DEF CreatingOnPage
<1>5. CASE ResetToNewChat \/ Unmount
  BY <1>1, <1>5 DEF CreatingOnPage, Outstanding, ResetToNewChat, Unmount
<1> QED
  BY <1>2, <1>3, <1>4, <1>5 DEF ChatNext

\* What a submit opens, and what a reload shows, is of the session the page is on.
LEMMA OneSessionKept ==
  ASSUME ChatInv, ChatNext
  PROVE  ChatOnOneSession'
<1>1. ChatOnOneSession /\ DataTypes
  BY TypeParts DEF ChatInv, ChatTypes
<1>2. ASSUME NEW k \in Submits, SubmitMessage(k) PROVE ChatOnOneSession'
  <2>1. CASE activeSession # NoSession
    BY <1>1, <1>2, <2>1 DEF ChatOnOneSession, SubmitMessage, BeginSend, DataTypes
  <2>2. CASE activeSession = NoSession
    BY <1>1, <1>2, <2>2 DEF ChatOnOneSession, SubmitMessage
  <2> QED
    BY <2>1, <2>2
<1>3. ASSUME NEW k \in Submits, SessionCreated(k) PROVE ChatOnOneSession'
  <2> SUFFICES ASSUME uninvited' = {}
               PROVE  shown' \subseteq {activeSession'} /\ mounted' /\ session'[source'] = activeSession'
    BY DEF ChatOnOneSession
  <2>1. uninvited = {} /\ k \notin abandoned /\ activeSession = NoSession
    BY <1>3 DEF SessionCreated
  <2>2. mounted
    BY <1>3, <2>1 DEF ChatInv, CreatingOnPage, SessionCreated
  <2>3. shown = {}
    BY <1>1, <2>1, Numbers DEF ChatOnOneSession, DataTypes
  <2> QED
    BY <1>1, <1>3, <2>2, <2>3 DEF SessionCreated, BeginSend, DataTypes
<1>4. ASSUME NEW k \in Submits,
             \/ SessionNotCreated(k) \/ SendMessage(k) \/ SendAccepted(k) \/ SendRejected(k)
             \/ ConflictReloaded(k)
      PROVE  ChatOnOneSession'
  BY <1>1, <1>4 DEF ChatOnOneSession, SessionNotCreated, SendMessage, SendAccepted, SendRejected,
                    ConflictReloaded, RefreshMessages, chatHistory
<1>5. CASE \/ StreamRefused \/ ResetToNewChat \/ Unmount
           \/ \E k \in Submits : SendFailed(k)
  BY <1>1, <1>5 DEF ChatOnOneSession, StreamRefused, ResetToNewChat, Unmount, SendFailed, CloseStream
<1>6. ASSUME NEW k \in Submits, TerminalRefresh(k) PROVE ChatOnOneSession'
  BY <1>1, <1>6 DEF ChatOnOneSession, TerminalRefresh
<1>7. ASSUME NEW s \in Sessions, RunEnds(s) PROVE ChatOnOneSession'
  BY <1>1, <1>7 DEF ChatOnOneSession, RunEnds, CloseStream
<1>8. CASE StreamOpens \/ StreamDrops \/ \E s \in Sessions : RunElsewhere(s)
  BY <1>1, <1>8 DEF ChatOnOneSession, StreamOpens, StreamDrops, RunElsewhere, chatHistory
<1> QED
  BY <1>2, <1>3, <1>4, <1>5, <1>6, <1>7, <1>8 DEF ChatNext, Answer

LEMMA StepChatInv == ChatInv /\ [ChatNext]_chatVars => ChatInv'
<1>1. ASSUME ChatInv, UNCHANGED chatVars PROVE ChatInv'
  <2>1. ChatTypes'
    BY <1>1, StepChatTypes DEF ChatInv
  <2>2. GateOfSource' /\ CreatingOnPage' /\ ChatOnOneSession'
    BY <1>1 DEF ChatInv, GateOfSource, CreatingOnPage, ChatOnOneSession, chatVars
  <2> QED
    BY <2>1, <2>2 DEF ChatInv
<1>2. ASSUME ChatInv, ChatNext PROVE ChatInv'
  <2>1. ChatTypes'
    BY <1>2, StepChatTypes DEF ChatInv
  <2> QED
    BY <1>2, <2>1, GateKept, CreatingKept, OneSessionKept DEF ChatInv
<1> QED
  BY <1>1, <1>2

\* The messages and the stream on the page are of its session.
THEOREM PageOnOneSession == ChatSpec => []ChatOnOneSession
<1>1. ChatInv => ChatOnOneSession
  BY DEF ChatInv
<1> QED
  BY <1>1, InitChatInv, StepChatInv, PTL DEF ChatSpec

\* The composer is closed while the answer to its message streams in.
THEOREM AnswerClosesComposer == ChatSpec => []ComposerClosedWhileAnswering
<1>1. ChatInv => ComposerClosedWhileAnswering
  <2> SUFFICES ASSUME ChatInv, NEW k \in Submits, source = k,
                      fate \cap {"dropped", "swept"} = {}
               PROVE  gate = k
    BY DEF ComposerClosedWhileAnswering
  <2> QED
    BY Numbers DEF ChatInv, GateOfSource
<1> QED
  BY <1>1, InitChatInv, StepChatInv, PTL DEF ChatSpec

-----------------------------------------------------------------------------
(* One submit at a time: on a page nobody resets, isSubmitting is set as    *)
(* long as one is in progress.                                              *)

SubmitInv ==
  abandoned = {} =>
    \A k \in Outstanding : isSubmitting /\ \A j \in Outstanding : j = k

LEMMA SubmitInvKept == DataTypes /\ SubmitInv /\ [ChatNext]_chatVars => SubmitInv'
<1> SUFFICES ASSUME DataTypes, SubmitInv, [ChatNext]_chatVars, abandoned' = {}
             PROVE  \A k \in Outstanding' : isSubmitting' /\ \A j \in Outstanding' : j = k
  BY DEF SubmitInv
<1>1. abandoned = {}
  BY DEF ChatNext, chatVars, chatHistory, SubmitMessage, Answer, SessionCreated, SessionNotCreated,
         SendMessage, SendAccepted, SendFailed, SendRejected, ConflictReloaded, TerminalRefresh,
         RunEnds, RunElsewhere, StreamOpens, StreamDrops, StreamRefused, ResetToNewChat, Unmount
<1>2. \A k \in Outstanding : isSubmitting /\ \A j \in Outstanding : j = k
  BY <1>1 DEF SubmitInv
<1>3. CASE UNCHANGED <<phase, isSubmitting>>
  BY <1>2, <1>3 DEF Outstanding
<1>4. CASE ResetToNewChat \/ Unmount
  <2>1. Outstanding = {} /\ Outstanding' = Outstanding
    BY <1>4 DEF ResetToNewChat, Unmount, Outstanding
  <2> QED
    BY <2>1
<1>5. ASSUME NEW k \in Submits, SubmitMessage(k)
      PROVE  \A i \in Outstanding' : isSubmitting' /\ \A j \in Outstanding' : j = i
  <2>1. Outstanding = {}
    BY <1>2, <1>5 DEF SubmitMessage, CanSend
  <2>2. isSubmitting'
    BY <1>5 DEF SubmitMessage
  <2>3. \A j \in Submits \ {k} : phase'[j] = phase[j]
    BY <1>5 DEF SubmitMessage, BeginSend, DataTypes
  <2> QED
    BY <2>1, <2>2, <2>3 DEF Outstanding
<1>6. ASSUME NEW k \in Submits, Answer(k)
      PROVE  \A i \in Outstanding' : isSubmitting' /\ \A j \in Outstanding' : j = i
  <2>1. k \in Outstanding
    BY <1>6 DEF Answer, SessionCreated, SessionNotCreated, SendMessage, SendAccepted, SendFailed,
                SendRejected, ConflictReloaded, Outstanding
  <2>2. Outstanding' \subseteq {k}
    BY <1>2, <1>6, <2>1
    DEF Answer, SessionCreated, BeginSend, SessionNotCreated, SendMessage, SendAccepted, SendFailed,
        SendRejected, ConflictReloaded, Outstanding, DataTypes
  <2>3. k \in Outstanding' => isSubmitting'
    <3>1. isSubmitting
      BY <1>2, <2>1
    <3>2. CASE SessionCreated(k) \/ SendMessage(k)
      BY <3>1, <3>2 DEF SessionCreated, SendMessage
    <3>3. CASE SendFailed(k)
      BY <3>1, <3>3 DEF SendFailed, Outstanding, DataTypes
    <3>4. CASE SessionNotCreated(k) \/ SendAccepted(k) \/ SendRejected(k) \/ ConflictReloaded(k)
      BY <3>4
      DEF SessionNotCreated, SendAccepted, SendRejected, ConflictReloaded, Outstanding, DataTypes
    <3> QED
      BY <1>6, <3>2, <3>3, <3>4 DEF Answer
  <2> QED
    BY <2>2, <2>3
<1>7. CASE \/ StreamOpens \/ StreamDrops \/ StreamRefused
           \/ \E s \in Sessions : RunEnds(s) \/ RunElsewhere(s)
           \/ \E k \in Submits : TerminalRefresh(k)
  <2>1. UNCHANGED <<phase, isSubmitting>>
    BY <1>7 DEF StreamOpens, StreamDrops, StreamRefused, RunEnds, RunElsewhere, TerminalRefresh
  <2> QED
    BY <1>3, <2>1
<1>8. CASE UNCHANGED chatVars
  BY <1>3, <1>8 DEF chatVars
<1> QED
  BY <1>4, <1>5, <1>6, <1>7, <1>8 DEF ChatNext

\* On a page that is never reset or left, one message is submitted at a time.
THEOREM SubmitsAreSerial == ChatSpec => []OneSubmitAtATime
<1>1. ChatInit => ChatTypes /\ SubmitInv
  <2> SUFFICES ASSUME ChatInit PROVE ChatTypes /\ SubmitInv
    OBVIOUS
  <2>1. Outstanding = {}
    BY DEF ChatInit, Outstanding
  <2> QED
    BY <2>1, InitChatTypes, InitHasSession DEF ChatTypes, SubmitInv
<1>2. ChatTypes /\ SubmitInv /\ [ChatNext]_chatVars => (ChatTypes /\ SubmitInv)'
  BY StepChatTypes, SubmitInvKept, TypeParts DEF ChatTypes
<1>3. SubmitInv => OneSubmitAtATime
  <2> SUFFICES ASSUME SubmitInv, abandoned = {} PROVE Cardinality(Outstanding) <= 1
    BY DEF OneSubmitAtATime
  <2>1. CASE Outstanding = {}
    BY <2>1, FS_EmptySet
  <2>2. CASE Outstanding # {}
    <3>1. PICK k \in Outstanding : Outstanding = {k}
      BY <2>2 DEF SubmitInv
    <3> QED
      BY <3>1, FS_Singleton
  <2> QED
    BY <2>1, <2>2
<1> QED
  BY <1>1, <1>2, <1>3, PTL DEF ChatSpec

-----------------------------------------------------------------------------
(* Nothing closes the composer for good: what ComposerReopens rests on.     *)

\* A gate names the submit of the open stream, and there is still something that clears
\* it: its send call has yet to answer, its run is in progress, or its end was missed.
GateAwaits ==
  gate # 0 =>
    /\ source = gate
    /\ \/ "unheard" \in fate
       \/ phase[gate] \in {"sending", "refused", "conflict", "lost"}
       \/ running[session[gate]] = gate

SubmitAwaits == isSubmitting => Outstanding # {}

LEMMA GateSubmit ==
  ASSUME DataTypes, HasSession, GateAwaits, gate # 0
  PROVE  gate \in Submits /\ source = gate /\ session[gate] \in Sessions
<1>1. gate \in Submits
  BY ChatAssumption DEF DataTypes, Submits
<1> QED
  BY <1>1 DEF DataTypes, HasSession, GateAwaits

\* The calls of a submit keep the gate waiting for something.
LEMMA AnswerAwaits ==
  ASSUME ChatTypes, GateAwaits, NEW k \in Submits, Answer(k)
  PROVE  GateAwaits'
<1>1. DataTypes /\ HasSession
  BY TypeParts DEF ChatTypes
<1>2. CASE SessionCreated(k)
  BY <1>1, <1>2 DEF GateAwaits, SessionCreated, BeginSend, DataTypes
<1>3. CASE SessionNotCreated(k) \/ SendAccepted(k) \/ ConflictReloaded(k)
  <2>1. /\ UNCHANGED <<gate, source, fate, session, running>>
        /\ phase[k] \notin {"sending", "refused", "conflict", "lost"}
        /\ \A j \in Submits \ {k} : phase'[j] = phase[j]
    BY <1>1, <1>3 DEF SessionNotCreated, SendAccepted, ConflictReloaded, chatHistory, DataTypes
  <2>2. CASE gate # 0
    BY <1>1, <2>1, <2>2, GateSubmit DEF GateAwaits
  <2>3. CASE gate = 0
    BY <2>1, <2>3 DEF GateAwaits
  <2> QED
    BY <2>2, <2>3
<1>4. CASE SendMessage(k)
  <2>1. /\ UNCHANGED <<gate, source, fate, session>>
        /\ \A j \in Submits \ {k} : phase'[j] = phase[j]
        /\ \A s \in Sessions : running[s] # 0 => running'[s] = running[s]
    BY <1>1, <1>4 DEF SendMessage, chatHistory, DataTypes
  <2>2. \/ phase'[k] \in {"refused", "conflict", "lost"}
        \/ running'[session[k]] = k
    BY <1>1, <1>4 DEF SendMessage, HasSession, DataTypes
  <2>4. ASSUME gate # 0, gate # k PROVE GateAwaits'
    <3>1. gate \in Submits /\ session[gate] \in Sessions
      BY <1>1, <2>4, GateSubmit
    <3>2. running[session[gate]] = gate => running'[session[gate]] = gate
      BY <2>1, <2>4, <3>1
    <3> QED
      BY <2>1, <2>4, <3>1, <3>2 DEF GateAwaits
  <2>5. CASE gate = k
    BY <2>1, <2>2, <2>5 DEF GateAwaits
  <2>6. CASE gate = 0
    BY <2>1, <2>6 DEF GateAwaits
  <2> QED
    BY <2>4, <2>5, <2>6
<1>5. CASE SendFailed(k)
  BY <1>5 DEF GateAwaits, SendFailed
<1>6. CASE SendRejected(k)
  BY <1>1, <1>6, Numbers DEF GateAwaits, SendRejected, DataTypes
<1> QED
  BY <1>2, <1>3, <1>4, <1>5, <1>6 DEF Answer

LEMMA GateAwaitsKept ==
  ASSUME ChatTypes, GateAwaits, [ChatNext]_chatVars
  PROVE  GateAwaits'
<1>1. DataTypes /\ HasSession
  BY TypeParts DEF ChatTypes
<1>2. ASSUME NEW k \in Submits, SubmitMessage(k) PROVE GateAwaits'
  <2>1. gate = 0
    BY <1>2 DEF SubmitMessage, CanSend
  <2> QED
    BY <1>1, <1>2, <2>1 DEF GateAwaits, SubmitMessage, BeginSend, DataTypes
<1>3. ASSUME NEW s \in Sessions, RunEnds(s) PROVE GateAwaits'
  <2>1. CASE gate' = 0
    BY <2>1 DEF GateAwaits
  <2>2. CASE gate' # 0
    <3>1. UNCHANGED <<gate, source, session, phase>>
      BY <1>3, <2>2 DEF RunEnds, CloseStream
    <3>2. source = gate /\ gate \in Submits /\ fate \subseteq fate'
      BY <1>1, <1>3, <2>2, <3>1, GateSubmit DEF RunEnds, CloseStream
    <3>3. session[gate] = s => "unheard" \in fate'
      BY <1>3, <2>2, <3>2, Numbers DEF RunEnds, CloseStream
    <3>4. session[gate] # s => running'[session[gate]] = running[session[gate]]
      BY <1>1, <1>3, <3>2 DEF RunEnds, DataTypes
    <3> QED
      BY <2>2, <3>1, <3>2, <3>3, <3>4 DEF GateAwaits
  <2> QED
    BY <2>1, <2>2
<1>4. ASSUME NEW s \in Sessions, RunElsewhere(s) PROVE GateAwaits'
  <2>1. \A r : running[r] # 0 => running'[r] = running[r]
    BY <1>1, <1>4 DEF RunElsewhere, DataTypes
  <2> QED
    BY <1>4, <2>1 DEF GateAwaits, RunElsewhere, chatHistory
<1>5. CASE \/ StreamDrops \/ StreamRefused \/ ResetToNewChat \/ Unmount
  BY <1>5 DEF GateAwaits, StreamDrops, StreamRefused, ResetToNewChat, Unmount
<1>6. CASE StreamOpens \/ UNCHANGED chatVars
  BY <1>6 DEF GateAwaits, StreamOpens, chatHistory, chatVars
<1>7. ASSUME NEW k \in Submits, TerminalRefresh(k) PROVE GateAwaits'
  BY <1>7 DEF GateAwaits, TerminalRefresh
<1> QED
  BY <1>2, <1>3, <1>4, <1>5, <1>6, <1>7, AnswerAwaits DEF ChatNext

\* The flag is set by a submit and cleared when one ends, and a submit that has not
\* ended is outstanding.
LEMMA SubmitAwaitsKept ==
  ASSUME ChatTypes, SubmitAwaits, [ChatNext]_chatVars
  PROVE  SubmitAwaits'
<1>1. DataTypes
  BY TypeParts DEF ChatTypes
<1>2. ASSUME NEW k \in Submits, SubmitMessage(k) PROVE SubmitAwaits'
  <2>1. phase'[k] \in {"creating", "sending"}
    BY <1>1, <1>2 DEF SubmitMessage, BeginSend, DataTypes
  <2> QED
    BY <2>1 DEF SubmitAwaits, Outstanding
<1>3. ASSUME NEW k \in Submits, Answer(k) PROVE SubmitAwaits'
  <2>1. CASE SessionCreated(k) \/ SendMessage(k)
    <3>1. phase'[k] \notin {"new", "done"}
      BY <1>1, <2>1 DEF SessionCreated, BeginSend, SendMessage, DataTypes
    <3> QED
      BY <3>1 DEF SubmitAwaits, Outstanding
  <2>2. CASE SendFailed(k)
    <3>1. isSubmitting' => phase'[k] = "reloading"
      BY <1>1, <2>2 DEF SendFailed, DataTypes
    <3> QED
      BY <3>1 DEF SubmitAwaits, Outstanding
  <2>3. CASE SessionNotCreated(k) \/ SendAccepted(k) \/ SendRejected(k) \/ ConflictReloaded(k)
    BY <2>3 DEF SubmitAwaits, SessionNotCreated, SendAccepted, SendRejected, ConflictReloaded
  <2> QED
    BY <1>3, <2>1, <2>2, <2>3 DEF Answer
<1>4. CASE \/ StreamOpens \/ StreamDrops \/ StreamRefused \/ UNCHANGED chatVars
           \/ \E s \in Sessions : RunEnds(s) \/ RunElsewhere(s)
           \/ \E k \in Submits : TerminalRefresh(k)
  <2>1. UNCHANGED <<phase, isSubmitting>>
    BY <1>4 DEF StreamOpens, StreamDrops, StreamRefused, RunEnds, RunElsewhere, TerminalRefresh,
                chatVars
  <2> QED
    BY <2>1 DEF SubmitAwaits, Outstanding
<1>5. CASE ResetToNewChat \/ Unmount
  BY <1>5 DEF SubmitAwaits, ResetToNewChat, Unmount
<1> QED
  BY <1>2, <1>3, <1>4, <1>5 DEF ChatNext

\* The safety part of ComposerReopens: whatever keeps the composer closed (the gate or
\* the flag of a submit in progress) has a call or a run under way that opens it, unless
\* the run's end was missed.
THEOREM ComposerAwaitsAnEnd == ChatSpec => [](GateAwaits /\ SubmitAwaits)
<1> DEFINE Inv == ChatTypes /\ GateAwaits /\ SubmitAwaits
<1>1. ChatInit => Inv
  <2> SUFFICES ASSUME ChatInit PROVE Inv
    OBVIOUS
  <2>1. GateAwaits /\ SubmitAwaits
    BY DEF ChatInit, GateAwaits, SubmitAwaits
  <2> QED
    BY <2>1, InitChatTypes, InitHasSession DEF ChatTypes
<1>2. Inv /\ [ChatNext]_chatVars => Inv'
  BY StepChatTypes, GateAwaitsKept, SubmitAwaitsKept
<1>3. Inv => GateAwaits /\ SubmitAwaits
  OBVIOUS
<1> HIDE DEF Inv
<1> QED
  BY <1>1, <1>2, <1>3, PTL DEF ChatSpec
=============================================================================
