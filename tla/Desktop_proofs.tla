--------------------------- MODULE Desktop_proofs ---------------------------
(***************************************************************************)
(* Theorems about the desktop service, its scheduler and its preview, for  *)
(* any number of viewers and collections and any budget, also none: the    *)
(* safety proofs never look at what is left of a bounded action.           *)
(***************************************************************************)
EXTENDS Desktop, TLAPS

-----------------------------------------------------------------------------
(***************************************************************************)
(* The inductive invariants.                                               *)
(***************************************************************************)
(* The local variables of the calls under way. *)
LoopVariables == [step: {"wait", "lock", "begin", "run", "ended", "over"},
                  daemon: Nat, cancelled: BOOLEAN]
BeforeClear == {"hold", "validate", "wait", "clear"}
AfterClear == {"invalidate", "stage", "restore"}
ResetVariables == [step: {"none"} \cup BeforeClear \cup AfterClear,
                   daemon: Nat, wasPaused: BOOLEAN,
                   outcome: {"none", "refused", "gave up", "failed", "incomplete", "done"}]
ClickVariables == [step: {"none", "call"}, daemon: Nat, wasPaused: BOOLEAN]
RestartVariables == [step: {"none", "hold", "ask"}, daemon: Nat, wasPaused: BOOLEAN]

TypeInv ==
  /\ TypeOK
  /\ loop \in LoopVariables /\ reset \in ResetVariables
  /\ tray \in ClickVariables /\ restart \in RestartVariables
  /\ quitting \in BOOLEAN

(* Who holds Service.operations. *)
LockInv ==
  /\ operations = "free" <=> window = "idle"
  /\ window = "reset" <=> reset.step # "none"
  /\ window = "saved" => daemon # NoDaemon

(* The run of the loop and the daemon the service has.  Once a reset is    *)
(* about to clear the daemon no run is left, and the loop cannot begin one *)
(* without the lock that the reset holds.                                  *)
LoopInv ==
  /\ on <=> loop.step = "run"
  /\ busy => on
  /\ loop.step \notin {"wait", "over"} => loop.daemon # NoDaemon
  /\ InRun => loop.daemon = daemon
  /\ reset.step \in {"clear"} \cup AfterClear => ~InRun
  /\ daemon # NoDaemon => daemon = made

(* Where the files are while a reset moves them. *)
Present == \A t \in Target \ reported :
             files[t] \in {"home", "staged"} \/ (t = "rest" /\ files[t] = "absent")
Gone == \A t \in Target \ reported : files[t] = "absent"

SetupInv ==
  /\ daemon # NoDaemon => files["config"] = "home"
  /\ reset.step # "stage" => Staged = {}
  /\ Present \/ Gone
  /\ reset.step \in BeforeClear => reset.daemon = daemon
  /\ reset.step \in AfterClear => daemon = NoDaemon
  /\ reset.step \in AfterClear /\ reset.daemon # NoDaemon => files["config"] \in {"home", "staged"}
  /\ reset.step = "restore" => reset.daemon # NoDaemon
  /\ reported = {} /\ reset.step # "none" /\ reset.daemon = NoDaemon => files["config"] = "absent"
  /\ reported = {} /\ reset.step \in {"none"} \cup BeforeClear =>
       (files["config"] = "home") = (daemon # NoDaemon)

(* What a reset or a restart remembers of the pause it found. *)
PauseInv ==
  ~disturbed /\ ~quitting =>
    /\ PauseIsTheUsers
    /\ reset.step # "none" =>
         restart.step = "none" /\ (reset.daemon # NoDaemon => reset.wasPaused = wanted)
    /\ reset.step = "hold" => paused = wanted
    /\ reset.step = "validate" /\ reset.daemon # NoDaemon => paused
    /\ restart.step # "none" /\ restart.daemon # NoDaemon =>
         restart.daemon = daemon /\ restart.wasPaused = wanted
    /\ restart.step = "hold" => restart.daemon # NoDaemon /\ paused = wanted
    /\ restart.step = "ask" =>
         IF restart.daemon # NoDaemon THEN paused ELSE daemon # NoDaemon => paused = wanted

(* Viewers and the collections they wait for. *)
ViewInv ==
  /\ \A v \in Viewer : viewer[v] # NoCall => v \in calls[viewer[v]].waiters
  /\ \A c \in Call : \A v \in calls[c].waiters : viewer[v] = c
  /\ \A c \in Call : calls[c].cancelled => calls[c].waiters = {} /\ inflight # c
  /\ \A c \in Call : calls[c].step = "free" => calls[c].waiters = {}
  /\ inflight # NoCall => calls[inflight].step \notin {"free", "done"}
  /\ \A c \in Call : calls[c].outcome = "cancelled" => calls[c].cancelled
  /\ \A v \in Viewer : answer[v] # "cancelled"

(* The generation a collection has read is the present one only if its     *)
(* settings are.                                                           *)
Dated == {"settings", "collect", "commit"}
StaleInv ==
  /\ settings = SettingsIn(files)
  /\ previewHeld <=> reset.step = "stage"
  /\ \A c \in Call : calls[c].step \in Dated =>
       calls[c].generation <= generation /\ (previewHeld => calls[c].generation # generation)
  /\ reported = {} /\ window # "saved" =>
       \A c \in Call : calls[c].step \in {"collect", "commit"} /\ calls[c].generation = generation =>
         calls[c].settings = newest /\ files["config"] = "home"
  /\ reported = {} /\ files["config"] = "absent" => preview = NoPreview
  /\ StalePreviewNeverSaved

-----------------------------------------------------------------------------
(***************************************************************************)
(* Types.                                                                  *)
(***************************************************************************)
CallVariables == [step: CallStep, waiters: SUBSET Viewer, cancelled: BOOLEAN,
                  generation: Nat, settings: Nat, outcome: Outcome]

(* The steps of viewers and collections. *)
Seen == View \/ LoseInterest \/ Preview

LEMMA IdleType == Idle \in CallVariables
BY DEF Idle, CallVariables, CallStep, Outcome, NoSettings

LEMMA ReleasedType ==
  ASSUME PreviewTypeOK, NEW c \in Call, NEW v \in Viewer
  PROVE  Released(c, v) \in CallVariables
BY IdleType DEF PreviewTypeOK, Released, CallVariables

(* What a step of the preview leaves alone. *)
LEMMA SeenFrame ==
  ASSUME Seen
  PROVE  /\ UNCHANGED <<service, scheduler, setup, calling, quitting, wishes>>
         /\ UNCHANGED <<generation, previewHeld, settings>>
<1> USE DEF summaries
<1>1. CASE View
  BY <1>1 DEF View, Join, StartCollection
<1>2. CASE LoseInterest
  BY <1>2 DEF LoseInterest, Abandon
<1>3. CASE Preview
  <2>1. UNCHANGED <<service, scheduler, setup, calling, quitting, wishes>>
    BY <1>3 DEF Preview
  <2>2. ASSUME NEW v \in Viewer, Answer(v) PROVE UNCHANGED <<generation, previewHeld, settings>>
    BY <2>2 DEF Answer
  <2>3. ASSUME NEW c \in Call, CollectionStep(c) PROVE UNCHANGED <<generation, previewHeld, settings>>
    BY <2>3 DEF CollectionStep, ReadGeneration, LoadSettings, Collect, Commit, Complete
  <2> QED  BY <1>3, <2>1, <2>2, <2>3 DEF Preview
<1> QED  BY <1>1, <1>2, <1>3 DEF Seen

(* The steps of the preview, one viewer or collection at a time. *)
LEMMA SeenSteps ==
  ASSUME Seen
  PROVE  \/ \E v \in Viewer : Join(v) \/ Abandon(v) \/ Answer(v)
         \/ \E v \in Viewer, c \in Call : StartCollection(v, c)
         \/ \E c \in Call : CollectionStep(c)
BY DEF Seen, View, LoseInterest, Preview

LEMMA TypeViewer ==
  ASSUME PreviewTypeOK, NEW v \in Viewer,
         \/ Join(v) \/ Abandon(v) \/ Answer(v)
         \/ \E c \in Call : StartCollection(v, c)
  PROVE  PreviewTypeOK'
<1> USE PreviewAssumption DEF PreviewTypeOK, summaries
<1>1. calls \in [Call -> CallVariables]
  BY DEF CallVariables
<1>2. calls' \in [Call -> CallVariables] => PreviewTypeOK'
  <2>1. /\ inflight' \in Call \cup {NoCall} /\ viewer' \in [Viewer -> Call \cup {NoCall}]
        /\ UNCHANGED summaries
    BY DEF Join, Abandon, Answer, StartCollection
  <2>2. answer' \in [Viewer -> Outcome]
    BY <1>1 DEF Join, Abandon, Answer, StartCollection, Outcome, CallVariables
  <2> QED  BY <2>1, <2>2 DEF CallVariables
<1>3. CASE Join(v)
  <2>1. inflight \in Call /\ calls' = [calls EXCEPT ![inflight].waiters = @ \cup {v}]
    BY <1>3 DEF Join
  <2>2. [calls[inflight] EXCEPT !.waiters = @ \cup {v}] \in CallVariables
    BY <1>1, <2>1 DEF CallVariables
  <2> QED  BY <1>1, <1>2, <2>1, <2>2
<1>4. ASSUME NEW c \in Call, StartCollection(v, c) PROVE PreviewTypeOK'
  <2>1. [Idle EXCEPT !.step = "generation", !.waiters = {v}] \in CallVariables
    BY DEF Idle, CallVariables, CallStep, Outcome, NoSettings
  <2> QED  BY <1>1, <1>2, <1>4, <2>1 DEF StartCollection
<1>5. CASE Abandon(v) \/ Answer(v)
  <2>1. viewer[v] \in Call /\ calls' = [calls EXCEPT ![viewer[v]] = Released(viewer[v], v)]
    BY <1>5 DEF Abandon, Answer
  <2> QED  BY <1>1, <1>2, <2>1, ReleasedType
<1> QED  BY <1>3, <1>4, <1>5

LEMMA TypeCollection ==
  ASSUME PreviewTypeOK, NEW c \in Call, CollectionStep(c)
  PROVE  PreviewTypeOK'
<1> USE DEF PreviewTypeOK, summaries
<1>1. calls \in [Call -> CallVariables]
  BY DEF CallVariables
<1>2. \A call \in CallVariables : calls' = [calls EXCEPT ![c] = call] => calls' \in [Call -> CallVariables]
  BY <1>1
<1>3. PICK call \in CallVariables : calls' = [calls EXCEPT ![c] = call]
  <2>1. CASE ReadGeneration(c)
    <3>1. [calls[c] EXCEPT !.step = "settings", !.generation = generation] \in CallVariables
      BY <1>1 DEF CallVariables, CallStep
    <3> QED  BY <2>1, <3>1 DEF ReadGeneration
  <2>2. CASE LoadSettings(c)
    <3>1. /\ [calls[c] EXCEPT !.step = "collect", !.settings = settings] \in CallVariables
          /\ [calls[c] EXCEPT !.step = "complete", !.outcome = "failed"] \in CallVariables
      BY <1>1 DEF CallVariables, CallStep, Outcome
    <3> QED  BY <2>2, <3>1 DEF LoadSettings, GiveUp
  <2>3. CASE Collect(c)
    <3>1. /\ [calls[c] EXCEPT !.step = "commit"] \in CallVariables
          /\ [calls[c] EXCEPT !.step = "complete", !.outcome = "failed"] \in CallVariables
          /\ [calls[c] EXCEPT !.step = "complete", !.outcome = "cancelled"] \in CallVariables
      BY <1>1 DEF CallVariables, CallStep, Outcome
    <3> QED  BY <2>3, <3>1 DEF Collect, GiveUp, GoOn
  <2>4. CASE Commit(c)
    <3>1. /\ [calls[c] EXCEPT !.step = "complete", !.outcome = "shown"] \in CallVariables
          /\ [calls[c] EXCEPT !.step = "complete", !.outcome = "invalidated"] \in CallVariables
      BY <1>1 DEF CallVariables, CallStep, Outcome
    <3> QED  BY <2>4, <3>1 DEF Commit, GiveUp
  <2>5. CASE Complete(c)
    <3>1. [calls[c] EXCEPT !.step = "done"] \in CallVariables
      BY <1>1 DEF CallVariables, CallStep
    <3> QED  BY <2>5, <3>1, IdleType DEF Complete
  <2> QED  BY <2>1, <2>2, <2>3, <2>4, <2>5 DEF CollectionStep
<1>4. inflight' \in Call \cup {NoCall} /\ preview' \in Nat
  <2>1. calls[c].settings \in Nat
    BY <1>1 DEF CallVariables
  <2> QED  BY <2>1 DEF CollectionStep, ReadGeneration, LoadSettings, Collect, Commit, Complete
<1>5. UNCHANGED <<viewer, answer, generation, previewHeld, settings>>
  BY DEF CollectionStep, ReadGeneration, LoadSettings, Collect, Commit, Complete
<1>6. calls' \in [Call -> CallVariables]
  BY <1>2, <1>3
<1> QED  BY <1>4, <1>5, <1>6 DEF CallVariables

LEMMA TypeSeen ==
  ASSUME TypeInv, Seen
  PROVE  TypeInv'
<1>1. PreviewTypeOK'
  BY SeenSteps, TypeViewer, TypeCollection DEF TypeInv, TypeOK
<1>2. UNCHANGED <<service, scheduler, setup, calling, quitting, wishes>>
  BY SeenFrame
<1> QED  BY <1>1, <1>2 DEF TypeInv, TypeOK, service, scheduler, setup, calling, wishes

(* The types, in three parts: the preview, the service and the local       *)
(* variables of the calls.                                                 *)
ServiceType ==
  /\ operations \in {"free", "window"} /\ window \in {"idle", "saved", "reset"}
  /\ daemon \in Nat /\ made \in Nat /\ start \in Nat /\ newest \in Nat
  /\ on \in BOOLEAN /\ paused \in BOOLEAN /\ busy \in BOOLEAN /\ stopping \in BOOLEAN
  /\ files \in [Target -> Place] /\ reported \subseteq Reports
  /\ wanted \in BOOLEAN /\ disturbed \in BOOLEAN /\ stranded \in BOOLEAN
  /\ quitting \in BOOLEAN

LocalType ==
  /\ loop \in LoopVariables /\ reset \in ResetVariables
  /\ tray \in ClickVariables /\ restart \in RestartVariables

LEMMA TypeParts ==
  /\ TypeInv <=> PreviewTypeOK /\ ServiceType /\ LocalType
  /\ TypeInv' <=> PreviewTypeOK' /\ ServiceType' /\ LocalType'
<1>1. TypeInv <=> PreviewTypeOK /\ ServiceType /\ LocalType
  BY DEF TypeInv, TypeOK, ServiceType, LocalType, LoopVariables
<1>2. TypeInv' <=> PreviewTypeOK' /\ ServiceType' /\ LocalType'
  BY DEF TypeInv, TypeOK, ServiceType, LocalType, LoopVariables
<1> QED  BY <1>1, <1>2

LEMMA TypeInit == Init => TypeInv
<1> SUFFICES ASSUME Init PROVE TypeInv
  OBVIOUS
<1>1. PreviewTypeOK
  BY PreviewAssumption, IdleType DEF Init, PreviewInit, PreviewTypeOK, CallVariables, Outcome, NoPreview
<1>2. ServiceType
  BY DEF Init, ServiceType, Jobs!Init, Place
<1>3. LocalType
  BY DEF Init, LocalType, LoopVariables, ResetVariables, ClickVariables, RestartVariables,
     NoRun, NoReset, NoClick, NoRestart, NoDaemon
<1> QED  BY <1>1, <1>2, <1>3, TypeParts

(* Everything but the summaries of the preview is left alone. *)
LEMMA PreviewKept ==
  ASSUME PreviewTypeOK, UNCHANGED coordinator, generation' \in Nat, previewHeld' \in BOOLEAN,
         settings' \in Nat, preview' \in Nat
  PROVE  PreviewTypeOK'
BY DEF PreviewTypeOK, coordinator

LEMMA PreviewFrame == PreviewTypeOK /\ PreviewUnchanged => PreviewTypeOK'
BY DEF PreviewTypeOK, PreviewUnchanged, coordinator, summaries

LEMMA TypeWindow ==
  ASSUME TypeInv, WindowStep
  PROVE  TypeInv'
<1> USE DEF service, scheduler, setup, calling, wishes
<1>1. PreviewTypeOK /\ ServiceType /\ LocalType
  BY TypeParts
<1>2. PreviewTypeOK'
  <2>1. CASE CompleteOnboarding \/ SaveBegins
    <3>1. newest + 1 \in Nat
      BY <1>1 DEF ServiceType
    <3>2. UNCHANGED <<coordinator, generation, previewHeld, preview>> /\ settings' = newest + 1
      BY <2>1 DEF CompleteOnboarding, SaveBegins, SaveSettings
    <3> QED  BY <1>1, <3>1, <3>2, PreviewKept DEF PreviewTypeOK
  <2>2. CASE SaveEnds
    BY <1>1, <2>2, PreviewKept DEF SaveEnds, InvalidatePreview, NoPreview, PreviewTypeOK
  <2>3. CASE ResetBegins \/ \E wish \in BOOLEAN : WindowPauses(wish)
    BY <1>1, <2>3, PreviewFrame DEF ResetBegins, WindowPauses
  <2> QED  BY <2>1, <2>2, <2>3 DEF WindowStep
<1>3. ServiceType'
  <2> USE DEF ServiceType
  <2>1. CASE CompleteOnboarding
    <3>1. files' \in [Target -> Place]
      BY <1>1, <2>1 DEF CompleteOnboarding, Place
    <3>2. daemon' \in Nat /\ made' \in Nat /\ start' \in Nat /\ newest' \in Nat
      BY <1>1, <2>1 DEF CompleteOnboarding, MakeDaemon
    <3>3. paused' = FALSE /\ wanted' = FALSE /\ stranded' = FALSE
          /\ UNCHANGED <<operations, window, on, busy, stopping, quitting, disturbed, reported>>
      BY <2>1 DEF CompleteOnboarding
    <3> QED  BY <1>1, <3>1, <3>2, <3>3
  <2>2. CASE SaveBegins \/ SaveEnds
    BY <1>1, <2>2 DEF SaveBegins, SaveEnds
  <2>3. ASSUME NEW wish \in BOOLEAN, WindowPauses(wish) PROVE ServiceType'
    BY <1>1, <2>3 DEF WindowPauses, Jobs!Pause, Jobs!Resume, HoldUnderWay
  <2>4. CASE ResetBegins
    BY <1>1, <2>4 DEF ResetBegins
  <2> QED  BY <2>1, <2>2, <2>3, <2>4 DEF WindowStep
<1>4. LocalType'
  <2>1. CASE ResetBegins
    <3>1. reset' \in ResetVariables
      BY <1>1, <2>1 DEF ResetBegins, ServiceType, ResetVariables, BeforeClear
    <3> QED  BY <1>1, <2>1, <3>1 DEF ResetBegins, LocalType
  <2>2. CASE ~ResetBegins
    <3>1. UNCHANGED <<loop, reset, tray, restart>>
      BY <2>2 DEF WindowStep, CompleteOnboarding, SaveBegins, SaveEnds, WindowPauses
    <3> QED  BY <1>1, <3>1 DEF LocalType
  <2> QED  BY <2>1, <2>2
<1> QED  BY <1>2, <1>3, <1>4, TypeParts

LEMMA TypeHolds ==
  ASSUME TypeInv, TrayReads \/ TrayToggles \/ RestartReads \/ RestartStep \/ Quit
  PROVE  TypeInv'
<1> USE DEF service, scheduler, setup, calling, wishes, RestartStep
<1>1. PreviewTypeOK /\ ServiceType /\ LocalType
  BY TypeParts
<1>2. PreviewTypeOK'
  BY <1>1, PreviewFrame DEF TrayReads, TrayToggles, RestartReads, RestartHolds, RestartDeclined,
     RestartAccepted, Quit
<1>3. ServiceType'
  <2> USE DEF ServiceType, SchedulerUnchanged, OnDaemon, Jobs!Pause, Jobs!PauseIfIdle, Jobs!Resume
  <2>1. CASE TrayReads \/ RestartReads \/ RestartAccepted \/ Quit
    <3>1. /\ UNCHANGED <<operations, window, daemon, made, start, newest, on, paused, busy, stopping,
                         files, reported, wanted, disturbed, stranded>>
          /\ quitting' = quitting \/ quitting' = TRUE
      BY <2>1 DEF TrayReads, RestartReads, RestartAccepted, Quit
    <3>2. ServiceType
      BY <1>1
    <3> QED  BY <3>1, <3>2
  <2>2. CASE TrayToggles
    <3>1. UNCHANGED <<operations, window, daemon, made, start, newest, on, busy, stopping, files,
                      reported, stranded, quitting>>
      BY <2>2 DEF TrayToggles
    <3>2. paused' \in BOOLEAN
      BY <1>1, <2>2 DEF TrayToggles
    <3>3. tray.wasPaused \in BOOLEAN
      BY <1>1 DEF LocalType, ClickVariables
    <3>4. wanted' \in BOOLEAN /\ disturbed' \in BOOLEAN
      BY <1>1, <2>2, <3>3 DEF TrayToggles, HoldUnderWay
    <3>5. ServiceType
      BY <1>1
    <3> QED  BY <3>1, <3>2, <3>4, <3>5
  <2>3. CASE RestartHolds \/ RestartDeclined
    <3>1. UNCHANGED <<operations, window, daemon, made, start, newest, on, busy, stopping, files,
                      reported, wanted, stranded, quitting>>
      BY <2>3 DEF RestartHolds, RestartDeclined
    <3>2. paused' \in BOOLEAN /\ disturbed' \in BOOLEAN
      BY <1>1, <2>3 DEF RestartHolds, RestartDeclined
    <3> QED  BY <1>1, <3>1, <3>2
  <2> QED  BY <2>1, <2>2, <2>3
<1>4. LocalType'
  <2> USE DEF LocalType
  <2>1. CASE TrayReads \/ TrayToggles
    <3>1. tray' = [step |-> "call", daemon |-> daemon, wasPaused |-> paused] \/ tray' = NoClick
      BY <2>1 DEF TrayReads, TrayToggles
    <3>2. tray' \in ClickVariables
      <4>1. paused \in BOOLEAN /\ daemon \in Nat
        BY <1>1 DEF ServiceType
      <4>2. [step |-> "call", daemon |-> daemon, wasPaused |-> paused] \in ClickVariables
        BY <4>1 DEF ClickVariables
      <4>3. NoClick \in ClickVariables
        BY DEF NoClick, NoDaemon, ClickVariables
      <4> QED  BY <3>1, <4>2, <4>3
    <3> QED  BY <1>1, <2>1, <3>2 DEF TrayReads, TrayToggles
  <2>2. CASE RestartReads \/ RestartStep
    <3>1. \/ restart' = [restart EXCEPT !.step = "ask"] \/ restart' = NoRestart
          \/ \E s \in {"ask", "hold"} :
               restart' = [step |-> s, daemon |-> daemon, wasPaused |-> paused]
      BY <2>2 DEF RestartReads, RestartHolds, RestartDeclined, RestartAccepted
    <3>2. restart' \in RestartVariables
      <4>1. paused \in BOOLEAN /\ daemon \in Nat /\ restart \in RestartVariables
        BY <1>1 DEF ServiceType, LocalType
      <4>2. \A s \in {"ask", "hold"} :
              [step |-> s, daemon |-> daemon, wasPaused |-> paused] \in RestartVariables
        BY <4>1 DEF RestartVariables
      <4>3. NoRestart \in RestartVariables
        BY DEF NoRestart, NoDaemon, RestartVariables
      <4>4. [restart EXCEPT !.step = "ask"] \in RestartVariables
        BY <4>1 DEF RestartVariables
      <4> QED  BY <3>1, <4>2, <4>3, <4>4
    <3> QED  BY <1>1, <2>2, <3>2 DEF RestartReads, RestartHolds, RestartDeclined, RestartAccepted
  <2>3. CASE Quit
    BY <1>1, <2>3 DEF Quit
  <2> QED  BY <2>1, <2>2, <2>3
<1> QED  BY <1>2, <1>3, <1>4, TypeParts

LEMMA TypeLoop ==
  ASSUME TypeInv, LoopStep \/ JobStep
  PROVE  TypeInv'
<1> USE DEF setup, calling, wishes, LoopChanges, LoopStep, scheduler
<1>1. PreviewTypeOK /\ ServiceType /\ LocalType
  BY TypeParts
<1>2. UNCHANGED <<made, setup, calling, quitting, wishes>> /\ PreviewUnchanged
  BY DEF Receive, Take, BeginRun, StopRun, EndRun, RunDone, RunFails, JobStep
<1>3. PreviewTypeOK'
  BY <1>1, <1>2, PreviewFrame
<1>4. ServiceType'
  <2>1. UNCHANGED <<operations, daemon, paused>> /\ start' \in Nat
    BY <1>1 DEF Receive, Take, BeginRun, StopRun, EndRun, RunDone, RunFails, JobStep, Jobs!Begin, Jobs!Stop,
       Jobs!End, Jobs!StartJob, Jobs!EndJob, NoDaemon, ServiceType
  <2>2. on' \in BOOLEAN /\ busy' \in BOOLEAN /\ stopping' \in BOOLEAN
    BY <1>1 DEF Receive, Take, BeginRun, StopRun, EndRun, RunDone, RunFails, JobStep, Jobs!Begin, Jobs!Stop,
       Jobs!End, Jobs!StartJob, Jobs!EndJob, ServiceType
  <2> QED  BY <1>1, <1>2, <2>1, <2>2 DEF ServiceType
<1>5. LocalType'
  <2>1. loop' \in LoopVariables
    <3>1. \/ loop' = loop \/ loop' = NoRun
          \/ loop' = [step |-> "lock", daemon |-> start, cancelled |-> FALSE]
          \/ loop' = [NoRun EXCEPT !.step = "over"]
          \/ \E s \in {"begin", "run", "ended"} : loop' = [loop EXCEPT !.step = s]
      BY DEF Receive, Take, BeginRun, StopRun, EndRun, RunDone, RunFails, JobStep
    <3>2. loop \in LoopVariables /\ start \in Nat
      BY <1>1 DEF LocalType, ServiceType
    <3>3. [step |-> "lock", daemon |-> start, cancelled |-> FALSE] \in LoopVariables
      BY <3>2 DEF LoopVariables
    <3>4. NoRun \in LoopVariables /\ [NoRun EXCEPT !.step = "over"] \in LoopVariables
      BY DEF NoRun, NoDaemon, LoopVariables
    <3>5. \A s \in {"begin", "run", "ended"} : [loop EXCEPT !.step = s] \in LoopVariables
      BY <3>2 DEF LoopVariables
    <3> QED  BY <3>1, <3>2, <3>3, <3>4, <3>5
  <2> QED  BY <1>1, <1>2, <2>1 DEF LocalType
<1> QED  BY <1>3, <1>4, <1>5, TypeParts

(* A reset goes on to its next step, or returns. *)
LEMMA ResetGoes ==
  ASSUME reset \in ResetVariables,
         NEW s \in {"none"} \cup BeforeClear \cup AfterClear, ResetGo(s)
  PROVE  /\ reset' \in ResetVariables /\ reset'.step = s
         /\ reset'.daemon = reset.daemon /\ reset'.wasPaused = reset.wasPaused
BY DEF ResetVariables, ResetGo

LEMMA ResetIsOver ==
  ASSUME NEW outcome \in {"none", "refused", "gave up", "failed", "incomplete", "done"},
         ResetReturns(outcome)
  PROVE  /\ reset' \in ResetVariables /\ reset'.step = "none" /\ reset'.daemon = NoDaemon
         /\ operations' = "free" /\ window' = "idle"
BY DEF ResetReturns, ResetVariables, NoReset, NoDaemon

(* The steps that move files: what they change. *)
MovesFiles == Stage \/ StagingFails \/ StagingFailsTwice \/ Remove \/ RemoveFails

LEMMA RollBackCases ==
  ASSUME StagingFails \/ StagingFailsTwice
  PROVE  /\ ResetAt("stage")
         /\ \E stuck \in SUBSET Staged : RollBack(Staged, stuck)
BY DEF StagingFails, StagingFailsTwice

LEMMA MovesFrame ==
  ASSUME MovesFiles
  PROVE  /\ ResetAt("stage")
         /\ UNCHANGED <<coordinator, generation, newest, daemon, made, start, loop, scheduler,
                        tray, restart, quitting, wanted, disturbed, stranded>>
<1> USE DEF service, scheduler, calling, wishes
<1>1. CASE Stage
  BY <1>1 DEF Stage
<1>2. CASE StagingFails \/ StagingFailsTwice
  BY <1>2, RollBackCases DEF RollBack
<1>3. CASE Remove \/ RemoveFails
  BY <1>3 DEF Remove, RemoveFails
<1> QED  BY <1>1, <1>2, <1>3 DEF MovesFiles

(* How a step of a reset leaves it: it goes on or returns. *)
LEMMA ResetMoves ==
  ASSUME reset \in ResetVariables, ResetStep
  PROVE  \/ /\ \E s \in BeforeClear \cup AfterClear : ResetGo(s) \/ UNCHANGED reset
            /\ UNCHANGED <<operations, window>>
         \/ \E outcome \in {"refused", "gave up", "failed", "incomplete", "done"} :
              ResetReturns(outcome)
<1> USE DEF service, calling, BeforeClear, AfterClear
<1>1. CASE \/ ResetHolds \/ ResetRefused \/ ResetInvalid \/ ResetCancels \/ RunHasEnded
           \/ ResetGivesUp \/ CloseFails
  BY <1>1 DEF ResetHolds, ResetRefused, ResetInvalid, ResetCancels, RunHasEnded, ResetGivesUp, CloseFails
<1>2. CASE ClearDaemon \/ HoldPreview \/ Stage
  BY <1>2 DEF ClearDaemon, HoldPreview, Stage
<1>3. CASE StagingFails \/ StagingFailsTwice
  BY <1>3, RollBackCases DEF RollBack
<1>4. CASE Remove \/ RemoveFails \/ Restore \/ RestoreFails
  BY <1>4 DEF Remove, RemoveFails, Restore, RestoreFails
<1> QED  BY <1>1, <1>2, <1>3, <1>4 DEF ResetStep

LEMMA TypeMoves ==
  ASSUME PreviewTypeOK, ServiceType, MovesFiles
  PROVE  /\ files' \in [Target -> Place] /\ reported' \subseteq Reports
         /\ previewHeld' \in BOOLEAN /\ settings' \in Nat /\ preview' \in Nat
<1>1. /\ files \in [Target -> Place] /\ newest \in Nat /\ reported \subseteq Reports
      /\ settings \in Nat /\ preview \in Nat /\ previewHeld \in BOOLEAN
  BY DEF PreviewTypeOK, ServiceType
<1>2. \A place : SettingsIn(place) \in Nat
  BY <1>1 DEF SettingsIn, NoSettings
<1>3. CASE Stage
  <2>1. files' = [files EXCEPT ![Earliest(AtHome)] = "staged"]
    BY <1>3 DEF Stage
  <2>2. files' \in [Target -> Place]
    BY <1>1, <2>1 DEF Place
  <2>3. settings' = SettingsIn(files') /\ UNCHANGED <<reported, previewHeld, preview>>
    BY <1>3 DEF Stage, wishes
  <2> QED  BY <1>1, <1>2, <2>2, <2>3
<1>4. ASSUME NEW stuck \in SUBSET Staged, RollBack(Staged, stuck)
      PROVE  /\ files' \in [Target -> Place] /\ reported' \subseteq Reports
             /\ previewHeld' \in BOOLEAN /\ settings' \in Nat /\ preview' \in Nat
  <2>1. files' = [t \in Target |->
                    IF t \in stuck THEN "left" ELSE IF t \in Staged THEN "home" ELSE files[t]]
    BY <1>4 DEF RollBack
  <2>2. files' \in [Target -> Place]
    BY <1>1, <2>1 DEF Place
  <2> QED  BY <1>1, <1>2, <1>4, <2>2 DEF RollBack, Staged, Reports
<1>5. CASE Remove \/ RemoveFails
  <2>1. \A t \in Target : Removed(t) \in Place
    BY <1>1 DEF Removed, Place
  <2>2. files' \in [Target -> Place]
    BY <1>5, <2>1 DEF Remove, RemoveFails, Place
  <2>3. reported' \subseteq Reports
    BY <1>1, <1>5 DEF Remove, RemoveFails, Staged, Reports, wishes
  <2>4. previewHeld' \in BOOLEAN /\ settings' \in Nat /\ preview' \in Nat
    <3>1. previewHeld' = FALSE /\ settings' = settings /\ preview' = 0
      BY <1>5 DEF Remove, RemoveFails, NoPreview
    <3> QED  BY <1>1, <3>1
  <2> QED  BY <2>2, <2>3, <2>4
<1> QED  BY <1>3, <1>4, <1>5, RollBackCases DEF MovesFiles

LEMMA TypeReset ==
  ASSUME TypeInv, ResetStep
  PROVE  TypeInv'
<1> USE DEF service, scheduler, setup, calling, wishes
<1>1. PreviewTypeOK /\ ServiceType /\ LocalType
  BY TypeParts
<1>2. PreviewTypeOK'
  <2>1. CASE MovesFiles
    BY <1>1, <2>1, MovesFrame, TypeMoves, PreviewKept DEF PreviewTypeOK
  <2>2. CASE HoldPreview
    BY <1>1, <2>2, PreviewKept DEF HoldPreview, PreviewTypeOK
  <2>3. CASE ~MovesFiles /\ ~HoldPreview
    <3>1. PreviewUnchanged
      BY <2>3 DEF ResetStep, MovesFiles, ResetHolds, ResetRefused, ResetInvalid, ResetCancels,
         RunHasEnded, ResetGivesUp, CloseFails, ClearDaemon, Restore, RestoreFails
    <3> QED  BY <1>1, <3>1, PreviewFrame
  <2> QED  BY <2>1, <2>2, <2>3
<1>3. reset' \in ResetVariables /\ operations' \in {"free", "window"}
      /\ window' \in {"idle", "saved", "reset"}
  BY <1>1, ResetMoves, ResetGoes, ResetIsOver DEF LocalType, ServiceType
<1>4. LocalType'
  <2>1. CASE ResetCancels
    <3>1. loop' = [loop EXCEPT !.cancelled = loop.cancelled \/ InRun]
      BY <2>1 DEF ResetCancels
    <3>2. loop \in LoopVariables /\ (loop.cancelled \/ InRun) \in BOOLEAN
      BY <1>1 DEF LocalType
    <3>3. loop' \in LoopVariables
      BY <3>1, <3>2 DEF LoopVariables
    <3> QED  BY <1>1, <1>3, <2>1, <3>3 DEF ResetCancels, LocalType
  <2>2. CASE ~ResetCancels
    <3>1. UNCHANGED <<loop, tray, restart>>
      BY <2>2, MovesFrame DEF ResetStep, MovesFiles, ResetHolds, ResetRefused, ResetInvalid,
         RunHasEnded, ResetGivesUp, CloseFails, ClearDaemon, HoldPreview, Restore, RestoreFails
    <3> QED  BY <1>1, <1>3, <3>1 DEF LocalType
  <2> QED  BY <2>1, <2>2
<1>5. ServiceType'
  <2>1. CASE MovesFiles
    BY <1>1, <1>3, <2>1, MovesFrame, TypeMoves DEF ServiceType
  <2>2. CASE ResetHolds \/ ResetRefused \/ ResetInvalid
    <3>1. UNCHANGED <<daemon, made, start, newest, on, busy, stopping, files, reported, wanted,
                      disturbed, stranded, quitting>>
      BY <2>2 DEF ResetHolds, ResetRefused, ResetInvalid, SchedulerUnchanged, Jobs!PauseIfIdle,
         Jobs!Pause, Jobs!Resume
    <3>2. paused' \in BOOLEAN
      BY <1>1, <2>2 DEF ServiceType, ResetHolds, ResetRefused, ResetInvalid, SchedulerUnchanged,
         Jobs!PauseIfIdle, Jobs!Pause, Jobs!Resume
    <3>3. /\ daemon' \in Nat /\ made' \in Nat /\ start' \in Nat /\ newest' \in Nat
          /\ files' \in [Target -> Place] /\ reported' \subseteq Reports
      BY <1>1, <3>1 DEF ServiceType
    <3>4. /\ on' \in BOOLEAN /\ busy' \in BOOLEAN /\ stopping' \in BOOLEAN /\ quitting' \in BOOLEAN
          /\ wanted' \in BOOLEAN /\ disturbed' \in BOOLEAN /\ stranded' \in BOOLEAN
      BY <1>1, <3>1 DEF ServiceType
    <3> QED  BY <1>3, <3>2, <3>3, <3>4 DEF ServiceType
  <2>3. CASE ResetCancels \/ RunHasEnded \/ ResetGivesUp \/ CloseFails \/ ClearDaemon \/ HoldPreview
    <3>1. UNCHANGED <<made, newest, on, paused, busy, stopping, files, reported, wanted, quitting>>
      BY <2>3 DEF ResetCancels, RunHasEnded, ResetGivesUp, CloseFails, ClearDaemon, HoldPreview
    <3>2. daemon' \in {daemon, NoDaemon} /\ start' \in {start, NoDaemon}
          /\ disturbed' \in {disturbed, TRUE} /\ stranded' \in {stranded, TRUE}
      BY <2>3 DEF ResetCancels, RunHasEnded, ResetGivesUp, CloseFails, ClearDaemon, HoldPreview
    <3>3. /\ daemon' \in Nat /\ made' \in Nat /\ start' \in Nat /\ newest' \in Nat
          /\ files' \in [Target -> Place] /\ reported' \subseteq Reports
      BY <1>1, <3>1, <3>2 DEF ServiceType, NoDaemon
    <3>4. /\ on' \in BOOLEAN /\ paused' \in BOOLEAN /\ busy' \in BOOLEAN /\ stopping' \in BOOLEAN
          /\ quitting' \in BOOLEAN /\ wanted' \in BOOLEAN
          /\ disturbed' \in BOOLEAN /\ stranded' \in BOOLEAN
      BY <1>1, <3>1, <3>2 DEF ServiceType
    <3> QED  BY <1>3, <3>3, <3>4 DEF ServiceType
  <2>4. CASE Restore
    <3>1. reset.wasPaused \in BOOLEAN
      BY <1>1 DEF LocalType, ResetVariables
    <3>2. daemon' \in Nat /\ made' \in Nat /\ start' \in Nat /\ paused' \in BOOLEAN
      BY <1>1, <2>4, <3>1 DEF Restore, MakeDaemon, ServiceType
    <3>3. ServiceType
      BY <1>1
    <3> QED  BY <1>3, <2>4, <3>2, <3>3 DEF Restore, ServiceType
  <2>5. CASE RestoreFails
    <3>1. reported' \subseteq Reports
      BY <1>1, <2>5 DEF RestoreFails, Reports, ServiceType
    <3> QED  BY <1>1, <1>3, <2>5, <3>1 DEF RestoreFails, ServiceType
  <2> QED  BY <2>1, <2>2, <2>3, <2>4, <2>5 DEF ResetStep, MovesFiles
<1> QED  BY <1>2, <1>4, <1>5, TypeParts

LEMMA TypeNext == TypeInv /\ [Next]_vars => TypeInv'
<1>1. CASE TypeInv /\ UNCHANGED vars
  <2>1. PreviewTypeOK /\ ServiceType /\ LocalType
    BY <1>1, TypeParts
  <2>2. PreviewTypeOK'
    BY <1>1, <2>1 DEF vars, PreviewTypeOK, coordinator, summaries
  <2>3. ServiceType'
    BY <1>1, <2>1 DEF vars, ServiceType, service, scheduler, setup, calling, wishes
  <2>4. LocalType'
    BY <1>1, <2>1 DEF vars, LocalType, service, calling
  <2> QED  BY <2>2, <2>3, <2>4, TypeParts
<1>2. CASE TypeInv /\ Next
  BY <1>2, TypeWindow, TypeReset, TypeHolds, TypeLoop, TypeSeen DEF Next, Seen
<1> QED  BY <1>1, <1>2

(***************************************************************************)
(* Every variable of the service and of its preview keeps its type, and so *)
(* do the local variables of the calls under way (internal/desktop).       *)
(***************************************************************************)
THEOREM TypeCorrect == Spec => []TypeOK
<1>1. TypeInv => TypeOK
  BY DEF TypeInv
<1> QED  BY <1>1, TypeInit, TypeNext, PTL DEF Spec

-----------------------------------------------------------------------------
(***************************************************************************)
(* What the groups of steps leave alone.                                   *)
(***************************************************************************)
(* The tray, a restart for an update, quitting. *)
Holds == TrayReads \/ TrayToggles \/ RestartReads \/ RestartStep \/ Quit

LEMMA HoldsFrame ==
  ASSUME Holds
  PROVE  /\ UNCHANGED <<operations, daemon, made, start, loop, on, busy, files, newest, window,
                        reset, reported>>
         /\ UNCHANGED <<coordinator, summaries>>
<1> USE DEF service, scheduler, setup, calling, wishes, PreviewUnchanged, SchedulerUnchanged, OnDaemon
<1>1. CASE TrayReads \/ RestartReads \/ Quit
  BY <1>1 DEF TrayReads, RestartReads, Quit
<1>2. CASE TrayToggles
  BY <1>2 DEF TrayToggles, Jobs!Pause, Jobs!Resume
<1>3. CASE RestartStep
  BY <1>3 DEF RestartStep, RestartHolds, RestartDeclined, RestartAccepted, Jobs!PauseIfIdle,
              Jobs!Pause, Jobs!Resume
<1> QED  BY <1>1, <1>2, <1>3 DEF Holds

LEMMA LoopFrame ==
  ASSUME LoopStep \/ JobStep
  PROVE  /\ UNCHANGED <<operations, daemon, paused, made, files, newest, window, reset, tray,
                        restart, quitting, wanted, disturbed, stranded, reported>>
         /\ UNCHANGED <<coordinator, summaries>>
BY DEF LoopStep, Receive, Take, BeginRun, StopRun, EndRun, RunDone, RunFails, JobStep, LoopChanges, setup,
   calling, wishes, scheduler, PreviewUnchanged, Jobs!Begin, Jobs!Stop, Jobs!End, Jobs!StartJob,
   Jobs!EndJob

LEMMA ResetStepFrame ==
  ASSUME ResetStep
  PROVE  UNCHANGED <<on, busy, newest, tray, restart, quitting, wanted, coordinator>>
<1> USE DEF service, scheduler, setup, calling, wishes, PreviewUnchanged, SchedulerUnchanged
<1>1. CASE MovesFiles
  BY <1>1, MovesFrame
<1>2. CASE ResetHolds \/ ResetRefused \/ ResetInvalid
  BY <1>2 DEF ResetHolds, ResetRefused, ResetInvalid, Jobs!PauseIfIdle, Jobs!Pause, Jobs!Resume
<1>3. CASE \/ ResetCancels \/ RunHasEnded \/ ResetGivesUp \/ CloseFails
           \/ ClearDaemon \/ HoldPreview \/ Restore \/ RestoreFails
  BY <1>3 DEF ResetCancels, RunHasEnded, ResetGivesUp, CloseFails, ClearDaemon, HoldPreview,
              Restore, RestoreFails
<1> QED  BY <1>1, <1>2, <1>3 DEF ResetStep, MovesFiles

LEMMA SteppingOut ==
  ASSUME Next
  PROVE  WindowStep \/ ResetStep \/ Holds \/ (LoopStep \/ JobStep) \/ Seen
BY DEF Next, Holds, Seen

-----------------------------------------------------------------------------
(***************************************************************************)
(* The lock.                                                               *)
(***************************************************************************)
LEMMA LockInit == Init => LockInv
BY DEF Init, LockInv, NoReset

LEMMA LockNext == TypeInv /\ LockInv /\ [Next]_vars => LockInv'
<1> SUFFICES ASSUME TypeInv, LockInv, [Next]_vars PROVE LockInv'
  OBVIOUS
<1> USE DEF LockInv
<1>1. ServiceType /\ LocalType
  BY TypeParts
<1>2. CASE WindowStep
  <2>1. CASE CompleteOnboarding
    BY <2>1 DEF CompleteOnboarding, WindowIdle, calling
  <2>2. CASE SaveBegins \/ SaveEnds
    BY <2>2 DEF SaveBegins, SaveEnds, WindowIdle
  <2>3. CASE \E wish \in BOOLEAN : WindowPauses(wish)
    BY <2>3 DEF WindowPauses, service, calling
  <2>4. CASE ResetBegins
    BY <2>4 DEF ResetBegins
  <2> QED  BY <1>2, <2>1, <2>2, <2>3, <2>4 DEF WindowStep
<1>3. CASE ResetStep
  <2>1. window = "reset" /\ operations # "free"
    BY <1>3 DEF ResetStep, ResetHolds, ResetRefused, ResetInvalid, ResetCancels, RunHasEnded,
       ResetGivesUp, CloseFails, ClearDaemon, HoldPreview, Stage, StagingFails, StagingFailsTwice, Remove,
       RemoveFails, Restore, RestoreFails, ResetAt
  <2>2. CASE \E outcome \in {"refused", "gave up", "failed", "incomplete", "done"} :
               ResetReturns(outcome)
    BY <2>2, ResetIsOver
  <2>3. ASSUME NEW s \in BeforeClear \cup AfterClear, ResetGo(s) \/ UNCHANGED reset,
               UNCHANGED <<operations, window>>
        PROVE  LockInv'
    <3>1. reset'.step # "none"
      BY <1>1, <2>1, <2>3, ResetGoes DEF LocalType, BeforeClear, AfterClear
    <3> QED  BY <2>1, <2>3, <3>1
  <2> QED  BY <1>1, <1>3, <2>2, <2>3, ResetMoves DEF LocalType
<1>4. CASE Holds
  BY <1>4, HoldsFrame
<1>5. CASE LoopStep \/ JobStep
  BY <1>5, LoopFrame
<1>6. CASE Seen
  BY <1>6, SeenFrame DEF service, calling
<1>7. CASE UNCHANGED vars
  BY <1>7 DEF vars, service, calling
<1> QED  BY <1>2, <1>3, <1>4, <1>5, <1>6, <1>7, SteppingOut

(* Without the lock no reset is under way. *)
LEMMA LockFree ==
  ASSUME LockInv, operations = "free"
  PROVE  window = "idle" /\ reset.step = "none"
BY DEF LockInv

-----------------------------------------------------------------------------
(***************************************************************************)
(* The loop and its run.                                                   *)
(***************************************************************************)
LEMMA LoopInit == Init => LoopInv
BY DEF Init, LoopInv, InRun, NoRun, NoReset, NoDaemon, Jobs!Init, AfterClear

(* A new daemon is made only while there is none, so while no run is.      *)
LEMMA LoopMakes ==
  ASSUME TypeInv, LoopInv, MakeDaemon, daemon = NoDaemon, UNCHANGED <<on, busy, loop>>,
         reset'.step = "none"
  PROVE  LoopInv'
<1>1. made + 1 # NoDaemon
  BY TypeParts DEF ServiceType, NoDaemon
<1>2. ~InRun
  BY DEF LoopInv, InRun
<1> QED  BY <1>1, <1>2 DEF LoopInv, InRun, MakeDaemon, AfterClear

LEMMA LoopNext == TypeInv /\ LockInv /\ LoopInv /\ [Next]_vars => LoopInv'
<1> SUFFICES ASSUME TypeInv, LockInv, LoopInv, [Next]_vars PROVE LoopInv'
  OBVIOUS
<1>1. ServiceType /\ LocalType
  BY TypeParts
<1>2. CASE WindowStep
  <2>1. CASE CompleteOnboarding
    <3>1. /\ MakeDaemon /\ daemon = NoDaemon /\ UNCHANGED <<on, busy, loop, reset>>
          /\ operations = "free"
      BY <2>1 DEF CompleteOnboarding, calling
    <3> QED  BY <3>1, LockFree, LoopMakes
  <2>2. CASE SaveBegins \/ SaveEnds
    BY <2>2 DEF SaveBegins, SaveEnds, scheduler, LoopInv, InRun
  <2>3. CASE \E wish \in BOOLEAN : WindowPauses(wish)
    BY <2>3 DEF WindowPauses, service, calling, Jobs!Pause, Jobs!Resume, LoopInv, InRun
  <2>4. CASE ResetBegins
    BY <2>4 DEF ResetBegins, scheduler, LoopInv, InRun, AfterClear
  <2> QED  BY <1>2, <2>1, <2>2, <2>3, <2>4 DEF WindowStep
<1>3. CASE ResetStep
  <2>1. UNCHANGED <<on, busy>>
    BY <1>3, ResetStepFrame
  <2>2. CASE MovesFiles
    <3>1. ResetAt("stage") /\ UNCHANGED <<daemon, made, loop>>
      BY <2>2, MovesFrame
    <3> QED  BY <2>1, <3>1 DEF LoopInv, InRun, ResetAt, AfterClear
  <2>3. CASE ResetHolds \/ ResetRefused \/ ResetInvalid \/ ResetGivesUp \/ CloseFails
    <3>1. UNCHANGED <<daemon, made, loop>> /\ reset'.step \in {"none", "validate"}
      BY <1>1, <2>3, ResetGoes, ResetIsOver DEF ResetHolds, ResetRefused, ResetInvalid,
         ResetGivesUp, CloseFails, service, LocalType, BeforeClear
    <3> QED  BY <2>1, <3>1 DEF LoopInv, InRun, AfterClear
  <2>4. CASE ResetCancels
    <3>1. /\ loop'.step = loop.step /\ loop'.daemon = loop.daemon /\ UNCHANGED <<daemon, made>>
          /\ reset'.step = IF InRun THEN "wait" ELSE "clear"
      BY <1>1, <2>4, ResetGoes DEF ResetCancels, LocalType, LoopVariables, BeforeClear
    <3> QED  BY <2>1, <3>1 DEF LoopInv, InRun, AfterClear
  <2>5. CASE RunHasEnded
    <3>1. UNCHANGED <<daemon, made, loop>> /\ ~InRun
      BY <2>5 DEF RunHasEnded, service
    <3> QED  BY <2>1, <3>1 DEF LoopInv, InRun, AfterClear
  <2>6. CASE ClearDaemon \/ HoldPreview
    <3>1. UNCHANGED <<made, loop>> /\ daemon' \in {daemon, NoDaemon} /\ ~InRun
      BY <2>6 DEF ClearDaemon, HoldPreview, ResetAt, service, LoopInv, AfterClear
    <3> QED  BY <2>1, <3>1 DEF LoopInv, InRun, AfterClear
  <2>7. CASE Restore
    <3>1. MakeDaemon /\ UNCHANGED <<on, busy, loop>> /\ reset'.step = "none" /\ ~InRun
      BY <2>7, ResetIsOver DEF Restore, ResetAt, LoopInv, AfterClear
    <3>2. made + 1 # NoDaemon
      BY <1>1 DEF ServiceType, NoDaemon
    <3> QED  BY <3>1, <3>2 DEF LoopInv, InRun, MakeDaemon, AfterClear
  <2>8. CASE RestoreFails
    <3>1. UNCHANGED <<daemon, made, loop>> /\ reset'.step = "none"
      BY <2>8, ResetIsOver DEF RestoreFails
    <3> QED  BY <2>1, <3>1 DEF LoopInv, InRun, AfterClear
  <2> QED  BY <1>3, <2>2, <2>3, <2>4, <2>5, <2>6, <2>7, <2>8 DEF ResetStep, MovesFiles
<1>4. CASE Holds
  BY <1>4, HoldsFrame DEF LoopInv, InRun
<1>5. CASE LoopStep \/ JobStep
  <2>1. UNCHANGED <<daemon, made, reset>>
    BY <1>5, LoopFrame
  <2>2. CASE Receive
    BY <2>1, <2>2 DEF Receive, LoopInv, InRun, scheduler
  <2>3. CASE Take
    <3>1. operations = "free" /\ UNCHANGED <<on, busy>> /\ loop.step = "lock"
          /\ loop' = IF loop.daemon = daemon THEN [loop EXCEPT !.step = "begin"] ELSE NoRun
      BY <2>3 DEF Take, scheduler
    <3>2. reset.step = "none"
      BY <3>1, LockFree
    <3> QED  BY <1>1, <2>1, <3>1, <3>2 DEF LoopInv, InRun, NoRun, LocalType, LoopVariables, AfterClear
  <2>4. CASE BeginRun \/ StopRun \/ EndRun \/ RunDone
    BY <1>1, <2>1, <2>4 DEF BeginRun, StopRun, EndRun, RunDone, Jobs!Begin, Jobs!Stop, Jobs!End,
       LoopInv, InRun, NoRun, LocalType, LoopVariables, scheduler
  <2>5. CASE RunFails
    BY <1>1, <2>1, <2>5 DEF RunFails, LoopInv, InRun, NoRun, LocalType, LoopVariables, scheduler
  <2>6. CASE JobStep
    BY <2>1, <2>6 DEF JobStep, Jobs!StartJob, Jobs!EndJob, LoopInv, InRun
  <2> QED  BY <1>5, <2>2, <2>3, <2>4, <2>5, <2>6 DEF LoopStep
<1>6. CASE Seen
  BY <1>6, SeenFrame DEF service, scheduler, calling, LoopInv, InRun
<1>7. CASE UNCHANGED vars
  BY <1>7 DEF vars, service, scheduler, calling, LoopInv, InRun
<1> QED  BY <1>2, <1>3, <1>4, <1>5, <1>6, <1>7, SteppingOut

-----------------------------------------------------------------------------
(***************************************************************************)
(* The files.                                                              *)
(***************************************************************************)
LEMMA SetupInit == Init => SetupInv
<1> SUFFICES ASSUME Init PROVE SetupInv
  OBVIOUS
<1>1. /\ \A t \in Target : files[t] = "home"
      /\ daemon = 1 /\ reset.step = "none"
  BY DEF Init, NoReset
<1>2. Staged = {} /\ Present /\ files["config"] = "home"
  BY <1>1 DEF Staged, Present, Target
<1> QED  BY <1>1, <1>2 DEF SetupInv, NoDaemon, BeforeClear, AfterClear

(* Steps that move no file, report nothing and keep the reset and daemon.  *)
LEMMA SetupKept ==
  ASSUME SetupInv, UNCHANGED <<files, reported, daemon>>, reset'.daemon = reset.daemon,
         reset'.step = reset.step
  PROVE  SetupInv'
<1>1. /\ Staged' = Staged /\ (Present' <=> Present) /\ (Gone' <=> Gone)
  BY DEF Staged, Present, Gone
<1> QED  BY <1>1 DEF SetupInv, BeforeClear, AfterClear

(* Between the beginning of a reset and its clearing of the daemon.        *)
LEMMA SetupHeld ==
  ASSUME SetupInv, UNCHANGED <<files, reported, daemon>>,
         reset.step \in {"none"} \cup BeforeClear,
         \/ reset'.step = "none"
         \/ reset'.step \in BeforeClear /\ reset'.daemon = daemon
  PROVE  SetupInv'
<1>1. /\ Staged' = Staged /\ (Present' <=> Present) /\ (Gone' <=> Gone)
  BY DEF Staged, Present, Gone
<1>2. Staged = {} /\ (Present \/ Gone) /\ (daemon # NoDaemon => files["config"] = "home")
  BY DEF SetupInv, BeforeClear
<1>3. ASSUME reported = {}, daemon = NoDaemon PROVE files["config"] = "absent"
  <2>1. files["config"] # "home"
    BY <1>3 DEF SetupInv, BeforeClear
  <2>2. files["config"] # "staged"
    BY <1>2 DEF Staged, Target
  <2>3. "config" \in Target \ reported
    BY <1>3 DEF Target
  <2> QED  BY <1>2, <2>1, <2>2, <2>3 DEF Present, Gone
<1>4. reported = {} => (files["config"] = "home") = (daemon # NoDaemon)
  BY DEF SetupInv
<1> QED  BY <1>1, <1>2, <1>3, <1>4 DEF SetupInv, BeforeClear, AfterClear

(* Onboarding puts the clone and the settings there. *)
LEMMA SetupOnboarding ==
  ASSUME TypeInv, LockInv, SetupInv, CompleteOnboarding
  PROVE  SetupInv'
<1>1. files \in [Target -> Place] /\ made \in Nat
  BY TypeParts DEF ServiceType
<1>2. /\ operations = "free" /\ UNCHANGED <<reported, reset>> /\ daemon' = made + 1
      /\ files' = [t \in Target |-> IF t = "rest" THEN files[t] ELSE "home"]
  BY DEF CompleteOnboarding, MakeDaemon, calling
<1>3. reset.step = "none"
  BY <1>2, LockFree
<1>4. /\ files'["clone"] = "home" /\ files'["config"] = "home" /\ files'["rest"] = files["rest"]
      /\ \A t \in Target : t \in {"clone", "config", "rest"}
  BY <1>2 DEF Target
<1>5. Staged' = {}
  <2>1. Staged = {}
    BY <1>3 DEF SetupInv
  <2>2. files["rest"] # "staged"
    BY <2>1 DEF Staged, Target
  <2> QED  BY <1>4, <2>2 DEF Staged
<1>6. Present'
  <2>1. "rest" \in Target \ reported => files["rest"] \in {"home", "staged", "absent"}
    BY DEF SetupInv, Present, Gone
  <2> QED  BY <1>2, <1>4, <2>1 DEF Present
<1>7. daemon' # NoDaemon
  BY <1>1, <1>2 DEF NoDaemon
<1> QED  BY <1>2, <1>3, <1>4, <1>5, <1>6, <1>7 DEF SetupInv, BeforeClear, AfterClear

LEMMA SetupWindow ==
  ASSUME TypeInv, LockInv, SetupInv, WindowStep
  PROVE  SetupInv'
<1>1. CASE SaveBegins \/ SaveEnds \/ \E wish \in BOOLEAN : WindowPauses(wish)
  <2>1. UNCHANGED <<files, reported, daemon, reset>>
    BY <1>1 DEF SaveBegins, SaveEnds, WindowPauses, service, setup, calling, wishes
  <2> QED  BY <2>1, SetupKept
<1>2. CASE ResetBegins
  <2>1. /\ UNCHANGED <<files, reported, daemon>> /\ operations = "free"
        /\ reset'.step \in {"validate", "hold"} /\ reset'.daemon = daemon
    BY <1>2 DEF ResetBegins, setup
  <2>2. reset.step = "none"
    BY <2>1, LockFree
  <2> QED  BY <2>1, <2>2, SetupHeld DEF BeforeClear
<1> QED  BY <1>1, <1>2, SetupOnboarding DEF WindowStep

(* A reset that has not touched a file yet. *)
LEMMA SetupHolding ==
  ASSUME TypeInv, SetupInv,
         \/ ResetHolds \/ ResetRefused \/ ResetInvalid \/ ResetCancels \/ RunHasEnded
         \/ ResetGivesUp \/ CloseFails \/ ClearDaemon \/ HoldPreview
  PROVE  SetupInv'
<1> USE DEF service, setup, wishes
<1>1. reset \in ResetVariables
  BY TypeParts DEF LocalType
<1>2. UNCHANGED <<files, reported>>
  BY DEF ResetHolds, ResetRefused, ResetInvalid, ResetCancels, RunHasEnded, ResetGivesUp, CloseFails,
     ClearDaemon, HoldPreview
<1>3. CASE ResetRefused \/ ResetInvalid \/ ResetGivesUp \/ CloseFails
  <2>1. UNCHANGED daemon /\ reset.step \in BeforeClear /\ reset'.step = "none"
    BY <1>3, ResetIsOver DEF ResetRefused, ResetInvalid, ResetGivesUp, CloseFails, ResetAt, BeforeClear
  <2> QED  BY <1>2, <2>1, SetupHeld
<1>4. CASE ResetHolds \/ ResetCancels \/ RunHasEnded
  <2>1. /\ UNCHANGED daemon /\ reset.step \in BeforeClear
        /\ \E s \in BeforeClear : ResetGo(s)
    BY <1>4 DEF ResetHolds, ResetCancels, RunHasEnded, ResetAt, BeforeClear
  <2>2. reset'.step \in BeforeClear /\ reset'.daemon = daemon
    BY <1>1, <2>1, ResetGoes DEF SetupInv
  <2> QED  BY <1>2, <2>1, <2>2, SetupHeld
<1>5. CASE ClearDaemon \/ HoldPreview
  <2>1. /\ daemon' = NoDaemon /\ reset'.step \in {"invalidate", "stage"}
        /\ reset'.daemon = reset.daemon /\ reset.step \in {"clear", "invalidate"}
    BY <1>1, <1>5, ResetGoes DEF ClearDaemon, HoldPreview, ResetAt, SetupInv, BeforeClear, AfterClear
  <2>2. /\ Staged' = Staged /\ (Present' <=> Present) /\ (Gone' <=> Gone)
    BY <1>2 DEF Staged, Present, Gone
  <2>3. /\ Staged = {} /\ (Present \/ Gone)
        /\ reset.daemon # NoDaemon => files["config"] \in {"home", "staged"}
        /\ reported = {} /\ reset.daemon = NoDaemon => files["config"] = "absent"
    BY <2>1 DEF SetupInv, BeforeClear, AfterClear
  <2> QED  BY <1>2, <2>1, <2>2, <2>3 DEF SetupInv, BeforeClear, AfterClear
<1> QED  BY <1>3, <1>4, <1>5

(* What SetupInv says while files are moved. *)
LEMMA SetupMoving ==
  ASSUME TypeInv, SetupInv, ResetAt("stage")
  PROVE  /\ files \in [Target -> Place] /\ reported \subseteq Reports /\ daemon = NoDaemon
         /\ Present \/ Gone
         /\ reset.daemon # NoDaemon => files["config"] \in {"home", "staged"}
         /\ reported = {} /\ reset.daemon = NoDaemon => files["config"] = "absent"
BY TypeParts DEF ServiceType, SetupInv, ResetAt, BeforeClear, AfterClear

LEMMA SetupStage ==
  ASSUME TypeInv, SetupInv, Stage
  PROVE  SetupInv'
<1>1. /\ ResetAt("stage") /\ AtHome # {} /\ UNCHANGED <<reported, daemon, reset>>
      /\ files' = [files EXCEPT ![Earliest(AtHome)] = "staged"]
  BY DEF Stage, service, calling, wishes
<1>2. Earliest(AtHome) \in AtHome
  <2> DEFINE first(S) == IF "clone" \in S THEN "clone" ELSE IF "config" \in S THEN "config" ELSE "rest"
  <2>1. AtHome \subseteq Target
    BY DEF AtHome
  <2>2. first(AtHome) \in AtHome
    BY <1>1, <2>1 DEF Target
  <2>3. Rank["clone"] = 1 /\ Rank["config"] = 2 /\ Rank["rest"] = 3
    BY DEF Rank
  <2>4. \A u \in AtHome : Rank[first(AtHome)] <= Rank[u]
    BY <2>1, <2>2, <2>3 DEF Target
  <2> HIDE DEF first
  <2> QED  BY <2>2, <2>4 DEF Earliest
<1> DEFINE e == Earliest(AtHome)
<1>3. e \in Target /\ files[e] = "home"
  BY <1>2 DEF AtHome
<1> HIDE DEF e
<1>4. /\ files'[e] = "staged" /\ \A t \in Target : t # e => files'[t] = files[t]
  BY <1>1, <1>3, SetupMoving DEF e
<1>5. Present' \/ Gone'
  <2>1. CASE Present
    BY <1>1, <1>4, <2>1 DEF Present
  <2>2. CASE Gone
    <3>1. e \in reported
      BY <1>3, <2>2 DEF Gone
    <3> QED  BY <1>1, <1>4, <2>2, <3>1 DEF Gone
  <2> QED  BY <1>1, <2>1, <2>2, SetupMoving
<1>6. files'["config"] = files["config"] \/ (files["config"] = "home" /\ files'["config"] = "staged")
  BY <1>3, <1>4 DEF Target
<1> QED  BY <1>1, <1>5, <1>6, SetupMoving DEF SetupInv, ResetAt, BeforeClear, AfterClear

LEMMA SetupRollBack ==
  ASSUME TypeInv, SetupInv, ResetAt("stage"), UNCHANGED daemon,
         NEW stuck \in SUBSET Staged, RollBack(Staged, stuck)
  PROVE  SetupInv'
<1>1. /\ files \in [Target -> Place] /\ daemon = NoDaemon
      /\ Present \/ Gone
      /\ reset.daemon # NoDaemon => files["config"] \in {"home", "staged"}
      /\ reported = {} /\ reset.daemon = NoDaemon => files["config"] = "absent"
  BY SetupMoving
<1>2. /\ reported' = reported \cup stuck
      /\ files' = [t \in Target |-> IF t \in stuck THEN "left"
                                    ELSE IF t \in Staged THEN "home" ELSE files[t]]
  BY DEF RollBack
<1>3. Staged' = {}
  BY <1>2 DEF Staged
<1>4. \A t \in Target \ reported' : files'[t] = IF files[t] = "staged" THEN "home" ELSE files[t]
  BY <1>2 DEF Staged
<1>5. Present' \/ Gone'
  BY <1>1, <1>2, <1>4 DEF Present, Gone
<1>6. "config" \in Target
  BY DEF Target
<1>7. CASE stuck = {} /\ reset.daemon # NoDaemon
  <2>1. reset'.step = "restore" /\ reset'.daemon = reset.daemon
    BY <1>7, TypeParts, ResetGoes DEF RollBack, LocalType, AfterClear
  <2>2. files'["config"] = "home"
    BY <1>1, <1>2, <1>6, <1>7 DEF Staged
  <2> QED  BY <1>1, <1>3, <1>5, <1>7, <2>1, <2>2 DEF SetupInv, BeforeClear, AfterClear
<1>8. CASE ~(stuck = {} /\ reset.daemon # NoDaemon)
  <2>1. reset'.step = "none"
    <3>1. ResetReturns(IF stuck = {} THEN "failed" ELSE "incomplete")
      BY <1>8 DEF RollBack
    <3> QED  BY <3>1 DEF ResetReturns, NoReset
  <2>2. reported' = {} => files'["config"] = "absent"
    BY <1>1, <1>2, <1>4, <1>6, <1>8
  <2> QED  BY <1>1, <1>3, <1>5, <2>1, <2>2 DEF SetupInv, BeforeClear, AfterClear
<1> QED  BY <1>7, <1>8

LEMMA SetupRemove ==
  ASSUME TypeInv, SetupInv, Remove \/ RemoveFails
  PROVE  SetupInv'
<1>1. PICK left \in SUBSET Staged :
        /\ files' = [t \in Target |-> IF t \in left THEN "left" ELSE Removed(t)]
        /\ reported' = reported \cup left
        /\ UNCHANGED daemon /\ ResetAt("stage") /\ AtHome = {}
  <2>1. CASE Remove
    <3>1. files' = [t \in Target |-> IF t \in {} THEN "left" ELSE Removed(t)]
      BY <2>1 DEF Remove
    <3> QED  BY <2>1, <3>1 DEF Remove, wishes
  <2>2. CASE RemoveFails
    BY <2>2 DEF RemoveFails
  <2> QED  BY <2>1, <2>2
<1>2. reset'.step = "none"
  BY ResetIsOver DEF Remove, RemoveFails
<1>3. /\ files \in [Target -> Place] /\ daemon = NoDaemon /\ (Present \/ Gone)
  BY <1>1, SetupMoving
<1>4. \A t \in Target : files'[t] \in {"left", "absent"}
  BY <1>1, <1>3 DEF AtHome, Removed, Place
<1>5. Gone'
  <2> SUFFICES ASSUME NEW t \in Target \ reported' PROVE files'[t] = "absent"
    BY DEF Gone
  <2>1. t \in Target \ reported /\ t \notin left /\ files[t] # "home"
    BY <1>1 DEF AtHome
  <2>2. files[t] \in {"staged", "absent"}
    BY <1>3, <2>1 DEF Present, Gone
  <2> QED  BY <1>1, <2>1, <2>2 DEF Removed
<1>6. Staged' = {} /\ files'["config"] # "home"
  BY <1>4 DEF Staged, Target
<1> QED  BY <1>1, <1>2, <1>3, <1>5, <1>6 DEF SetupInv, BeforeClear, AfterClear

LEMMA SetupRestore ==
  ASSUME TypeInv, SetupInv, Restore
  PROVE  SetupInv'
<1>1. /\ daemon' = made + 1 /\ made \in Nat /\ UNCHANGED <<files, reported>>
      /\ reset.step = "restore" /\ reset'.step = "none"
  BY TypeParts, ResetIsOver DEF Restore, MakeDaemon, ResetAt, ServiceType, setup
<1>2. /\ Staged' = Staged /\ (Present' <=> Present) /\ (Gone' <=> Gone)
  BY <1>1 DEF Staged, Present, Gone
<1>3. /\ Staged = {} /\ (Present \/ Gone) /\ files["config"] \in {"home", "staged"}
  BY <1>1 DEF SetupInv, AfterClear
<1>4. files["config"] = "home"
  BY <1>3 DEF Staged, Target
<1>5. daemon' # NoDaemon
  BY <1>1 DEF NoDaemon
<1> QED  BY <1>1, <1>2, <1>3, <1>4, <1>5 DEF SetupInv, BeforeClear, AfterClear

(* No daemon is made, and that is what the reset reports. *)
LEMMA SetupRestoreFails ==
  ASSUME TypeInv, SetupInv, RestoreFails
  PROVE  SetupInv'
<1>1. /\ UNCHANGED <<files, daemon>> /\ reported' = reported \cup {"daemon"}
      /\ reset.step = "restore" /\ reset'.step = "none"
  BY ResetIsOver DEF RestoreFails, ResetAt, setup
<1>2. Target \ reported' = Target \ reported
  BY <1>1 DEF Target
<1>3. /\ Staged' = Staged /\ (Present' <=> Present) /\ (Gone' <=> Gone)
  BY <1>1, <1>2 DEF Staged, Present, Gone
<1>4. /\ Staged = {} /\ (Present \/ Gone) /\ daemon = NoDaemon /\ reported' # {}
  BY <1>1 DEF SetupInv, AfterClear
<1> QED  BY <1>1, <1>3, <1>4 DEF SetupInv, BeforeClear, AfterClear

LEMMA SetupNext == TypeInv /\ LockInv /\ SetupInv /\ [Next]_vars => SetupInv'
<1> SUFFICES ASSUME TypeInv, LockInv, SetupInv, [Next]_vars PROVE SetupInv'
  OBVIOUS
<1>1. CASE ResetStep
  <2>1. CASE StagingFails \/ StagingFailsTwice
    <3>1. UNCHANGED daemon
      BY <2>1, MovesFrame DEF MovesFiles
    <3> QED  BY <2>1, <3>1, RollBackCases, SetupRollBack
  <2> QED  BY <1>1, <2>1, SetupHolding, SetupStage, SetupRemove, SetupRestore,
       SetupRestoreFails DEF ResetStep
<1>2. CASE Holds
  BY <1>2, HoldsFrame, SetupKept
<1>3. CASE LoopStep \/ JobStep
  BY <1>3, LoopFrame, SetupKept
<1>4. CASE Seen
  BY <1>4, SeenFrame, SetupKept DEF service, setup, calling, wishes
<1>5. CASE UNCHANGED vars
  BY <1>5, SetupKept DEF vars, service, setup, calling, wishes
<1> QED  BY <1>1, <1>2, <1>3, <1>4, <1>5, SetupWindow, SteppingOut

LEMMA SetupCorrect == Spec => [](TypeInv /\ LockInv /\ LoopInv /\ SetupInv)
<1>1. Init => TypeInv /\ LockInv /\ LoopInv /\ SetupInv
  BY TypeInit, LockInit, LoopInit, SetupInit
<1>2. TypeInv /\ LockInv /\ LoopInv /\ SetupInv /\ [Next]_vars
        => (TypeInv /\ LockInv /\ LoopInv /\ SetupInv)'
  BY TypeNext, LockNext, LoopNext, SetupNext
<1> QED  BY <1>1, <1>2, PTL DEF Spec

(***************************************************************************)
(* The run under way is the run of the service's daemon, and while a reset *)
(* moves files there is no run and no job: the lock keeps the loop from    *)
(* beginning one, and what was in the channel goes with the daemon         *)
(* (lifecycle.go Run, reset.go resetLocalSetup).                           *)
(***************************************************************************)
THEOREM LoopRunsTheDaemon == Spec => []RunsItsDaemon
<1>1. TypeInv /\ LoopInv /\ SetupInv => RunsItsDaemon
  <2> SUFFICES ASSUME TypeInv, LoopInv, SetupInv PROVE RunsItsDaemon
    OBVIOUS
  <2>1. (InRun => loop.daemon = daemon) /\ (on \/ busy => InRun)
    BY DEF LoopInv, InRun
  <2>2. Staged # {} => ~InRun
    BY DEF SetupInv, LoopInv, AfterClear
  <2> QED  BY <2>1, <2>2 DEF RunsItsDaemon
<1> QED  BY <1>1, SetupCorrect, PTL

(***************************************************************************)
(* Whatever fails in the middle, a reset that is over has removed the      *)
(* setup, left all of it, or reported what it left; and then the service   *)
(* has a daemon exactly if its settings are there (reset.go, the rollback  *)
(* of resetLocalSetup and its deferred restore).                           *)
(***************************************************************************)
THEOREM ResetLeavesAWhole == Spec => []ResetIsWhole
<1>1. SetupInv => ResetIsWhole
  <2> SUFFICES ASSUME SetupInv, reset.step = "none"
               PROVE  /\ \/ \A t \in Target \ reported :
                              files[t] = "home" \/ (t = "rest" /\ files[t] = "absent")
                         \/ \A t \in Target \ reported : files[t] = "absent"
                      /\ reported = {} => (files["config"] = "home") = (daemon # NoDaemon)
    BY DEF ResetIsWhole
  <2>1. \A t \in Target : files[t] # "staged"
    BY DEF SetupInv, Staged
  <2> QED  BY <2>1 DEF SetupInv, Present, Gone
<1> QED  BY <1>1, SetupCorrect, PTL

-----------------------------------------------------------------------------
(***************************************************************************)
(* Pausing.                                                                *)
(***************************************************************************)
LEMMA PauseInit == Init => PauseInv
<1> SUFFICES ASSUME Init PROVE PauseInv
  OBVIOUS
<1>1. reset.step = "none" /\ restart.step = "none" /\ paused = FALSE /\ wanted = FALSE
  BY DEF Init, NoReset, NoRestart, Jobs!Init
<1> QED  BY <1>1 DEF PauseInv, PauseIsTheUsers

LEMMA PauseFrame ==
  ASSUME PauseInv, UNCHANGED <<daemon, paused, wanted, reset, restart>>,
         disturbed => disturbed', quitting => quitting'
  PROVE  PauseInv'
BY DEF PauseInv, PauseIsTheUsers, HoldUnderWay

(* Nobody holds the scheduler any more: all there is to show is what the   *)
(* user sees.                                                              *)
LEMMA PauseOver ==
  ASSUME reset'.step = "none", restart'.step = "none",
         ~disturbed' /\ ~quitting' /\ daemon' # NoDaemon => paused' = wanted'
  PROVE  PauseInv'
BY DEF PauseInv, PauseIsTheUsers, HoldUnderWay

LEMMA PauseWindow ==
  ASSUME TypeInv, LockInv, PauseInv, WindowStep
  PROVE  PauseInv'
<1> USE DEF service, scheduler, setup, calling, wishes
<1>1. CASE CompleteOnboarding
  <2>1. /\ daemon = NoDaemon /\ operations = "free"
        /\ paused' = wanted' /\ UNCHANGED <<reset, restart, disturbed, quitting>>
    BY <1>1 DEF CompleteOnboarding
  <2>2. reset.step = "none" /\ restart.step \in {"none", "hold", "ask"}
    BY <2>1, LockFree, TypeParts DEF LocalType, RestartVariables
  <2>3. ~disturbed /\ ~quitting /\ restart.step # "none" =>
          restart.daemon = NoDaemon /\ restart.step # "hold"
    BY <2>1 DEF PauseInv
  <2> QED  BY <2>1, <2>2, <2>3 DEF PauseInv, PauseIsTheUsers
<1>2. CASE SaveBegins \/ SaveEnds
  BY <1>2, PauseFrame DEF SaveBegins, SaveEnds
<1>3. ASSUME NEW wish \in BOOLEAN, WindowPauses(wish) PROVE PauseInv'
  <2>1. /\ paused' = wanted' /\ UNCHANGED <<reset, restart>>
        /\ disturbed' = (disturbed \/ HoldUnderWay)
    BY <1>3 DEF WindowPauses, Jobs!Pause, Jobs!Resume
  <2> QED  BY <2>1 DEF PauseInv, PauseIsTheUsers, HoldUnderWay
<1>4. CASE ResetBegins
  <2>1. /\ operations = "free" /\ UNCHANGED <<daemon, paused, wanted, restart, quitting>>
        /\ disturbed' = (disturbed \/ restart.step # "none")
        /\ reset'.step = IF daemon = NoDaemon THEN "validate" ELSE "hold"
        /\ reset'.daemon = daemon /\ reset'.wasPaused = paused
    BY <1>4 DEF ResetBegins
  <2>2. reset.step = "none"
    BY <2>1, LockFree
  <2> QED  BY <2>1, <2>2 DEF PauseInv, PauseIsTheUsers, HoldUnderWay
<1> QED  BY <1>1, <1>2, <1>3, <1>4 DEF WindowStep

LEMMA PauseReset ==
  ASSUME TypeInv, SetupInv, PauseInv, ResetStep
  PROVE  PauseInv'
<1>1. UNCHANGED <<restart, quitting, wanted>> /\ reset \in ResetVariables
  BY ResetStepFrame, TypeParts DEF LocalType
<1>2. reset.step # "none"
  BY DEF ResetStep, ResetHolds, ResetRefused, ResetInvalid, ResetCancels, RunHasEnded,
     ResetGivesUp, CloseFails, ClearDaemon, HoldPreview, Stage, StagingFails, StagingFailsTwice, Remove,
     RemoveFails, Restore, RestoreFails, ResetAt
<1> SUFFICES ASSUME ~disturbed', ~quitting' PROVE PauseInv'
  BY DEF PauseInv
<1>3. UNCHANGED disturbed
  BY MovesFrame DEF ResetStep, ResetHolds, ResetRefused, ResetInvalid, ResetCancels, RunHasEnded,
     ResetGivesUp, CloseFails, ClearDaemon, HoldPreview, MovesFiles, Restore, RestoreFails, wishes
<1>4. restart.step = "none" /\ (reset.daemon # NoDaemon => reset.wasPaused = wanted)
  BY <1>1, <1>2, <1>3 DEF PauseInv
<1>5. CASE ResetHolds
  <2>1. paused' = TRUE /\ reset'.step = "validate" /\ UNCHANGED daemon
        /\ reset'.daemon = reset.daemon /\ reset'.wasPaused = reset.wasPaused
    BY <1>1, <1>5, ResetGoes DEF ResetHolds, Jobs!PauseIfIdle, Jobs!Pause, service, BeforeClear
  <2> QED  BY <1>1, <1>4, <2>1 DEF PauseInv, PauseIsTheUsers, HoldUnderWay
<1>6. CASE ResetRefused \/ ResetInvalid
  <2>1. UNCHANGED daemon /\ reset'.step = "none"
    BY <1>6, ResetIsOver DEF ResetRefused, ResetInvalid
  <2>2. daemon # NoDaemon => paused' = wanted
    <3>1. CASE ResetRefused
      BY <1>1, <1>3, <3>1 DEF ResetRefused, ResetAt, PauseInv, scheduler
    <3>2. CASE ResetInvalid
      <4>1. reset.step = "validate"
            /\ paused' = IF reset.daemon # NoDaemon /\ ~reset.wasPaused THEN FALSE ELSE paused
        BY <3>2 DEF ResetInvalid, ResetAt, Jobs!Resume, SchedulerUnchanged, scheduler
      <4>2. reset.daemon = daemon
        BY <4>1 DEF SetupInv, BeforeClear
      <4>3. reset.daemon # NoDaemon => paused = TRUE
        BY <1>1, <1>3, <4>1, TypeParts DEF PauseInv, ServiceType
      <4>4. reset.wasPaused \in BOOLEAN
        BY <1>1 DEF ResetVariables
      <4> QED  BY <1>4, <4>1, <4>2, <4>3, <4>4
    <3> QED  BY <1>6, <3>1, <3>2
  <2> QED  BY <1>1, <1>4, <2>1, <2>2, PauseOver
<1>7. CASE ResetCancels \/ RunHasEnded \/ ClearDaemon \/ HoldPreview
  <2>1. reset'.step \in {"wait", "clear", "invalidate", "stage"}
        /\ reset'.daemon = reset.daemon /\ reset'.wasPaused = reset.wasPaused
    BY <1>1, <1>7, ResetGoes DEF ResetCancels, RunHasEnded, ClearDaemon, HoldPreview, BeforeClear,
       AfterClear
  <2> QED  BY <1>1, <1>4, <2>1 DEF PauseInv, PauseIsTheUsers, HoldUnderWay
<1>8. CASE ResetGivesUp \/ CloseFails
  BY <1>8 DEF ResetGivesUp, CloseFails
<1>9. CASE MovesFiles
  <2>1. daemon' = NoDaemon
    BY <1>9, MovesFrame, SetupMoving
  <2>2. CASE reset'.step = "none"
    BY <1>1, <1>4, <2>1, <2>2, PauseOver
  <2>3. CASE reset'.step # "none"
    <3>1. UNCHANGED reset \/ ResetGo("restore")
      <4>1. CASE StagingFails \/ StagingFailsTwice
        BY <2>3, <4>1, RollBackCases, ResetIsOver DEF RollBack
      <4>2. CASE Remove \/ RemoveFails
        BY <2>3, <4>2, ResetIsOver DEF Remove, RemoveFails
      <4>3. CASE Stage
        BY <4>3 DEF Stage, calling
      <4> QED  BY <1>9, <4>1, <4>2, <4>3 DEF MovesFiles
    <3>2. reset'.step \in {"stage", "restore"}
          /\ reset'.daemon = reset.daemon /\ reset'.wasPaused = reset.wasPaused
      BY <1>1, <1>9, <3>1, MovesFrame, ResetGoes DEF ResetAt, AfterClear
    <3> QED  BY <1>1, <1>4, <3>2 DEF PauseInv, PauseIsTheUsers, HoldUnderWay
  <2> QED  BY <2>2, <2>3
<1>10. CASE Restore
  <2>1. paused' = reset.wasPaused /\ reset'.step = "none" /\ reset.daemon # NoDaemon
    BY <1>10, ResetIsOver DEF Restore, ResetAt, SetupInv
  <2> QED  BY <1>1, <1>4, <2>1, PauseOver
<1>11. CASE RestoreFails
  <2>1. daemon' = NoDaemon /\ reset'.step = "none"
    BY <1>11, ResetIsOver DEF RestoreFails, ResetAt, SetupInv, AfterClear
  <2> QED  BY <1>1, <1>4, <2>1, PauseOver
<1> QED  BY <1>5, <1>6, <1>7, <1>8, <1>9, <1>10, <1>11 DEF ResetStep, MovesFiles

LEMMA PauseHolds ==
  ASSUME TypeInv, LockInv, LoopInv, PauseInv, Holds
  PROVE  PauseInv'
<1> USE DEF service, scheduler, setup, calling, wishes
<1>1. UNCHANGED <<daemon, made, reset, window>>
  BY HoldsFrame
<1>2. /\ restart \in RestartVariables /\ paused \in BOOLEAN /\ wanted \in BOOLEAN
  BY TypeParts DEF LocalType, ServiceType
<1>3. restart.wasPaused \in BOOLEAN
  BY <1>2 DEF RestartVariables
<1>4. CASE TrayReads
  BY <1>4, PauseFrame DEF TrayReads
<1>5. CASE TrayToggles
  <2>1. /\ disturbed' = (disturbed \/ HoldUnderWay) /\ UNCHANGED <<restart, quitting>>
        /\ tray.daemon = made => paused' = wanted'
        /\ tray.daemon # made => UNCHANGED <<paused, wanted>>
    <3>1. tray.wasPaused \in BOOLEAN
      BY TypeParts DEF LocalType, ClickVariables
    <3>2. tray.daemon = made => paused' = ~tray.wasPaused
      BY <1>5, <3>1 DEF TrayToggles, OnDaemon, Jobs!Pause, Jobs!Resume
    <3>3. tray.daemon # made => UNCHANGED paused
      BY <1>5 DEF TrayToggles, OnDaemon, SchedulerUnchanged
    <3> QED  BY <1>5, <3>1, <3>2, <3>3 DEF TrayToggles
  <2> QED  BY <1>1, <2>1 DEF PauseInv, PauseIsTheUsers, HoldUnderWay
<1>6. CASE RestartReads
  <2>1. /\ window = "idle" /\ restart.step = "none"
        /\ UNCHANGED <<paused, wanted, disturbed, quitting>>
        /\ restart'.step = IF daemon = NoDaemon THEN "ask" ELSE "hold"
        /\ restart'.daemon = daemon /\ restart'.wasPaused = paused
    BY <1>6 DEF RestartReads, WindowIdle
  <2>2. reset.step = "none"
    BY <2>1 DEF LockInv
  <2> QED  BY <1>1, <2>1, <2>2 DEF PauseInv, PauseIsTheUsers, HoldUnderWay
<1>7. CASE RestartHolds
  <2>1. /\ restart.step = "hold" /\ UNCHANGED <<wanted, quitting>>
        /\ disturbed' = (disturbed \/ reset.step # "none")
    BY <1>7 DEF RestartHolds
  <2> SUFFICES ASSUME ~disturbed', ~quitting' PROVE PauseInv'
    BY DEF PauseInv
  <2>2. /\ reset.step = "none" /\ restart.daemon # NoDaemon /\ paused = wanted
        /\ restart.daemon = daemon /\ restart.wasPaused = wanted
    BY <2>1 DEF PauseInv
  <2>3. CASE restart' = NoRestart /\ UNCHANGED paused
    BY <1>1, <2>1, <2>2, <2>3, PauseOver DEF NoRestart
  <2>4. CASE OnDaemon(restart.daemon, Jobs!PauseIfIdle) /\ restart' = [restart EXCEPT !.step = "ask"]
    <3>1. /\ restart'.step = "ask" /\ restart'.daemon = restart.daemon
          /\ restart'.wasPaused = restart.wasPaused
      BY <1>2, <2>4 DEF RestartVariables
    <3>2. paused'
      BY <2>2, <2>4 DEF OnDaemon, LoopInv, Jobs!PauseIfIdle, Jobs!Pause
    <3> QED  BY <1>1, <2>1, <2>2, <3>1, <3>2 DEF PauseInv, PauseIsTheUsers, HoldUnderWay
  <2> QED  BY <1>7, <2>3, <2>4 DEF RestartHolds, SchedulerUnchanged
<1>8. CASE RestartDeclined
  <2>1. /\ restart.step = "ask" /\ UNCHANGED <<wanted, quitting>> /\ restart'.step = "none"
        /\ disturbed' = (disturbed \/ reset.step # "none")
    BY <1>8 DEF RestartDeclined, NoRestart
  <2> SUFFICES ASSUME ~disturbed', ~quitting' PROVE PauseInv'
    BY DEF PauseInv
  <2>2. /\ reset.step = "none"
        /\ restart.daemon # NoDaemon =>
             restart.daemon = daemon /\ restart.wasPaused = wanted /\ paused
        /\ restart.daemon = NoDaemon => (daemon # NoDaemon => paused = wanted)
    BY <2>1 DEF PauseInv
  <2>3. CASE restart.daemon # NoDaemon /\ ~restart.wasPaused
    <3>1. restart.daemon = made
      BY <2>2, <2>3 DEF LoopInv
    <3>2. paused' = FALSE
      BY <1>8, <2>3, <3>1 DEF RestartDeclined, OnDaemon, Jobs!Resume
    <3> QED  BY <1>1, <1>3, <2>1, <2>2, <2>3, <3>2, PauseOver
  <2>4. CASE ~(restart.daemon # NoDaemon /\ ~restart.wasPaused)
    <3>1. UNCHANGED paused
      BY <1>8, <2>4 DEF RestartDeclined, SchedulerUnchanged
    <3>2. daemon # NoDaemon => paused = wanted
      BY <1>2, <1>3, <2>2, <2>4
    <3> QED  BY <1>1, <2>1, <2>2, <3>1, <3>2, PauseOver
  <2> QED  BY <2>3, <2>4
<1>9. CASE RestartAccepted \/ Quit
  <2>1. quitting'
    BY <1>9 DEF RestartAccepted, Quit
  <2> QED  BY <2>1 DEF PauseInv
<1> QED  BY <1>4, <1>5, <1>6, <1>7, <1>8, <1>9 DEF Holds, RestartStep

LEMMA PauseNext ==
  TypeInv /\ LockInv /\ LoopInv /\ SetupInv /\ PauseInv /\ [Next]_vars => PauseInv'
<1> SUFFICES ASSUME TypeInv, LockInv, LoopInv, SetupInv, PauseInv, [Next]_vars PROVE PauseInv'
  OBVIOUS
<1>1. CASE LoopStep \/ JobStep
  BY <1>1, LoopFrame, PauseFrame
<1>2. CASE Seen
  BY <1>2, SeenFrame, PauseFrame DEF service, scheduler, calling, wishes
<1>3. CASE UNCHANGED vars
  BY <1>3, PauseFrame DEF vars, service, scheduler, calling, wishes
<1> QED  BY <1>1, <1>2, <1>3, PauseWindow, PauseReset, PauseHolds, SteppingOut

(***************************************************************************)
(* Pausing is the user's: after any sequence of resets, rollbacks and      *)
(* refused restarts the scheduler is paused exactly if the user's last     *)
(* word was to pause it (lifecycle.go RestartToUpdate, reset.go            *)
(* resetLocalSetup).                                                       *)
(***************************************************************************)
THEOREM PauseStaysTheUsers == Spec => []PauseIsTheUsers
<1>1. PauseInv => PauseIsTheUsers
  BY DEF PauseInv, PauseIsTheUsers
<1> QED  BY <1>1, PauseInit, PauseNext, SetupCorrect, PTL DEF Spec

-----------------------------------------------------------------------------
(***************************************************************************)
(* The preview.  A step of it changes one collection.                      *)
(***************************************************************************)
LEMMA CallChanged ==
  ASSUME PreviewTypeOK, NEW c \in Call, NEW call, calls' = [calls EXCEPT ![c] = call]
  PROVE  calls'[c] = call /\ \A d \in Call : d # c => calls'[d] = calls[d]
BY DEF PreviewTypeOK

LEMMA CallTyped ==
  ASSUME PreviewTypeOK, NEW c \in Call
  PROVE  calls[c] \in CallVariables
BY DEF PreviewTypeOK, CallVariables

(* What release makes of the collection that v leaves. *)
LEMMA ReleasedCall ==
  ASSUME PreviewTypeOK, NEW c \in Call, NEW v \in calls[c].waiters, calls[c].step # "free"
  PROVE  /\ Released(c, v).waiters = calls[c].waiters \ {v}
         /\ \/ /\ Released(c, v).step = calls[c].step /\ Released(c, v).outcome = calls[c].outcome
               /\ Released(c, v).generation = calls[c].generation
               /\ Released(c, v).settings = calls[c].settings
               /\ IF calls[c].waiters = {v} THEN Released(c, v).cancelled /\ calls[c].step # "done"
                  ELSE Released(c, v).cancelled = calls[c].cancelled
            \/ Released(c, v) = Idle /\ calls[c].step = "done" /\ calls[c].waiters = {v}
<1>1. calls[c] \in CallVariables
  BY CallTyped
<1>2. (calls[c].waiters \ {v} = {}) <=> (calls[c].waiters = {v})
  OBVIOUS
<1>3. CASE calls[c].waiters \ {v} # {}
  <2>1. Released(c, v) = [calls[c] EXCEPT !.waiters = calls[c].waiters \ {v}]
    BY <1>3 DEF Released
  <2> QED  BY <1>1, <1>2, <1>3, <2>1 DEF CallVariables
<1>4. CASE calls[c].waiters \ {v} = {} /\ calls[c].step = "done"
  <2>1. Released(c, v) = Idle
    BY <1>4 DEF Released
  <2> QED  BY <1>2, <1>4, <2>1 DEF Idle
<1>5. CASE calls[c].waiters \ {v} = {} /\ calls[c].step # "done"
  <2>1. Released(c, v) = [calls[c] EXCEPT !.waiters = {}, !.cancelled = TRUE]
    BY <1>5 DEF Released
  <2> QED  BY <1>1, <1>2, <1>5, <2>1 DEF CallVariables
<1> QED  BY <1>3, <1>4, <1>5

(* The steps of a collection, all but the last. *)
Proceeds(c) ==
  /\ \A d \in Call : d # c => calls'[d] = calls[d]
  /\ calls'[c].waiters = calls[c].waiters /\ calls'[c].cancelled = calls[c].cancelled
  /\ calls[c].step \notin {"free", "done"} /\ calls'[c].step \notin {"free", "done"}
  /\ calls'[c].outcome = "cancelled" => calls[c].cancelled \/ calls[c].outcome = "cancelled"
  /\ UNCHANGED <<inflight, viewer, answer>>

LEMMA CallProceeds ==
  ASSUME PreviewTypeOK, NEW c \in Call,
         ReadGeneration(c) \/ LoadSettings(c) \/ Collect(c) \/ Commit(c)
  PROVE  Proceeds(c)
<1> USE DEF Proceeds
<1>1. calls[c] \in CallVariables
  BY CallTyped
<1>2. UNCHANGED <<inflight, viewer, answer>> /\ calls[c].step \notin {"free", "done"}
  BY DEF ReadGeneration, LoadSettings, Collect, Commit
<1>3. ASSUME NEW s \in CallStep \ {"free", "done"}, NEW g, NEW n, NEW o,
             o = "cancelled" => calls[c].cancelled \/ calls[c].outcome = "cancelled",
             calls' = [calls EXCEPT ![c] =
               [calls[c] EXCEPT !.step = s, !.generation = g, !.settings = n, !.outcome = o]]
      PROVE  Proceeds(c)
  <2>1. calls'[c] = [calls[c] EXCEPT !.step = s, !.generation = g, !.settings = n, !.outcome = o]
        /\ \A d \in Call : d # c => calls'[d] = calls[d]
    BY <1>3, CallChanged
  <2> QED  BY <1>1, <1>2, <1>3, <2>1 DEF CallVariables
<1>4. CASE ReadGeneration(c)
  <2>1. calls' = [calls EXCEPT ![c] = [calls[c] EXCEPT !.step = "settings",
                    !.generation = generation, !.settings = @, !.outcome = @]]
    BY <1>1, <1>4 DEF ReadGeneration, CallVariables, PreviewTypeOK
  <2> QED  BY <1>3, <2>1 DEF CallStep
<1>5. ASSUME NEW o, GiveUp(c, o), o = "cancelled" => calls[c].cancelled
      PROVE  Proceeds(c)
  <2>1. calls' = [calls EXCEPT ![c] = [calls[c] EXCEPT !.step = "complete",
                    !.generation = @, !.settings = @, !.outcome = o]]
    BY <1>1, <1>5 DEF GiveUp, CallVariables, PreviewTypeOK
  <2> QED  BY <1>3, <1>5, <2>1 DEF CallStep
<1>6. CASE LoadSettings(c)
  <2>1. CASE settings = NoSettings
    BY <1>5, <1>6, <2>1 DEF LoadSettings
  <2>2. CASE settings # NoSettings
    <3>1. calls' = [calls EXCEPT ![c] = [calls[c] EXCEPT !.step = "collect",
                      !.generation = @, !.settings = settings, !.outcome = @]]
      BY <1>1, <1>6, <2>2 DEF LoadSettings, CallVariables, PreviewTypeOK
    <3> QED  BY <1>3, <3>1 DEF CallStep
  <2> QED  BY <2>1, <2>2
<1>7. CASE Collect(c)
  <2>1. CASE GoOn(c, "commit")
    <3>1. calls' = [calls EXCEPT ![c] = [calls[c] EXCEPT !.step = "commit",
                      !.generation = @, !.settings = @, !.outcome = @]]
      BY <1>1, <2>1 DEF GoOn, CallVariables, PreviewTypeOK
    <3> QED  BY <1>3, <3>1 DEF CallStep
  <2> QED  BY <1>5, <1>7, <2>1 DEF Collect
<1>8. CASE Commit(c)
  BY <1>5, <1>8 DEF Commit
<1> QED  BY <1>4, <1>6, <1>7, <1>8

LEMMA ViewInit == Init => ViewInv
<1> SUFFICES ASSUME Init PROVE ViewInv
  OBVIOUS
<1>1. /\ \A c \in Call : calls[c] = Idle
      /\ inflight = NoCall /\ \A v \in Viewer : viewer[v] = NoCall /\ answer[v] = "none"
  BY DEF Init, PreviewInit
<1> QED  BY <1>1 DEF ViewInv, Idle

LEMMA ViewCollection ==
  ASSUME PreviewTypeOK, ViewInv, NEW c \in Call, CollectionStep(c)
  PROVE  ViewInv'
<1>1. viewer \in [Viewer -> Call \cup {NoCall}] /\ inflight \in Call \cup {NoCall}
  BY DEF PreviewTypeOK
<1>2. CASE Proceeds(c)
  <2>1. \A d \in Call : calls'[d].waiters = calls[d].waiters /\ calls'[d].cancelled = calls[d].cancelled
    BY <1>2 DEF Proceeds
  <2>2. \A d \in Call : (calls'[d].step = "free" => calls[d].step = "free")
                        /\ (calls'[d].step \in {"free", "done"} => calls[d].step \in {"free", "done"})
                        /\ (calls'[d].outcome = "cancelled" => calls[d].cancelled)
    BY <1>2 DEF Proceeds, ViewInv
  <2>3. UNCHANGED <<inflight, viewer, answer>>
    BY <1>2 DEF Proceeds
  <2> QED  BY <1>1, <2>1, <2>2, <2>3 DEF ViewInv
<1>3. CASE Complete(c)
  <2>1. calls[c] \in CallVariables
    BY CallTyped
  <2>2. /\ calls'[c] = IF calls[c].waiters = {} THEN Idle ELSE [calls[c] EXCEPT !.step = "done"]
        /\ \A d \in Call : d # c => calls'[d] = calls[d]
    BY <1>3, CallChanged DEF Complete
  <2>3. /\ calls'[c].waiters = calls[c].waiters
        /\ calls'[c].cancelled => calls[c].cancelled
        /\ calls'[c].step = "free" => calls[c].waiters = {}
        /\ calls'[c].outcome = "cancelled" => calls'[c].cancelled
    <3>1. CASE calls[c].waiters = {}
      BY <2>2, <3>1 DEF Idle
    <3>2. CASE calls[c].waiters # {}
      BY <2>1, <2>2, <3>2 DEF CallVariables, ViewInv
    <3> QED  BY <3>1, <3>2
  <2>4. /\ inflight' = IF inflight = c THEN NoCall ELSE inflight
        /\ UNCHANGED <<viewer, answer>>
    BY <1>3 DEF Complete
  <2>5. \A d \in Call : calls'[d].waiters = calls[d].waiters
    BY <2>2, <2>3
  <2>6. inflight' # NoCall => inflight' # c /\ inflight' = inflight
    BY <2>4
  <2>7. \A d \in Call : /\ calls'[d].cancelled => calls'[d].waiters = {} /\ inflight' # d
                        /\ calls'[d].step = "free" => calls'[d].waiters = {}
                        /\ calls'[d].outcome = "cancelled" => calls'[d].cancelled
    BY PreviewAssumption, <2>2, <2>3, <2>4 DEF ViewInv
  <2>8. inflight' # NoCall => calls'[inflight'].step \notin {"free", "done"}
    BY <1>1, <2>2, <2>6 DEF ViewInv
  <2> QED  BY <1>1, <2>4, <2>5, <2>7, <2>8 DEF ViewInv
<1> QED  BY <1>2, <1>3, CallProceeds DEF CollectionStep

LEMMA ViewViewer ==
  ASSUME PreviewTypeOK, ViewInv, NEW v \in Viewer,
         \/ Join(v) \/ Abandon(v) \/ Answer(v)
         \/ \E c \in Call : StartCollection(v, c)
  PROVE  ViewInv'
<1>1. /\ viewer \in [Viewer -> Call \cup {NoCall}] /\ inflight \in Call \cup {NoCall}
      /\ answer \in [Viewer -> Outcome] /\ NoCall \notin Call
  BY PreviewAssumption DEF PreviewTypeOK
(* v begins to wait for c, which goes on and is not cancelled. *)
<1>2. ASSUME NEW c \in Call, viewer[v] = NoCall, viewer' = [viewer EXCEPT ![v] = c],
             inflight' = c, answer' = [answer EXCEPT ![v] = "none"],
             \A d \in Call : d # c => calls'[d] = calls[d],
             calls'[c].waiters = calls[c].waiters \cup {v}, ~calls'[c].cancelled,
             calls'[c].step \notin {"free", "done"}, calls'[c].outcome # "cancelled"
      PROVE  ViewInv'
  <2>1. viewer'[v] = c /\ \A w \in Viewer : w # v => viewer'[w] = viewer[w]
    BY <1>1, <1>2
  <2>2. \A w \in Viewer : answer'[w] # "cancelled"
    BY <1>1, <1>2 DEF ViewInv
  <2>3. \A w \in Viewer : viewer'[w] # NoCall => w \in calls'[viewer'[w]].waiters
    <3> SUFFICES ASSUME NEW w \in Viewer, viewer'[w] # NoCall PROVE w \in calls'[viewer'[w]].waiters
      OBVIOUS
    <3>1. CASE w = v
      BY <1>2, <2>1, <3>1
    <3>2. CASE w # v
      <4>1. viewer[w] \in Call /\ w \in calls[viewer[w]].waiters /\ viewer'[w] = viewer[w]
        BY <1>1, <2>1, <3>2 DEF ViewInv
      <4> QED  BY <1>2, <4>1
    <3> QED  BY <3>1, <3>2
  <2>4. \A d \in Call : \A w \in calls'[d].waiters : viewer'[w] = d
    <3> SUFFICES ASSUME NEW d \in Call, NEW w \in calls'[d].waiters PROVE viewer'[w] = d
      OBVIOUS
    <3>1. CASE w = v /\ d = c
      BY <2>1, <3>1
    <3>2. CASE ~(w = v /\ d = c)
      <4>1. w \in calls[d].waiters
        BY <1>2, <3>2
      <4>2. viewer[w] = d /\ calls[d] \in CallVariables
        BY <4>1, CallTyped DEF ViewInv
      <4>3. w \in Viewer /\ w # v
        BY <1>1, <1>2, <4>1, <4>2 DEF CallVariables
      <4> QED  BY <2>1, <4>2, <4>3
    <3> QED  BY <3>1, <3>2
  <2>5. \A d \in Call : /\ calls'[d].cancelled => calls'[d].waiters = {} /\ inflight' # d
                        /\ calls'[d].step = "free" => calls'[d].waiters = {}
                        /\ calls'[d].outcome = "cancelled" => calls'[d].cancelled
    BY <1>2 DEF ViewInv
  <2> QED  BY <1>2, <2>2, <2>3, <2>4, <2>5 DEF ViewInv
<1>3. CASE Join(v)
  <2>1. inflight \in Call /\ viewer[v] = NoCall /\ UNCHANGED inflight
        /\ viewer' = [viewer EXCEPT ![v] = inflight] /\ answer' = [answer EXCEPT ![v] = "none"]
        /\ calls' = [calls EXCEPT ![inflight] = [calls[inflight] EXCEPT !.waiters = @ \cup {v}]]
    BY <1>1, <1>3 DEF Join, PreviewTypeOK
  <2>2. calls'[inflight] = [calls[inflight] EXCEPT !.waiters = @ \cup {v}]
        /\ \A d \in Call : d # inflight => calls'[d] = calls[d]
    BY <2>1, CallChanged
  <2>3. calls[inflight] \in CallVariables
    BY <2>1, CallTyped
  <2>4. ~calls[inflight].cancelled /\ calls[inflight].step \notin {"free", "done"}
        /\ calls[inflight].outcome # "cancelled"
    BY <1>1, <2>1 DEF ViewInv
  <2>5. /\ calls'[inflight].waiters = calls[inflight].waiters \cup {v}
        /\ ~calls'[inflight].cancelled /\ calls'[inflight].step \notin {"free", "done"}
        /\ calls'[inflight].outcome # "cancelled"
    BY <2>2, <2>3, <2>4 DEF CallVariables
  <2> QED  BY <1>2, <2>1, <2>2, <2>5
<1>4. ASSUME NEW c \in Call, StartCollection(v, c) PROVE ViewInv'
  <2>1. /\ viewer[v] = NoCall /\ inflight' = c /\ viewer' = [viewer EXCEPT ![v] = c]
        /\ answer' = [answer EXCEPT ![v] = "none"] /\ calls[c].step = "free"
        /\ calls' = [calls EXCEPT ![c] = [Idle EXCEPT !.step = "generation", !.waiters = {v}]]
    BY <1>4 DEF StartCollection
  <2>2. calls'[c] = [Idle EXCEPT !.step = "generation", !.waiters = {v}]
        /\ \A d \in Call : d # c => calls'[d] = calls[d]
    BY <2>1, CallChanged
  <2>3. calls[c].waiters = {}
    BY <2>1 DEF ViewInv
  <2>4. /\ calls'[c].waiters = calls[c].waiters \cup {v} /\ ~calls'[c].cancelled
        /\ calls'[c].step \notin {"free", "done"} /\ calls'[c].outcome # "cancelled"
    BY <2>2, <2>3 DEF Idle
  <2> QED  BY <1>2, <2>1, <2>2, <2>4
<1>5. CASE Abandon(v) \/ Answer(v)
  <2>1. PICK c \in Call : c = viewer[v]
    BY <1>1, <1>5 DEF Abandon, Answer
  <2>2. /\ calls' = [calls EXCEPT ![c] = Released(c, v)] /\ viewer' = [viewer EXCEPT ![v] = NoCall]
        /\ inflight' = inflight \/ inflight' = NoCall
    BY <1>5, <2>1 DEF Abandon, Answer
  <2>3. v \in calls[c].waiters /\ calls[c].step # "free" /\ ~calls[c].cancelled
    BY <1>1, <2>1 DEF ViewInv
  <2>4. calls'[c] = Released(c, v) /\ \A d \in Call : d # c => calls'[d] = calls[d]
    BY <2>2, CallChanged
  <2>5. /\ calls'[c].waiters = calls[c].waiters \ {v}
        /\ calls'[c].cancelled => calls'[c].waiters = {}
        /\ calls'[c].step = "free" => calls'[c].waiters = {}
        /\ calls'[c].outcome # "cancelled"
    <3>1. calls[c].outcome # "cancelled"
      BY <2>3 DEF ViewInv
    <3> QED  BY <2>3, <2>4, <3>1, ReleasedCall DEF Idle
  <2>6. inflight' = c => ~calls'[c].cancelled /\ calls'[c].step \notin {"free", "done"}
    <3> SUFFICES ASSUME inflight' = c
                 PROVE  ~calls'[c].cancelled /\ calls'[c].step \notin {"free", "done"}
      OBVIOUS
    <3>1. inflight = c
      BY <1>1, <2>2
    <3>2. calls[c].step \notin {"free", "done"}
      BY <1>1, <3>1 DEF ViewInv
    <3>3. calls[c].waiters # {v}
      BY <1>1, <1>5, <2>1, <3>1, <3>2 DEF Abandon, Answer
    <3> QED  BY <2>3, <2>4, <3>2, <3>3, ReleasedCall
  <2>7. viewer'[v] = NoCall /\ \A w \in Viewer : w # v => viewer'[w] = viewer[w]
    BY <1>1, <2>2
  <2>8. \A w \in Viewer : answer'[w] # "cancelled"
    <3>1. answer' = [answer EXCEPT ![v] = "none"] \/ answer' = [answer EXCEPT ![v] = calls[c].outcome]
      BY <1>5, <2>1 DEF Abandon, Answer
    <3>2. calls[c].outcome # "cancelled"
      BY <2>3 DEF ViewInv
    <3> QED  BY <1>1, <3>1, <3>2 DEF ViewInv
  <2>9. \A w \in Viewer : viewer'[w] # NoCall => w \in calls'[viewer'[w]].waiters
    <3> SUFFICES ASSUME NEW w \in Viewer, viewer'[w] # NoCall PROVE w \in calls'[viewer'[w]].waiters
      OBVIOUS
    <3>1. w # v /\ viewer'[w] = viewer[w]
      BY <2>7
    <3>2. viewer[w] \in Call /\ w \in calls[viewer[w]].waiters
      BY <1>1, <3>1 DEF ViewInv
    <3> QED  BY <2>4, <2>5, <3>1, <3>2
  <2>10. \A d \in Call : \A w \in calls'[d].waiters : viewer'[w] = d
    <3> SUFFICES ASSUME NEW d \in Call, NEW w \in calls'[d].waiters PROVE viewer'[w] = d
      OBVIOUS
    <3>1. w \in calls[d].waiters
      BY <2>4, <2>5
    <3>2. viewer[w] = d /\ w \in Viewer
      BY <3>1, CallTyped DEF ViewInv, CallVariables
    <3>3. w # v
      BY <2>1, <2>5, <3>2
    <3> QED  BY <2>7, <3>2, <3>3
  <2>11. \A d \in Call : /\ calls'[d].cancelled => calls'[d].waiters = {} /\ inflight' # d
                         /\ calls'[d].step = "free" => calls'[d].waiters = {}
                         /\ calls'[d].outcome = "cancelled" => calls'[d].cancelled
    <3> SUFFICES ASSUME NEW d \in Call, d # c
                 PROVE  /\ calls'[d].cancelled => calls'[d].waiters = {} /\ inflight' # d
                        /\ calls'[d].step = "free" => calls'[d].waiters = {}
                        /\ calls'[d].outcome = "cancelled" => calls'[d].cancelled
      BY <2>5, <2>6
    <3> QED  BY <1>1, <2>2, <2>4 DEF ViewInv
  <2>12. inflight' # NoCall => calls'[inflight'].step \notin {"free", "done"}
    <3>1. inflight' # NoCall /\ inflight' # c => calls'[inflight'].step \notin {"free", "done"}
      BY <1>1, <2>2, <2>4 DEF ViewInv
    <3> QED  BY <2>6, <3>1
  <2> QED  BY <2>8, <2>9, <2>10, <2>11, <2>12 DEF ViewInv
<1> QED  BY <1>3, <1>4, <1>5

LEMMA ViewNext == TypeInv /\ ViewInv /\ [Next]_vars => ViewInv'
<1> SUFFICES ASSUME TypeInv, ViewInv, [Next]_vars PROVE ViewInv'
  OBVIOUS
<1>1. CASE UNCHANGED coordinator
  BY <1>1 DEF ViewInv, coordinator
<1>2. CASE Seen
  BY <1>2, TypeParts, SeenSteps, ViewViewer, ViewCollection
<1>3. CASE WindowStep
  <2>1. UNCHANGED coordinator
    BY <1>3 DEF WindowStep, CompleteOnboarding, SaveBegins, SaveEnds, WindowPauses, ResetBegins,
       SaveSettings, InvalidatePreview, PreviewUnchanged
  <2> QED  BY <1>1, <2>1
<1>4. CASE UNCHANGED vars
  BY <1>1, <1>4 DEF vars
<1> QED  BY <1>1, <1>2, <1>3, <1>4, SteppingOut, ResetStepFrame, HoldsFrame, LoopFrame

(***************************************************************************)
(* Nobody waits for, joins or is answered by a collection that somebody    *)
(* else's lost interest has cancelled, for any number of viewers and of    *)
(* collections (preview_coordinator.go release).                           *)
(***************************************************************************)
THEOREM NobodyIsCancelled == Spec => []NobodyWaitsForCancelled
<1>1. TypeInv /\ ViewInv => NobodyWaitsForCancelled
  <2> SUFFICES ASSUME TypeInv, ViewInv PROVE NobodyWaitsForCancelled
    OBVIOUS
  <2>1. viewer \in [Viewer -> Call \cup {NoCall}] /\ inflight \in Call \cup {NoCall}
    BY TypeParts DEF PreviewTypeOK
  <2> QED  BY <2>1 DEF ViewInv, NobodyWaitsForCancelled
<1>2. Init => TypeInv /\ ViewInv
  BY TypeInit, ViewInit
<1>3. TypeInv /\ ViewInv /\ [Next]_vars => (TypeInv /\ ViewInv)'
  BY TypeNext, ViewNext
<1> QED  BY <1>1, <1>2, <1>3, PTL DEF Spec

-----------------------------------------------------------------------------
(***************************************************************************)
(* The dates of the previews.                                              *)
(***************************************************************************)
LEMMA StaleInit == Init => StaleInv
<1> SUFFICES ASSUME Init PROVE StaleInv
  OBVIOUS
<1>1. /\ settings = 1 /\ newest = 1 /\ files = [t \in Target |-> "home"]
      /\ reset.step = "none" /\ previewHeld = FALSE /\ preview = NoPreview
      /\ \A c \in Call : calls[c].step = "free"
  BY DEF Init, PreviewInit, NoReset, Idle
<1>2. files["config"] = "home"
  BY <1>1 DEF Target
<1> QED  BY <1>1, <1>2 DEF StaleInv, SettingsIn, Dated, StalePreviewNeverSaved

(* No collection is given a date, no file, setting or preview changes.     *)
Undated == \A c \in Call : calls'[c].step \in Dated =>
             /\ calls'[c].step = calls[c].step
             /\ calls'[c].generation = calls[c].generation
             /\ calls'[c].settings = calls[c].settings

LEMMA StaleKept ==
  ASSUME StaleInv, Undated, UNCHANGED <<summaries, files, newest>>,
         reported' = {} => reported = {},
         reset'.step = "stage" <=> reset.step = "stage",
         window = "saved" <=> window' = "saved"
  PROVE  StaleInv'
<1>1. \A c \in Call : calls'[c].step \in {"collect", "commit"} => calls'[c].step \in Dated
  BY DEF Dated
<1>2. SettingsIn(files)' = SettingsIn(files)
  BY DEF SettingsIn
<1> QED  BY <1>1, <1>2 DEF StaleInv, StalePreviewNeverSaved, summaries, Undated

LEMMA UndatedViewer ==
  ASSUME PreviewTypeOK, ViewInv, NEW v \in Viewer,
         \/ Join(v) \/ Abandon(v) \/ Answer(v)
         \/ \E c \in Call : StartCollection(v, c)
  PROVE  Undated /\ UNCHANGED summaries
<1>1. /\ viewer \in [Viewer -> Call \cup {NoCall}] /\ inflight \in Call \cup {NoCall}
      /\ NoCall \notin Call
  BY PreviewAssumption DEF PreviewTypeOK
<1>2. UNCHANGED summaries
  BY DEF Join, Abandon, Answer, StartCollection
<1>3. ASSUME NEW c \in Call, NEW call, calls' = [calls EXCEPT ![c] = call],
             \/ call.step \notin Dated
             \/ /\ call.step = calls[c].step /\ call.generation = calls[c].generation
                /\ call.settings = calls[c].settings
      PROVE  Undated
  BY <1>3, CallChanged DEF Undated
<1>4. CASE Join(v)
  <2>1. inflight \in Call /\ calls[inflight] \in CallVariables
    BY <1>1, <1>4, CallTyped DEF Join
  <2>2. calls' = [calls EXCEPT ![inflight] = [calls[inflight] EXCEPT !.waiters = @ \cup {v}]]
    BY <1>4, <2>1 DEF Join, PreviewTypeOK
  <2> QED  BY <1>2, <1>3, <2>1, <2>2 DEF CallVariables
<1>5. ASSUME NEW c \in Call, StartCollection(v, c) PROVE Undated
  <2>1. calls' = [calls EXCEPT ![c] = [Idle EXCEPT !.step = "generation", !.waiters = {v}]]
    BY <1>5 DEF StartCollection
  <2>2. [Idle EXCEPT !.step = "generation", !.waiters = {v}].step \notin Dated
    BY DEF Idle, Dated
  <2> QED  BY <1>3, <2>1, <2>2
<1>6. CASE Abandon(v) \/ Answer(v)
  <2>1. PICK c \in Call : c = viewer[v] /\ calls' = [calls EXCEPT ![c] = Released(c, v)]
    BY <1>1, <1>6 DEF Abandon, Answer
  <2>2. v \in calls[c].waiters /\ calls[c].step # "free"
    BY <1>1, <2>1 DEF ViewInv
  <2>3. \/ Released(c, v).step \notin Dated
        \/ /\ Released(c, v).step = calls[c].step
           /\ Released(c, v).generation = calls[c].generation
           /\ Released(c, v).settings = calls[c].settings
    BY <2>2, ReleasedCall DEF Idle, Dated
  <2> QED  BY <1>2, <1>3, <2>1, <2>3
<1> QED  BY <1>2, <1>4, <1>5, <1>6

(* The steps of a collection, with the date it reads and what it saves.    *)
LEMMA StaleCollection ==
  ASSUME TypeInv, LockInv, SetupInv, StaleInv, NEW c \in Call, CollectionStep(c),
         UNCHANGED <<files, newest, reported, reset, window>>
  PROVE  StaleInv'
<1>1. PreviewTypeOK /\ calls[c] \in CallVariables
  BY TypeParts, CallTyped
<1>2. UNCHANGED <<generation, previewHeld, settings>> /\ generation \in Nat
  BY <1>1 DEF CollectionStep, ReadGeneration, LoadSettings, Collect, Commit, Complete, summaries,
     PreviewTypeOK
<1>3. SettingsIn(files)' = SettingsIn(files)
  BY DEF SettingsIn
<1>4. CASE ReadGeneration(c)
  <2>1. calls' = [calls EXCEPT ![c] = [calls[c] EXCEPT !.step = "settings", !.generation = generation]]
    BY <1>1, <1>4 DEF ReadGeneration, PreviewTypeOK
  <2>2. /\ calls'[c].step = "settings" /\ calls'[c].generation = generation
        /\ \A d \in Call : d # c => calls'[d] = calls[d]
    <3>1. /\ calls'[c] = [calls[c] EXCEPT !.step = "settings", !.generation = generation]
          /\ \A d \in Call : d # c => calls'[d] = calls[d]
      BY <1>1, <2>1, CallChanged
    <3> QED  BY <1>1, <3>1 DEF CallVariables
  <2>3. ~previewHeld /\ UNCHANGED preview
    BY <1>4 DEF ReadGeneration, summaries
  <2>4. \A d \in Call : calls'[d].step \in Dated =>
          calls'[d].generation <= generation /\ (previewHeld => calls'[d].generation # generation)
    BY <1>2, <2>2, <2>3 DEF StaleInv
  <2>5. \A d \in Call : calls'[d].step \in {"collect", "commit"} => calls'[d] = calls[d]
    BY <2>2
  <2> QED  BY <1>2, <1>3, <2>3, <2>4, <2>5 DEF StaleInv, StalePreviewNeverSaved
<1>5. ASSUME NEW o, GiveUp(c, o) PROVE Undated
  <2>1. calls' = [calls EXCEPT ![c] = [calls[c] EXCEPT !.step = "complete", !.outcome = o]]
    BY <1>1, <1>5 DEF GiveUp, PreviewTypeOK
  <2>2. calls'[c].step = "complete" /\ \A d \in Call : d # c => calls'[d] = calls[d]
    <3>1. /\ calls'[c] = [calls[c] EXCEPT !.step = "complete", !.outcome = o]
          /\ \A d \in Call : d # c => calls'[d] = calls[d]
      BY <1>1, <2>1, CallChanged
    <3> QED  BY <1>1, <3>1 DEF CallVariables
  <2> QED  BY <2>2 DEF Undated, Dated
<1>6. CASE Undated /\ UNCHANGED preview
  BY <1>2, <1>6, StaleKept DEF summaries
<1>7. CASE LoadSettings(c)
  <2>1. UNCHANGED preview
    BY <1>7 DEF LoadSettings, summaries
  <2>2. CASE settings = NoSettings
    BY <1>5, <1>6, <1>7, <2>1, <2>2 DEF LoadSettings
  <2>3. CASE settings # NoSettings
    <3>1. calls' = [calls EXCEPT ![c] = [calls[c] EXCEPT !.step = "collect", !.settings = settings]]
      BY <1>1, <1>7, <2>3 DEF LoadSettings, PreviewTypeOK
    <3>2. /\ calls'[c].step = "collect" /\ calls'[c].generation = calls[c].generation
          /\ calls'[c].settings = settings
          /\ \A d \in Call : d # c => calls'[d] = calls[d]
      <4>1. /\ calls'[c] = [calls[c] EXCEPT !.step = "collect", !.settings = settings]
            /\ \A d \in Call : d # c => calls'[d] = calls[d]
        BY <1>1, <3>1, CallChanged
      <4> QED  BY <1>1, <4>1 DEF CallVariables
    <3>3. settings = newest /\ files["config"] = "home"
      BY <2>3 DEF StaleInv, SettingsIn
    <3>4. calls[c].step \in Dated
      BY <1>7 DEF LoadSettings, Dated
    <3>5. \A d \in Call : calls'[d].step \in Dated =>
            calls[d].step \in Dated /\ calls'[d].generation = calls[d].generation
      BY <3>2, <3>4
    <3>6. \A d \in Call : d # c /\ calls'[d].step \in {"collect", "commit"} => calls'[d] = calls[d]
      BY <3>2
    <3> QED  BY <1>2, <1>3, <2>1, <3>2, <3>3, <3>5, <3>6 DEF StaleInv, StalePreviewNeverSaved
  <2> QED  BY <2>2, <2>3
<1>8. CASE Collect(c)
  <2>1. UNCHANGED preview /\ calls[c].step = "collect"
    BY <1>8 DEF Collect, summaries
  <2>2. CASE GoOn(c, "commit")
    <3>1. calls' = [calls EXCEPT ![c] = [calls[c] EXCEPT !.step = "commit"]]
      BY <1>1, <2>2 DEF GoOn, PreviewTypeOK
    <3>2. /\ calls'[c].step = "commit" /\ calls'[c].generation = calls[c].generation
          /\ calls'[c].settings = calls[c].settings
          /\ \A d \in Call : d # c => calls'[d] = calls[d]
      <4>1. /\ calls'[c] = [calls[c] EXCEPT !.step = "commit"]
            /\ \A d \in Call : d # c => calls'[d] = calls[d]
        BY <1>1, <3>1, CallChanged
      <4> QED  BY <1>1, <4>1 DEF CallVariables
    <3>3. \A d \in Call :
            /\ calls'[d].step \in Dated => calls[d].step \in Dated
            /\ calls'[d].step \in {"collect", "commit"} => calls[d].step \in {"collect", "commit"}
            /\ calls'[d].generation = calls[d].generation /\ calls'[d].settings = calls[d].settings
      BY <2>1, <3>2 DEF Dated
    <3> QED  BY <1>2, <1>3, <2>1, <3>3 DEF StaleInv, StalePreviewNeverSaved
  <2> QED  BY <1>5, <1>6, <1>8, <2>1, <2>2 DEF Collect
<1>9. CASE Commit(c)
  <2>1. CASE calls[c].generation # generation
    BY <1>5, <1>6, <1>9, <2>1 DEF Commit
  <2>2. CASE calls[c].generation = generation
    <3>1. preview' = calls[c].settings /\ GiveUp(c, "shown") /\ calls[c].step = "commit"
      BY <1>9, <2>2 DEF Commit
    <3>2. Undated
      BY <1>5, <3>1
    <3>3. reported = {} /\ window # "saved" => preview' = newest /\ files["config"] = "home"
      BY <2>2, <3>1 DEF StaleInv
    <3>4. window = "saved" => files["config"] = "home"
      BY DEF LockInv, SetupInv
    <3>5. \A d \in Call : calls'[d].step \in {"collect", "commit"} => calls'[d].step \in Dated
      BY DEF Dated
    <3> QED  BY <1>2, <1>3, <3>2, <3>3, <3>4, <3>5 DEF StaleInv, StalePreviewNeverSaved, Undated
  <2> QED  BY <2>1, <2>2
<1>10. CASE Complete(c)
  <2>1. /\ calls'[c] = IF calls[c].waiters = {} THEN Idle ELSE [calls[c] EXCEPT !.step = "done"]
        /\ \A d \in Call : d # c => calls'[d] = calls[d]
    BY <1>1, <1>10, CallChanged DEF Complete
  <2>2. calls'[c].step \notin Dated
    BY <1>1, <2>1 DEF Idle, CallVariables, Dated
  <2> QED  BY <1>6, <1>10, <2>1, <2>2 DEF Undated, Complete, summaries
<1> QED  BY <1>4, <1>7, <1>8, <1>9, <1>10 DEF CollectionStep

(* A new generation: what was collected before is older.                   *)
LEMMA Outdated ==
  ASSUME TypeInv, StaleInv, generation' = generation + 1, UNCHANGED calls
  PROVE  \A c \in Call : calls'[c].step \in Dated =>
           calls'[c].generation <= generation' /\ calls'[c].generation # generation'
<1> SUFFICES ASSUME NEW c \in Call, calls[c].step \in Dated
             PROVE  calls[c].generation <= generation + 1 /\ calls[c].generation # generation + 1
  OBVIOUS
<1>1. calls[c].generation \in Nat /\ generation \in Nat /\ calls[c].generation <= generation
  BY TypeParts, CallTyped DEF CallVariables, PreviewTypeOK, StaleInv
<1> QED  BY <1>1

LEMMA StaleWindow ==
  ASSUME TypeInv, LockInv, SetupInv, StaleInv, WindowStep
  PROVE  StaleInv'
<1> USE DEF service, scheduler, setup, calling, wishes
<1>1. Dated = {"settings"} \cup {"collect", "commit"}
  BY DEF Dated
<1>2. newest \in Nat /\ files \in [Target -> Place]
  BY TypeParts DEF ServiceType
<1>3. CASE CompleteOnboarding
  <2>1. /\ operations = "free" /\ daemon = NoDaemon /\ newest' = newest + 1
        /\ files' = [t \in Target |-> IF t = "rest" THEN files[t] ELSE "home"]
        /\ settings' = newest + 1 /\ UNCHANGED <<coordinator, generation, previewHeld, preview>>
        /\ UNCHANGED <<reset, window, reported>>
    BY <1>3 DEF CompleteOnboarding, SaveSettings
  <2>2. reset.step = "none" /\ window = "idle"
    BY <2>1, LockFree
  <2>3. files'["config"] = "home"
    BY <2>1 DEF Target
  <2>4. reported = {} => files["config"] = "absent"
    <3>1. reported = {} => files["config"] # "home"
      BY <2>1, <2>2 DEF SetupInv
    <3>2. files["config"] # "staged"
      BY <2>2 DEF SetupInv, Staged, Target
    <3> QED  BY <3>1, <3>2 DEF SetupInv, Present, Gone, Target
  <2>5. reported = {} => preview = NoPreview
        /\ \A c \in Call : ~(calls[c].step \in {"collect", "commit"} /\ calls[c].generation = generation)
    BY <2>2, <2>4 DEF StaleInv
  <2>6. settings' = SettingsIn(files)'
    BY <2>1, <2>3 DEF SettingsIn
  <2> QED  BY <2>1, <2>3, <2>5, <2>6 DEF StaleInv, StalePreviewNeverSaved, coordinator
<1>4. CASE SaveBegins
  <2>1. /\ operations = "free" /\ daemon # NoDaemon /\ newest' = newest + 1 /\ settings' = newest + 1
        /\ window' = "saved" /\ UNCHANGED <<coordinator, generation, previewHeld, preview>>
        /\ UNCHANGED <<reset, reported, files>>
    BY <1>4 DEF SaveBegins, SaveSettings
  <2>2. files["config"] = "home"
    BY <2>1 DEF SetupInv
  <2>3. settings' = SettingsIn(files)'
    BY <2>1, <2>2 DEF SettingsIn
  <2> QED  BY <2>1, <2>2, <2>3 DEF StaleInv, StalePreviewNeverSaved, coordinator
<1>5. CASE SaveEnds
  <2>1. /\ generation' = generation + 1 /\ preview' = NoPreview /\ window' = "idle"
        /\ UNCHANGED <<coordinator, previewHeld, settings, reset, reported, files, newest>>
    BY <1>5 DEF SaveEnds, InvalidatePreview
  <2>2. \A c \in Call : calls'[c].step \in Dated =>
          calls'[c].generation <= generation' /\ calls'[c].generation # generation'
    BY <2>1, Outdated DEF coordinator
  <2>3. SettingsIn(files)' = SettingsIn(files)
    BY <2>1 DEF SettingsIn
  <2> QED  BY <1>1, <2>1, <2>2, <2>3 DEF StaleInv, StalePreviewNeverSaved
<1>6. CASE ResetBegins \/ \E wish \in BOOLEAN : WindowPauses(wish)
  <2>1. /\ UNCHANGED <<coordinator, summaries, files, newest, reported>> /\ operations = "free"
        /\ reset'.step = "stage" <=> reset.step = "stage"
        /\ window' \in {window, "reset"}
    <3>1. CASE ResetBegins
      <4>1. reset.step = "none" /\ reset'.step \in {"validate", "hold"}
        BY <3>1, LockFree DEF ResetBegins
      <4> QED  BY <3>1, <4>1 DEF ResetBegins, PreviewUnchanged
    <3>2. CASE \E wish \in BOOLEAN : WindowPauses(wish)
      BY <3>2 DEF WindowPauses, PreviewUnchanged
    <3> QED  BY <1>6, <3>1, <3>2
  <2>2. window = "idle" /\ Undated
    BY <2>1, LockFree DEF Undated, coordinator
  <2> QED  BY <2>1, <2>2, StaleKept
<1> QED  BY <1>3, <1>4, <1>5, <1>6 DEF WindowStep

LEMMA StaleReset ==
  ASSUME TypeInv, LockInv, SetupInv, StaleInv, ResetStep
  PROVE  StaleInv'
<1> USE DEF service, scheduler, setup, calling, wishes
<1>1. Dated = {"settings"} \cup {"collect", "commit"}
  BY DEF Dated
<1>2. UNCHANGED <<newest, coordinator>> /\ reset \in ResetVariables
  BY ResetStepFrame, TypeParts DEF LocalType
<1>3. window = "reset" /\ window' # "saved"
  <2>1. reset.step # "none"
    BY DEF ResetStep, ResetHolds, ResetRefused, ResetInvalid, ResetCancels, RunHasEnded,
       ResetGivesUp, CloseFails, ClearDaemon, HoldPreview, Stage, StagingFails, StagingFailsTwice, Remove,
       RemoveFails, Restore, RestoreFails, ResetAt
  <2> QED  BY <1>2, <2>1, ResetMoves, ResetIsOver DEF LockInv
<1>4. Undated
  BY <1>2 DEF Undated, coordinator
<1>5. CASE ResetHolds \/ ResetRefused \/ ResetInvalid \/ ResetCancels \/ RunHasEnded
           \/ ResetGivesUp \/ CloseFails \/ ClearDaemon \/ Restore \/ RestoreFails
  <2>1. UNCHANGED <<summaries, files, newest>> /\ (reported' = {} => reported = {})
    BY <1>5 DEF ResetHolds, ResetRefused, ResetInvalid, ResetCancels, RunHasEnded, ResetGivesUp, CloseFails,
       ClearDaemon, Restore, RestoreFails, PreviewUnchanged
  <2>2. reset.step # "stage"
    BY <1>5 DEF ResetHolds, ResetRefused, ResetInvalid, ResetCancels, RunHasEnded, ResetGivesUp, CloseFails,
       ClearDaemon, Restore, RestoreFails, ResetAt
  <2>3. reset'.step # "stage"
    <3>1. CASE ResetRefused \/ ResetInvalid \/ ResetGivesUp \/ CloseFails \/ Restore \/ RestoreFails
      BY <3>1, ResetIsOver DEF ResetRefused, ResetInvalid, ResetGivesUp, CloseFails, Restore, RestoreFails
    <3>2. CASE ResetHolds \/ ResetCancels \/ RunHasEnded \/ ClearDaemon
      <4>1. \E s \in {"validate", "wait", "clear", "invalidate"} : ResetGo(s)
        BY <3>2 DEF ResetHolds, ResetCancels, RunHasEnded, ClearDaemon
      <4> QED  BY <1>2, <4>1, ResetGoes DEF BeforeClear, AfterClear
    <3> QED  BY <1>5, <3>1, <3>2
  <2> QED  BY <1>3, <1>4, <2>1, <2>2, <2>3, StaleKept
<1>6. CASE HoldPreview
  <2>1. /\ generation' = generation + 1 /\ previewHeld' = TRUE /\ reset'.step = "stage"
        /\ UNCHANGED <<settings, preview, files, reported>>
    BY <1>2, <1>6, ResetGoes DEF HoldPreview, AfterClear
  <2>2. \A c \in Call : calls'[c].step \in Dated =>
          calls'[c].generation <= generation' /\ calls'[c].generation # generation'
    BY <1>2, <2>1, Outdated DEF coordinator
  <2>3. SettingsIn(files)' = SettingsIn(files)
    BY <1>2, <2>1 DEF SettingsIn
  <2> QED  BY <1>1, <1>2, <1>3, <2>1, <2>2, <2>3 DEF StaleInv, StalePreviewNeverSaved
(* While files move the preview is held, and no collection has its date.   *)
<1>7. ASSUME MovesFiles PROVE StaleInv'
  <2>1. /\ reset.step = "stage" /\ UNCHANGED generation
        /\ files \in [Target -> Place]
    BY <1>7, MovesFrame, SetupMoving DEF ResetAt
  <2>2. previewHeld
    BY <2>1 DEF StaleInv
  <2>3. \A c \in Call : calls'[c].step \in Dated =>
          calls'[c].generation <= generation' /\ calls'[c].generation # generation'
    BY <1>2, <2>1, <2>2 DEF StaleInv, coordinator
  <2>4. reported = {} => (preview # NoPreview => preview = newest)
                         /\ (files["config"] = "absent" => preview = NoPreview)
    BY <1>3 DEF StaleInv, StalePreviewNeverSaved
  <2>5. /\ settings' = SettingsIn(files)'
        /\ previewHeld' <=> reset'.step = "stage"
        /\ reported' = {} => reported = {}
        /\ \/ /\ UNCHANGED preview
              /\ reported' = {} /\ files'["config"] = "absent" => files["config"] = "absent"
           \/ preview' = NoPreview
    <3>1. CASE Stage
      <4>1. files' = [files EXCEPT ![Earliest(AtHome)] = "staged"] /\ settings' = SettingsIn(files')
            /\ UNCHANGED <<previewHeld, preview, reported, reset>>
        BY <3>1 DEF Stage
      <4>2. files'["config"] \in {files["config"], "staged"}
        BY <2>1, <4>1 DEF Target
      <4>3. settings' = SettingsIn(files)'
        BY <1>2, <4>1 DEF SettingsIn
      <4> QED  BY <2>1, <2>2, <4>1, <4>2, <4>3
    <3>2. CASE StagingFails \/ StagingFailsTwice
      <4>1. PICK stuck \in SUBSET Staged : RollBack(Staged, stuck)
        BY <3>2, RollBackCases
      <4>2. files'["config"] = IF "config" \in stuck THEN "left"
                               ELSE IF "config" \in Staged THEN "home" ELSE files["config"]
        BY <4>1 DEF RollBack, Target
      <4>3. settings' = SettingsIn(files)'
        BY <1>2, <4>1 DEF RollBack, SettingsIn
      <4>4. previewHeld' = FALSE /\ UNCHANGED preview /\ reported' = reported \cup stuck
        BY <4>1 DEF RollBack
      <4>5. reset'.step # "stage"
        <5>1. ResetGo("restore") \/ ResetReturns("failed") \/ ResetReturns("incomplete")
          BY <4>1 DEF RollBack
        <5>2. CASE ResetGo("restore")
          BY <1>2, <5>2, ResetGoes DEF AfterClear
        <5>3. CASE ResetReturns("failed") \/ ResetReturns("incomplete")
          BY <5>3, ResetIsOver
        <5> QED  BY <5>1, <5>2, <5>3
      <4> QED  BY <4>2, <4>3, <4>4, <4>5
    <3>3. CASE Remove \/ RemoveFails
      <4>1. previewHeld' = FALSE /\ preview' = NoPreview /\ UNCHANGED settings /\ reset'.step = "none"
        BY <3>3, ResetIsOver DEF Remove, RemoveFails
      <4>2. reported' = {} => reported = {}
        BY <3>3 DEF Remove, RemoveFails
      <4>3. files["config"] # "home"
        BY <3>3 DEF Remove, RemoveFails, AtHome, Target
      <4>4. files'["config"] # "home"
        BY <3>3, <4>3 DEF Remove, RemoveFails, Removed, Target
      <4>5. settings' = SettingsIn(files)'
        BY <4>1, <4>3, <4>4 DEF StaleInv, SettingsIn
      <4> QED  BY <4>1, <4>2, <4>5
    <3> QED  BY <1>7, <3>1, <3>2, <3>3 DEF MovesFiles
  <2>6. ASSUME reported' = {}
        PROVE  /\ preview' # NoPreview => preview' = newest
               /\ files'["config"] = "absent" => preview' = NoPreview
    <3>1. /\ preview # NoPreview => preview = newest
          /\ files["config"] = "absent" => preview = NoPreview
      BY <2>4, <2>5, <2>6
    <3>2. CASE UNCHANGED preview /\ (files'["config"] = "absent" => files["config"] = "absent")
      BY <3>1, <3>2
    <3>3. CASE preview' = NoPreview
      BY <3>3
    <3> QED  BY <2>5, <2>6, <3>2, <3>3
  <2> QED  BY <1>1, <1>2, <2>3, <2>5, <2>6 DEF StaleInv, StalePreviewNeverSaved
<1> QED  BY <1>5, <1>6, <1>7 DEF ResetStep, MovesFiles

LEMMA StaleNext ==
  TypeInv /\ LockInv /\ SetupInv /\ ViewInv /\ StaleInv /\ [Next]_vars => StaleInv'
<1> SUFFICES ASSUME TypeInv, LockInv, SetupInv, ViewInv, StaleInv, [Next]_vars PROVE StaleInv'
  OBVIOUS
<1>1. ASSUME UNCHANGED <<coordinator, summaries, files, newest, reported, reset, window>>
      PROVE  StaleInv'
  <2>1. Undated
    BY <1>1 DEF Undated, coordinator
  <2> QED  BY <1>1, <2>1, StaleKept
<1>2. CASE Seen
  <2>1. UNCHANGED <<files, newest, reported, reset, window>>
    BY <1>2, SeenFrame DEF setup, calling, wishes
  <2>2. ASSUME NEW v \in Viewer,
               \/ Join(v) \/ Abandon(v) \/ Answer(v)
               \/ \E c \in Call : StartCollection(v, c)
        PROVE  StaleInv'
    <3>1. Undated /\ UNCHANGED summaries
      BY <2>2, TypeParts, UndatedViewer
    <3> QED  BY <2>1, <3>1, StaleKept
  <2> QED  BY <1>2, <2>1, <2>2, SeenSteps, StaleCollection
<1>3. CASE UNCHANGED vars
  BY <1>1, <1>3 DEF vars, setup, calling, wishes
<1> QED  BY <1>1, <1>2, <1>3, StaleWindow, StaleReset, SteppingOut, HoldsFrame, LoopFrame

(***************************************************************************)
(* A preview collected for settings that were replaced or removed is never *)
(* saved over the invalidation, whenever the collection read its           *)
(* generation and its settings, whatever a reset moves and rolls back      *)
(* meanwhile (resources.go refreshPreview, service.go invalidatePreview).  *)
(***************************************************************************)
THEOREM PreviewsAreNew == Spec => []StalePreviewNeverSaved
<1>1. StaleInv => StalePreviewNeverSaved
  BY DEF StaleInv
<1>2. Init => TypeInv /\ LockInv /\ SetupInv /\ ViewInv /\ StaleInv
  BY TypeInit, LockInit, SetupInit, ViewInit, StaleInit
<1>3. TypeInv /\ LockInv /\ SetupInv /\ ViewInv /\ StaleInv /\ [Next]_vars
        => (TypeInv /\ LockInv /\ SetupInv /\ ViewInv /\ StaleInv)'
  BY TypeNext, LockNext, SetupNext, ViewNext, StaleNext
<1> QED  BY <1>1, <1>2, <1>3, PTL DEF Spec
=============================================================================
