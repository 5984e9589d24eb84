---------------------------- MODULE ControlSync ----------------------------
(***************************************************************************)
(* The control thread (control_loop in main.c) and the control file        *)
(* (control-file.c): the settings of camera and display are loaded from a  *)
(* JSON document, kept in step with the edits a web page makes to it, and  *)
(* written back when they have changed and twenty rounds have passed.      *)
(*                                                                         *)
(* The page (external) truncates the file, writes one line and closes it,  *)
(* at any time.  json_tokener_parse ignores what follows the first value,  *)
(* so of two writers the last one's document is read.  A missing file      *)
(* behaves as an empty one; the file can be written.                       *)
(***************************************************************************)
EXTENDS Integers

CONSTANTS
    Legal, Illegal, \* camera values it accepts, and others an edit may contain
    Display,        \* values of the display parameters
    Debounce,       \* rounds with changes before a write (20 in the code)
    MaxEdits,       \* bound: edits of the page
    MaxMessages,    \* bound: CEC messages
    MaxSessions     \* bound: sessions

ASSUME ControlSyncAssumption ==
    /\ Legal # {} /\ Legal \cap Illegal = {} /\ Display # {}
    /\ Debounce \in Nat /\ MaxEdits \in Nat /\ MaxMessages \in Nat
    /\ MaxSessions \in Nat

(* What the file may hold.  Broken stands for a text that does not parse, which
   only a reader racing the page sees. *)
Document == [camera : Legal \cup Illegal, display : Display]
Empty == [camera |-> "empty"]
Broken == [camera |-> "broken"]

VARIABLES
    control_loop_run,
    control_pc,       \* where the control thread is, and in which part:
    stage,            \* "start", "loop" or "end" of control_loop
    has_changes,
    loop_count,
    seen,             \* the file as it was when its size was taken
    settings,         \* the controls of camera and display
    file,
    watch,            \* is CTRL_FILE watched?
    event,            \* is an inotify event pending?
    editor,           \* is the page between open and close?
    unread,           \* the edit in the file that was not loaded, if any: "loop" if
                      \* it ended while the control loop ran, otherwise "early"
    edits, messages, sessions,   \* how many so far
    exited            \* the process died

threadVars == <<control_pc, stage, has_changes, loop_count, seen>>
fileVars == <<file, watch, event, unread>>
countVars == <<edits, messages, sessions>>
vars == <<control_loop_run, threadVars, settings, fileVars, editor, countVars, exited>>

-----------------------------------------------------------------------------
(* load_file_controls. *)

(* A file of no bytes is not read. *)
Loaded(changed) ==
    /\ has_changes' = (changed \/ (stage = "loop" /\ has_changes))
    /\ control_pc' = IF stage = "start" THEN "write" ELSE "cec"

LoadOpen ==
    /\ control_pc = "load"
    /\ \/ file = Empty /\ Loaded(FALSE) /\ UNCHANGED seen
       \/ file # Empty /\ seen' = file /\ control_pc' = "read" /\ UNCHANGED has_changes
    /\ UNCHANGED <<control_loop_run, stage, loop_count, settings, fileVars, editor,
                   countVars, exited>>

(* Fault form: every load counts as a change. *)
Changed_Always(document) == TRUE

(* set_control and set_drm_fcc and its siblings report a change when a value
   differs, whether or not the camera accepts it. *)
Changed(document) == document # settings

(* The camera refuses an illegal value or makes it a legal one. *)
Accepted(document) ==
    IF document.camera \in Legal THEN {document}
    ELSE {[document EXCEPT !.camera = c] : c \in Legal \cup {settings.camera}}

(* The text fgets returns: the size was taken earlier. *)
Text == IF file = seen THEN {file} ELSE {file, Broken}

(* Fault form: events that came while the file was read are dropped. *)
LoadRead_ThenDrain ==
    /\ control_pc = "read"
    /\ \E text \in Text :
          \/ /\ text \in Document
             /\ Loaded(Changed(text))
             /\ settings' \in Accepted(text)
             /\ unread' = "none"
          \/ /\ text \in {Empty, Broken}
             /\ Loaded(FALSE)
             /\ UNCHANGED <<settings, unread>>
    /\ event' = FALSE
    /\ UNCHANGED <<control_loop_run, stage, loop_count, seen, file, watch, editor,
                   countVars, exited>>

LoadRead ==
    /\ control_pc = "read"
    /\ \E text \in Text :
          \/ /\ text \in Document
             /\ Loaded(Changed(text))
             /\ settings' \in Accepted(text)
             /\ unread' = "none"
          \/ /\ text \in {Empty, Broken}
             /\ Loaded(FALSE)
             /\ UNCHANGED <<settings, unread>>
    /\ UNCHANGED <<control_loop_run, stage, loop_count, seen, file, watch, event,
                   editor, countVars, exited>>

(* When the text does not parse the file is closed a second time, which may end
   the process. *)
DoubleClose ==
    /\ control_pc = "read"
    /\ Broken \in Text
    /\ exited' = TRUE
    /\ UNCHANGED <<control_loop_run, threadVars, settings, fileVars, editor, countVars>>

-----------------------------------------------------------------------------
(* write_file_controls: the document is built, the file truncated, written and
   closed, which is an event for a watching program too. *)

WriteOpen ==
    /\ control_pc = "write"
    /\ file' = Empty
    /\ unread' = "none"
    /\ control_pc' = "close"
    /\ UNCHANGED <<control_loop_run, stage, has_changes, loop_count, seen, settings,
                   watch, event, editor, countVars, exited>>

(* Fault form: the round counter is not set back. *)
WriteClose_KeepsCount ==
    /\ control_pc = "close"
    /\ file' = settings
    /\ unread' = "none"
    /\ event' = watch
    /\ has_changes' = (has_changes /\ stage # "loop")
    /\ control_pc' = CASE stage = "start" -> "watch" [] stage = "loop" -> "loop"
                       [] stage = "end" -> "stop"
    /\ UNCHANGED <<control_loop_run, stage, loop_count, seen, settings, watch, editor,
                   countVars, exited>>

WriteClose ==
    /\ control_pc = "close"
    /\ file' = settings
    /\ unread' = "none"
    /\ event' = watch
    /\ has_changes' = (has_changes /\ stage # "loop")
    /\ loop_count' = IF stage = "loop" THEN 0 ELSE loop_count
    /\ control_pc' = CASE stage = "start" -> "watch" [] stage = "loop" -> "loop"
                       [] stage = "end" -> "stop"
    /\ UNCHANGED <<control_loop_run, stage, seen, settings, watch, editor, countVars,
                   exited>>

-----------------------------------------------------------------------------
(* The rest of control_loop. *)

StartInotify ==
    /\ control_pc = "watch"
    /\ watch' = TRUE
    /\ control_pc' = "drain"
    /\ UNCHANGED <<control_loop_run, stage, has_changes, loop_count, seen, settings,
                   file, event, unread, editor, countVars, exited>>

(* The first inotify_poll, whose result is not used. *)
DrainInotify ==
    /\ control_pc = "drain"
    /\ event' = FALSE
    /\ control_pc' = "loop"
    /\ stage' = "loop"
    /\ UNCHANGED <<control_loop_run, has_changes, loop_count, seen, settings, file,
                   watch, unread, editor, countVars, exited>>

(* Fault form: what changed last is not saved. *)
ControlLoop_NoLastWrite ==
    /\ control_pc = "loop"
    /\ \/ control_loop_run /\ control_pc' = "poll" /\ UNCHANGED stage
       \/ ~control_loop_run /\ control_pc' = "stop" /\ stage' = "end"
    /\ UNCHANGED <<control_loop_run, has_changes, loop_count, seen, settings, fileVars,
                   editor, countVars, exited>>

ControlLoop ==
    /\ control_pc = "loop"
    /\ \/ control_loop_run /\ control_pc' = "poll" /\ UNCHANGED stage
       \/ /\ ~control_loop_run
          /\ stage' = "end"
          /\ control_pc' = IF has_changes THEN "write" ELSE "stop"
    /\ UNCHANGED <<control_loop_run, has_changes, loop_count, seen, settings, fileVars,
                   editor, countVars, exited>>

(* inotify_poll takes all pending events before the file is read. *)
InotifyPoll ==
    /\ control_pc = "poll"
    /\ event' = FALSE
    /\ control_pc' = IF event THEN "load" ELSE "cec"
    /\ UNCHANGED <<control_loop_run, stage, has_changes, loop_count, seen, settings,
                   file, watch, unread, editor, countVars, exited>>

(* poll_cec_events reports a change for a message about a control the camera has;
   the camera itself keeps its values (see CecValue).  Then the round is counted. *)
PollCecEvents ==
    /\ control_pc = "cec"
    /\ \/ UNCHANGED <<has_changes, messages>>
       \/ /\ messages < MaxMessages
          /\ messages' = messages + 1
          /\ has_changes' = TRUE
    /\ loop_count' = IF has_changes' THEN loop_count + 1 ELSE loop_count
    /\ control_pc' = IF has_changes' /\ loop_count' > Debounce THEN "write" ELSE "loop"
    /\ UNCHANGED <<control_loop_run, stage, seen, settings, fileVars, editor, edits,
                   sessions, exited>>

StopInotify ==
    /\ control_pc = "stop"
    /\ watch' = FALSE
    /\ event' = FALSE
    /\ control_pc' = "off"
    /\ UNCHANGED <<control_loop_run, stage, has_changes, loop_count, seen, settings,
                   file, unread, editor, countVars, exited>>

-----------------------------------------------------------------------------
(* main: a session begins with a camera of any legal setting; the display keeps
   its parameters.  Another thread ends it. *)

StartSession ==
    /\ control_pc = "off"
    /\ sessions < MaxSessions
    /\ sessions' = sessions + 1
    /\ \E c \in Legal : settings' = [settings EXCEPT !.camera = c]
    /\ control_loop_run' = TRUE
    /\ control_pc' = "load"
    /\ stage' = "start"
    /\ has_changes' = FALSE
    /\ loop_count' = 0
    /\ UNCHANGED <<seen, fileVars, editor, edits, messages, exited>>

EndSession ==
    /\ control_pc # "off" /\ control_loop_run
    /\ control_loop_run' = FALSE
    /\ UNCHANGED <<threadVars, settings, fileVars, editor, countVars, exited>>

(* The page. *)
EditOpen ==
    /\ ~editor
    /\ edits < MaxEdits
    /\ edits' = edits + 1
    /\ editor' = TRUE
    /\ file' = Empty
    /\ unread' = "none"
    /\ UNCHANGED <<control_loop_run, threadVars, settings, watch, event, messages,
                   sessions, exited>>

EditClose ==
    /\ editor
    /\ editor' = FALSE
    /\ file' \in Document
    /\ unread' = IF stage = "loop" THEN "loop" ELSE "early"
    /\ event' = watch
    /\ UNCHANGED <<control_loop_run, threadVars, settings, watch, countVars, exited>>

-----------------------------------------------------------------------------
Init ==
    /\ control_loop_run = FALSE
    /\ control_pc = "off"
    /\ stage = "end"
    /\ has_changes = FALSE
    /\ loop_count = 0
    /\ seen = Empty
    /\ settings \in [camera : Legal, display : Display]
    /\ file \in Document \cup {Empty}
    /\ watch = FALSE /\ event = FALSE
    /\ editor = FALSE
    /\ unread = "none"
    /\ edits = 0 /\ messages = 0 /\ sessions = 0
    /\ exited = FALSE

ControlThread ==
    \/ LoadOpen \/ LoadRead \/ WriteOpen \/ WriteClose
    \/ StartInotify \/ DrainInotify \/ ControlLoop \/ InotifyPoll
    \/ PollCecEvents \/ StopInotify

Environment == StartSession \/ EndSession \/ EditOpen \/ EditClose \/ DoubleClose

Next == ~exited /\ (ControlThread \/ Environment)

Spec == Init /\ [][Next]_vars

(* The control thread is scheduled, and the page ends the edit it began. *)
Fairness == WF_vars(~exited /\ ControlThread) /\ WF_vars(~exited /\ EditClose)

FairSpec == Spec /\ Fairness

-----------------------------------------------------------------------------
(* Type invariant: rounds are counted up to the write and no further
   (main.c:102-151). *)
TypeOK ==
    /\ control_loop_run \in BOOLEAN
    /\ control_pc \in {"off", "load", "read", "write", "close", "watch", "drain",
                       "loop", "poll", "cec", "stop"}
    /\ stage \in {"start", "loop", "end"}
    /\ has_changes \in BOOLEAN
    /\ loop_count \in 0..(Debounce + 1)
    /\ seen \in Document \cup {Empty}
    /\ settings \in [camera : Legal, display : Display]
    /\ file \in Document \cup {Empty}
    /\ watch \in BOOLEAN /\ event \in BOOLEAN /\ editor \in BOOLEAN
    /\ unread \in {"none", "early", "loop"} /\ exited \in BOOLEAN
    /\ edits \in 0..MaxEdits /\ messages \in 0..MaxMessages
    /\ sessions \in 0..MaxSessions

(* An edit made while the loop runs is never forgotten: until it is loaded an
   event is pending or the file is being read, so only an edit made after the
   last inotify_poll can be overwritten (main.c:124-143, control-file.c:441-456). *)
EditSignalled ==
    stage = "loop" /\ unread = "loop" => event \/ control_pc \in {"load", "read"}

(* When the control thread has ended, the file holds the settings in force, unless
   it holds an edit that came too late (main.c:146-148). *)
SavedAtEnd ==
    control_pc = "off" /\ sessions > 0 /\ ~editor /\ unread = "none" => file = settings

(* File and settings agree in the end, and the program's own writes do not make it
   load and write again and again; an edit whose event the first inotify_poll
   threw away stays unnoticed (main.c:111-143, control-file.c:251,
   display.c:583-629). *)
Converges ==
    <>[](file = settings \/ unread = "early" \/ control_pc = "off" \/ exited)

=============================================================================
