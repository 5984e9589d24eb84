-------------------------- MODULE ControlSyncProofs --------------------------
(***************************************************************************)
(* The control file is neither missed nor lost, for any documents, any     *)
(* debounce and any number of edits, messages and sessions.  The inductive *)
(* invariant IInv says in which part of control_loop each program point    *)
(* lies (Parts), what the watch on the file has seen (Noticed) and when    *)
(* file and settings agree (Saved).                                        *)
(***************************************************************************)
EXTENDS ControlSync, TLAPS

(* Rounds are counted in the loop only, and the one that exceeds the debounce
   leads to the write that sets the counter back. *)
Parts ==
    /\ control_pc \in {"load", "read"} => stage \in {"start", "loop"}
    /\ control_pc \in {"watch", "drain"} => stage = "start"
    /\ control_pc \in {"loop", "poll", "cec"} => stage = "loop"
    /\ control_pc \in {"stop", "off"} => stage = "end"
    /\ loop_count > Debounce => control_pc \in {"write", "close"} /\ stage = "loop"
    /\ control_pc = "write" /\ stage = "loop" => has_changes

(* The edit the loop has to notice is in the file.  The file is watched as long as the
   loop runs, and an edit that comes between taking the file's size and reading
   its text raises an event that is not taken before the text is read. *)
Noticed ==
    /\ unread # "none" => file \in Document
    /\ stage = "loop" \/ control_pc = "drain" => watch
    /\ control_pc \in {"watch", "drain"} \/ (stage = "start" /\ control_pc = "close")
          => unread # "loop"
    /\ control_pc = "read" /\ stage = "loop" /\ unread = "loop" => file = seen \/ event

(* Behind the first write of a session file and settings agree, but for changes
   not saved yet and for what the page does; at the end nothing is unsaved. *)
Untouched == ~editor /\ unread = "none"

Saved ==
    /\ stage = "loop" /\ control_pc # "close" /\ ~has_changes /\ Untouched
          => file = settings
    /\ control_pc \in {"watch", "drain", "stop"} /\ Untouched => file = settings
    /\ SavedAtEnd

IInv == TypeOK /\ Parts /\ Noticed /\ EditSignalled /\ Saved

-----------------------------------------------------------------------------
(* The documents. *)

(* A document has both fields, an empty file and a broken text have not. *)
LEMMA NotADocument == Empty \notin Document /\ Broken \notin Document /\ Empty # Broken
BY DEF Document, Empty, Broken

(* Settings are a document the camera accepts as it stands. *)
LEMMA SettingsAccepted ==
    ASSUME NEW s \in [camera : Legal, display : Display]
    PROVE  s \in Document /\ s.camera \in Legal
BY DEF Document

(* What set_control leaves in force is legal, and is the document itself when that
   changes nothing. *)
LEMMA AcceptedLegal ==
    ASSUME settings \in [camera : Legal, display : Display],
           NEW document \in Document, NEW new \in Accepted(document)
    PROVE  /\ new \in [camera : Legal, display : Display]
           /\ ~Changed(document) => new = settings /\ document = settings
<1>1. CASE document.camera \in Legal
  <2>1. new = document
    BY <1>1 DEF Accepted
  <2>2. document \in [camera : Legal, display : Display]
    BY <1>1 DEF Document
  <2> QED
    BY <2>1, <2>2 DEF Changed
<1>2. CASE document.camera \notin Legal
  <2>1. PICK c \in Legal \cup {settings.camera} : new = [document EXCEPT !.camera = c]
    BY <1>2 DEF Accepted
  <2>2. c \in Legal
    BY SettingsAccepted
  <2>3. new \in [camera : Legal, display : Display]
    BY <2>1, <2>2 DEF Document
  <2>4. document # settings
    BY <1>2, SettingsAccepted
  <2> QED
    BY <2>3, <2>4 DEF Changed
<1> QED
  BY <1>1, <1>2

(* What a load does: the text is the file, or nothing is loaded. *)
LEMMA LoadReadEffect ==
    ASSUME TypeOK, LoadRead
    PROVE  /\ settings' \in [camera : Legal, display : Display]
           /\ has_changes' \in BOOLEAN
           /\ control_pc' = IF stage = "start" THEN "write" ELSE "cec"
           /\ \/ file = settings' \/ has_changes'
              \/ /\ UNCHANGED <<settings, unread>>
                 /\ has_changes' = (stage = "loop" /\ has_changes)
           /\ \/ unread' = "none"
              \/ unread' = unread /\ (seen = file => file \in {Empty, Broken})
<1>1. PICK text \in Text :
          \/ /\ text \in Document
             /\ Loaded(Changed(text))
             /\ settings' \in Accepted(text)
             /\ unread' = "none"
          \/ /\ text \in {Empty, Broken}
             /\ Loaded(FALSE)
             /\ UNCHANGED <<settings, unread>>
  BY DEF LoadRead
<1>2. text \in Document => text = file
  BY NotADocument DEF Text
<1>3. text \notin Document => (seen = file => file \in {Empty, Broken})
  BY <1>1 DEF Text
<1>4. /\ settings' \in [camera : Legal, display : Display]
      /\ text \in Document => Changed(text) \/ settings' = text
  BY <1>1, AcceptedLegal, NotADocument DEF TypeOK
<1>5. has_changes' \in BOOLEAN
  BY <1>1, Zenon DEF TypeOK, Loaded, Changed
<1>6. CASE text \in Document
  BY <1>1, <1>2, <1>4, <1>5, <1>6, NotADocument DEF Loaded
<1>7. CASE text \notin Document
  BY <1>1, <1>3, <1>4, <1>5, <1>7 DEF Loaded
<1> QED
  BY <1>6, <1>7

-----------------------------------------------------------------------------
(* The first state satisfies the invariant. *)
LEMMA InvInit == Init => IInv
<1> SUFFICES ASSUME Init PROVE IInv
  OBVIOUS
<1>1. TypeOK
  <2>1. /\ control_loop_run \in BOOLEAN /\ has_changes \in BOOLEAN
        /\ watch \in BOOLEAN /\ event \in BOOLEAN /\ editor \in BOOLEAN
        /\ exited \in BOOLEAN
    BY Zenon DEF Init
  <2>2. loop_count \in 0..(Debounce + 1) /\ edits \in 0..MaxEdits
        /\ messages \in 0..MaxMessages /\ sessions \in 0..MaxSessions
    BY ControlSyncAssumption DEF Init
  <2> QED
    BY <2>1, <2>2 DEF Init, TypeOK
<1>2. Parts
  BY ControlSyncAssumption DEF Init, Parts
<1>3. Noticed /\ EditSignalled /\ Saved
  BY DEF Init, Noticed, EditSignalled, Saved, SavedAtEnd, Untouched
<1> QED
  BY <1>1, <1>2, <1>3 DEF IInv

(* Every step keeps the types; rounds are counted in states Parts allows. *)
LEMMA TypeStep == IInv /\ [Next]_vars => TypeOK'
<1> SUFFICES ASSUME IInv, [Next]_vars PROVE TypeOK'
  OBVIOUS
<1> USE ControlSyncAssumption DEF IInv, TypeOK, Parts, threadVars, fileVars, countVars
<1>1. CASE LoadOpen
  BY <1>1 DEF LoadOpen, Loaded
<1>2. CASE LoadRead
  BY <1>2, LoadReadEffect DEF LoadRead
<1>3. CASE WriteOpen
  BY <1>3 DEF WriteOpen
<1>4. CASE WriteClose
  BY <1>4, SettingsAccepted DEF WriteClose
<1>5. CASE StartInotify
  BY <1>5 DEF StartInotify
<1>6. CASE DrainInotify
  BY <1>6 DEF DrainInotify
<1>7. CASE ControlLoop
  BY <1>7 DEF ControlLoop
<1>8. CASE InotifyPoll
  BY <1>8 DEF InotifyPoll
<1>9. CASE PollCecEvents
  <2>1. has_changes' \in BOOLEAN
    BY <1>9, Zenon DEF PollCecEvents
  <2>2. loop_count' \in 0..(Debounce + 1) /\ messages' \in 0..MaxMessages
    BY <1>9 DEF PollCecEvents
  <2>3. control_pc' \in {"write", "loop"}
    BY <1>9 DEF PollCecEvents
  <2> QED
    BY <1>9, <2>1, <2>2, <2>3 DEF PollCecEvents
<1>10. CASE StopInotify
  BY <1>10 DEF StopInotify
<1>11. CASE StartSession
  <2>1. control_loop_run' \in BOOLEAN /\ has_changes' \in BOOLEAN
    BY <1>11, Zenon DEF StartSession
  <2> QED
    BY <1>11, <2>1, SettingsAccepted DEF StartSession
<1>12. CASE EndSession
  <2>1. control_loop_run' \in BOOLEAN /\ has_changes' \in BOOLEAN
    BY <1>12, Zenon DEF EndSession
  <2> QED
    BY <1>12, <2>1, SettingsAccepted DEF EndSession
<1>13. CASE EditOpen
  BY <1>13 DEF EditOpen
<1>14. CASE EditClose
  BY <1>14 DEF EditClose
<1>15. CASE DoubleClose
  BY <1>15 DEF DoubleClose
<1>16. CASE UNCHANGED vars
  BY <1>16 DEF vars
<1> QED
  BY <1>1, <1>2, <1>3, <1>4, <1>5, <1>6, <1>7, <1>8, <1>9,
     <1>10, <1>11, <1>12, <1>13, <1>14, <1>15, <1>16
     DEF Next, ControlThread, Environment

(* The program points stay in their part of control_loop. *)
LEMMA PartsStep == IInv /\ [Next]_vars => Parts'
<1> SUFFICES ASSUME IInv, [Next]_vars PROVE Parts'
  OBVIOUS
<1> USE ControlSyncAssumption DEF IInv, TypeOK, Parts, threadVars, fileVars, countVars
<1>1. CASE LoadOpen
  BY <1>1 DEF LoadOpen, Loaded
<1>2. CASE LoadRead
  BY <1>2, LoadReadEffect DEF LoadRead
<1>3. CASE WriteOpen
  BY <1>3 DEF WriteOpen
<1>4. CASE WriteClose
  BY <1>4 DEF WriteClose
<1>5. CASE StartInotify
  BY <1>5 DEF StartInotify
<1>6. CASE DrainInotify
  BY <1>6 DEF DrainInotify
<1>7. CASE ControlLoop
  BY <1>7 DEF ControlLoop
<1>8. CASE InotifyPoll
  BY <1>8 DEF InotifyPoll
<1>9. CASE PollCecEvents
  BY <1>9 DEF PollCecEvents
<1>10. CASE StopInotify
  BY <1>10 DEF StopInotify
<1>11. CASE StartSession
  BY <1>11 DEF StartSession
<1>12. CASE EndSession
  BY <1>12 DEF EndSession
<1>13. CASE EditOpen
  BY <1>13 DEF EditOpen
<1>14. CASE EditClose
  BY <1>14 DEF EditClose
<1>15. CASE DoubleClose
  BY <1>15 DEF DoubleClose
<1>16. CASE UNCHANGED vars
  BY <1>16 DEF vars
<1> QED
  BY <1>1, <1>2, <1>3, <1>4, <1>5, <1>6, <1>7, <1>8, <1>9,
     <1>10, <1>11, <1>12, <1>13, <1>14, <1>15, <1>16
     DEF Next, ControlThread, Environment

(* No step hides an edit from the loop. *)
LEMMA NoticedStep == IInv /\ [Next]_vars => (Noticed /\ EditSignalled)'
<1> SUFFICES ASSUME IInv, [Next]_vars PROVE (Noticed /\ EditSignalled)'
  OBVIOUS
<1> USE NotADocument, SettingsAccepted DEF IInv, TypeOK, Parts, Noticed, EditSignalled,
         threadVars, fileVars, countVars
<1>1. CASE LoadOpen
  BY <1>1 DEF LoadOpen, Loaded
<1>2. CASE LoadRead
  BY <1>2, LoadReadEffect DEF LoadRead
<1>3. CASE WriteOpen
  BY <1>3 DEF WriteOpen
<1>4. CASE WriteClose
  BY <1>4 DEF WriteClose
<1>5. CASE StartInotify
  BY <1>5 DEF StartInotify
<1>6. CASE DrainInotify
  BY <1>6 DEF DrainInotify
<1>7. CASE ControlLoop
  BY <1>7 DEF ControlLoop
<1>8. CASE InotifyPoll
  BY <1>8 DEF InotifyPoll
<1>9. CASE PollCecEvents
  BY <1>9 DEF PollCecEvents
<1>10. CASE StopInotify
  BY <1>10 DEF StopInotify
<1>11. CASE StartSession
  BY <1>11 DEF StartSession
<1>12. CASE EndSession
  BY <1>12 DEF EndSession
<1>13. CASE EditOpen
  BY <1>13 DEF EditOpen
<1>14. CASE EditClose
  BY <1>14 DEF EditClose
<1>15. CASE DoubleClose
  BY <1>15 DEF DoubleClose
<1>16. CASE UNCHANGED vars
  BY <1>16 DEF vars
<1> QED
  BY <1>1, <1>2, <1>3, <1>4, <1>5, <1>6, <1>7, <1>8, <1>9,
     <1>10, <1>11, <1>12, <1>13, <1>14, <1>15, <1>16
     DEF Next, ControlThread, Environment

(* No step parts file and settings without a change to save. *)
LEMMA SavedStep == IInv /\ [Next]_vars => Saved'
<1> SUFFICES ASSUME IInv, [Next]_vars PROVE Saved'
  OBVIOUS
<1> USE NotADocument DEF IInv, TypeOK, Parts, Noticed, Saved, SavedAtEnd, Untouched,
         threadVars, fileVars, countVars
<1>1. CASE LoadOpen
  BY <1>1 DEF LoadOpen, Loaded
<1>2. CASE LoadRead
  BY <1>2, LoadReadEffect DEF LoadRead
<1>3. CASE WriteOpen
  BY <1>3 DEF WriteOpen
<1>4. CASE WriteClose
  BY <1>4 DEF WriteClose
<1>5. CASE StartInotify
  BY <1>5 DEF StartInotify
<1>6. CASE DrainInotify
  BY <1>6 DEF DrainInotify
<1>7. CASE ControlLoop
  BY <1>7 DEF ControlLoop
<1>8. CASE InotifyPoll
  BY <1>8 DEF InotifyPoll
<1>9. CASE PollCecEvents
  BY <1>9 DEF PollCecEvents
<1>10. CASE StopInotify
  BY <1>10 DEF StopInotify
<1>11. CASE StartSession
  BY <1>11 DEF StartSession
<1>12. CASE EndSession
  BY <1>12 DEF EndSession
<1>13. CASE EditOpen
  BY <1>13 DEF EditOpen
<1>14. CASE EditClose
  BY <1>14 DEF EditClose
<1>15. CASE DoubleClose
  BY <1>15 DEF DoubleClose
<1>16. CASE UNCHANGED vars
  BY <1>16 DEF vars
<1> QED
  BY <1>1, <1>2, <1>3, <1>4, <1>5, <1>6, <1>7, <1>8, <1>9,
     <1>10, <1>11, <1>12, <1>13, <1>14, <1>15, <1>16
     DEF Next, ControlThread, Environment

(* The invariant holds in every reachable state. *)
LEMMA Always == Spec => []IInv
<1>1. IInv /\ [Next]_vars => IInv'
  BY TypeStep, PartsStep, NoticedStep, SavedStep DEF IInv
<1> QED
  BY <1>1, InvInit, PTL DEF Spec

(* Rounds are counted up to the write and no further, and every value stays in its
   set (main.c:102-151). *)
THEOREM TypeCorrect == Spec => []TypeOK
<1>1. IInv => TypeOK
  BY DEF IInv
<1> QED
  BY <1>1, Always, PTL

(* Between two inotify_polls no edit is forgotten (main.c:124-143,
   control-file.c:441-456). *)
THEOREM EditsNoticed == Spec => []EditSignalled
<1>1. IInv => EditSignalled
  BY DEF IInv
<1> QED
  BY <1>1, Always, PTL

(* The control thread ends with its settings in the file (main.c:146-148). *)
THEOREM SettingsSaved == Spec => []SavedAtEnd
<1>1. IInv => SavedAtEnd
  BY DEF IInv, Saved
<1> QED
  BY <1>1, Always, PTL

=============================================================================
