--------------------------- MODULE StagedChanges_proofs ---------------------------
(***************************************************************************)
(* Proofs about the changes that wait for a start of the server: about     *)
(* CustomPaks, for any file names, any project packages among them, and    *)
(* about ConfigFiles, for any finite files and any map rotation in them;   *)
(* with writes that fail or do not.                                        *)
(***************************************************************************)
EXTENDS CustomPaks, ConfigFiles, FiniteSetTheorems, SequenceTheorems, TLAPS

-----------------------------------------------------------------------------
(* CustomPaks: the invariants *)

\* What keeps the files and the stored requests together while one process at a
\* time works on them.
UploadInv ==
    upload # NoUpload =>
        /\ stored[upload.name] = NoAction
        /\ upload.pc = "save" => place[upload.name] = "upload"

\* The place a stored request moves its file to.
Target(n) == IF Loaded[n].wants = "delete" THEN "none" ELSE Loaded[n].wants

\* Nothing is left to do for a file.
Done(n) == place[n] # "upload" /\ (stored[n] # NoAction => place[n] = Target(n))

ApplyInv ==
    /\ apply # NoApply => ~running
    /\ apply.pc = "clear" => apply.todo = {}
    /\ apply.pc \in {"move", "clear"} => \A n \in Names \ apply.todo : Done(n)
    /\ apply.pc = "move" => \A n \in apply.todo : Requests[n] # NoAction

\* A project package is never asked to be deleted.
ManagedInv == \A n \in Names \cap Managed : stored[n].wants # "delete"

PaksInv ==
    TypeOK /\ UploadInv /\ ApplyInv /\ ManagedInv /\ RequestsHaveFiles /\ LaunchIsSettled

-----------------------------------------------------------------------------
(* Requests *)

\* What is stored, loaded and applied for a name is a request.
LEMMA RequestTypes ==
    ASSUME TypeOK
    PROVE  /\ NoAction \in Action /\ \A state \in Kept : To(state) \in Action
           /\ Loaded \in [Names -> Action] /\ Requests \in [Names -> Action]
<1>1. NoAction \in Action /\ \A state \in Kept : To(state) \in Action
  BY DEF NoAction, To, Action, Kept
<1>2. To("active") \in Action
  BY <1>1 DEF Kept
<1>3. stored \in [Names -> Action]
  BY DEF TypeOK
<1>4. Loaded \in [Names -> Action]
  BY <1>2, <1>3 DEF Loaded
<1>5. Requests \in [Names -> Action]
  BY <1>2, <1>4 DEF Requests
<1> QED
  BY <1>1, <1>4, <1>5

\* A request is none, or wants its file in a place or deleted.
LEMMA RequestCases ==
    /\ \A act \in Action : act = NoAction \/ act.wants \in Kept \/ act.wants = "delete"
    /\ \A act \in Action : act.wants = "delete" => act.previous \in Kept
    /\ \A act \in Action : act.wants # "delete" => act.previous = "none"
    /\ NoAction.wants = "none" /\ NoAction.previous = "none"
    /\ \A state \in Kept : To(state).wants = state /\ To(state).previous = "none"
                              /\ To(state) # NoAction
    /\ "none" \notin Kept /\ "delete" \notin Kept /\ "upload" \notin Kept
BY DEF Action, NoAction, Kept, To

\* Loading stored requests again changes nothing.
LEMMA LoadedIsStable ==
    ASSUME TypeOK, NEW n \in Names
    PROVE  /\ Loaded[n] = NoAction <=> stored[n] = NoAction
           /\ n \notin Managed => Loaded[n] = stored[n]
           /\ n \in Managed /\ stored[n] # NoAction => Loaded[n] = To("active")
           /\ stored[n].wants \in Kept => Loaded[n].wants \in Kept
BY RequestCases DEF Loaded, Kept

\* Nothing else becomes a request to keep a file by being loaded.
LEMMA LoadedIsNoOther ==
    ASSUME TypeOK, ManagedInv, NEW n \in Names
    PROVE  /\ Loaded[n].wants \in Kept => stored[n].wants \in Kept
           /\ n \in Managed => Loaded[n].wants # "delete"
<1>1. stored[n] \in Action
  BY DEF TypeOK
<1>2. CASE n \in Managed
  <2>1. stored[n] = NoAction \/ stored[n].wants \in Kept
    BY <1>1, <1>2, RequestCases DEF ManagedInv
  <2>2. Loaded[n] = NoAction \/ Loaded[n] = To("active")
    BY <1>2, LoadedIsStable
  <2> QED
    BY <2>1, <2>2, LoadedIsStable, RequestCases DEF Kept
<1>3. CASE n \notin Managed
  BY <1>3, LoadedIsStable
<1> QED
  BY <1>2, <1>3

\* What is stored for a wish is a request.
LEMMA WantsTypes ==
    ASSUME TypeOK, NEW n \in Names, NEW state \in Kept
    PROVE  Wants(n, state) \in Action /\ Wants(n, state).wants # "delete"
BY RequestTypes, RequestCases DEF Wants, Kept

-----------------------------------------------------------------------------
(* The steps keep the invariant *)

\* Storing a request: it has its file, and nobody works on the files.
LEMMA SaveKeeps ==
    ASSUME PaksInv, Unlocked, NEW n \in Names, NEW act \in Action,
           place[n] # "none", n \in Managed => act.wants # "delete",
           Save(n, act), UNCHANGED <<place, upload, apply, running, touched, byHand>>
    PROVE  PaksInv'
<1>1. TypeOK
  BY DEF PaksInv
<1>2. Loaded \in [Names -> Action] /\ stored \in [Names -> Action]
  BY <1>1, RequestTypes DEF TypeOK
<1>3. stored' \in [Names -> Action]
  BY <1>2 DEF Save
<1>4. TypeOK'
  BY <1>1, <1>3 DEF TypeOK
<1>5. UploadInv' /\ ApplyInv' /\ LaunchIsSettled'
  BY DEF Unlocked, UploadInv, ApplyInv, LaunchIsSettled, NoUpload, NoApply
<1>6. RequestsHaveFiles'
  <2> SUFFICES ASSUME NEW m \in Names \ touched, stored'[m].wants \in Kept
               PROVE  place[m] # "none"
    BY DEF RequestsHaveFiles
  <2>1. CASE m = n
    BY <2>1
  <2>2. CASE m # n
    <3>1. stored'[m] = Loaded[m] \/ stored'[m] = stored[m]
      BY <1>2, <2>2 DEF Save
    <3>2. stored[m].wants \in Kept
      BY <1>1, <3>1, LoadedIsNoOther DEF PaksInv
    <3> QED
      BY <3>2 DEF PaksInv, RequestsHaveFiles
  <2> QED
    BY <2>1, <2>2
<1>7. ManagedInv'
  <2> SUFFICES ASSUME NEW m \in Names \cap Managed
               PROVE  stored'[m].wants # "delete"
    BY DEF ManagedInv
  <2>1. stored'[m] = Loaded[m] \/ stored'[m] = stored[m] \/ (m = n /\ stored'[m] = act)
    BY <1>2 DEF Save
  <2> QED
    BY <1>1, <2>1, LoadedIsNoOther DEF PaksInv, ManagedInv
<1> QED
  BY <1>4, <1>5, <1>6, <1>7 DEF PaksInv

\* The requests of the panel.
LEMMA RequestKeeps ==
    ASSUME PaksInv, NEW n \in Names, Request(n)
    PROVE  PaksInv'
<1>1. TypeOK
  BY DEF PaksInv
<1>2. Loaded[n] \in Action
  BY <1>1, RequestTypes
<1>3. ASSUME NEW state \in Kept, SetEnabled(n, state)
      PROVE  PaksInv'
  BY <1>1, <1>3, WantsTypes, SaveKeeps DEF SetEnabled
<1>4. CASE StageDeletion(n)
  <2> DEFINE act == [wants |-> "delete",
                     previous |-> IF Loaded[n].wants \in Kept THEN Loaded[n].wants
                                                               ELSE PresentState(n)]
  <2>1. act \in Action
    BY DEF Action, Kept, PresentState
  <2> QED
    BY <1>4, <2>1, SaveKeeps DEF StageDeletion
<1>5. CASE CancelDeletion(n)
  <2>1. Loaded[n].previous \in Kept
    BY <1>2, <1>5, RequestCases DEF CancelDeletion
  <2> QED
    BY <1>1, <1>5, <2>1, WantsTypes, SaveKeeps DEF CancelDeletion
<1>6. CASE UploadBegins(n)
  <2>1. upload' = [pc |-> "copy", name |-> n]
        /\ UNCHANGED <<place, stored, apply, running, touched, byHand>>
        /\ stored[n] = NoAction /\ apply = NoApply
    BY <1>6 DEF UploadBegins, Unlocked
  <2>2. TypeOK'
    BY <1>1, <2>1 DEF TypeOK, Upload
  <2>3. UploadInv' /\ ApplyInv' /\ LaunchIsSettled' /\ RequestsHaveFiles' /\ ManagedInv'
    BY <2>1 DEF PaksInv, UploadInv, ApplyInv, LaunchIsSettled, RequestsHaveFiles, NoApply,
                ManagedInv
  <2> QED
    BY <2>2, <2>3 DEF PaksInv
<1> QED
  BY <1>3, <1>4, <1>5, <1>6 DEF Request

\* The steps of an upload: the lock is held, and no script runs.
LEMMA UploadKeeps ==
    ASSUME PaksInv, UploadStep
    PROVE  PaksInv'
<1> DEFINE n == upload.name
<1>1. upload # NoUpload /\ apply = NoApply /\ n \in Names /\ stored[n] = NoAction
  <2>1. upload # NoUpload
    BY DEF UploadStep, UploadLinks, UploadSaves, UploadDies, NoUpload
  <2> QED
    BY <2>1 DEF PaksInv, TypeOK, UploadInv, Upload
<1>2. place \in [Names -> Place] /\ stored \in [Names -> Action]
      /\ Loaded \in [Names -> Action] /\ To("active") \in Action /\ NoAction.wants = "none"
      /\ To("active").wants \in Kept /\ "none" \notin Kept
  BY RequestTypes, RequestCases DEF PaksInv, TypeOK, Kept
<1>3. ASSUME NEW p \in Place, place' = [place EXCEPT ![n] = p],
             UNCHANGED <<stored, apply, running, touched, byHand>>,
             upload' \in Upload, upload' = NoUpload \/ (upload'.name = n /\ p = "upload")
      PROVE  PaksInv'
  <2>1. TypeOK'
    BY <1>1, <1>2, <1>3 DEF PaksInv, TypeOK
  <2>2. UploadInv' /\ ApplyInv' /\ LaunchIsSettled'
    BY <1>1, <1>2, <1>3 DEF UploadInv, ApplyInv, LaunchIsSettled, NoApply
  <2>3. RequestsHaveFiles' /\ ManagedInv'
    BY <1>1, <1>2, <1>3 DEF PaksInv, RequestsHaveFiles, ManagedInv
  <2> QED
    BY <2>1, <2>2, <2>3 DEF PaksInv
<1>4. CASE UNCHANGED <<place, stored, apply, running, touched, byHand>> /\ upload' = NoUpload
  <2>1. place' = [place EXCEPT ![n] = place[n]] /\ place[n] \in Place
    BY <1>1, <1>2, <1>4
  <2> QED
    BY <1>3, <1>4, <2>1 DEF Upload
<1>5. CASE /\ UploadLinks
           /\ place' = [place EXCEPT ![n] = "upload"] /\ upload' = [upload EXCEPT !.pc = "save"]
  <2>1. /\ place' = [place EXCEPT ![n] = "upload"] /\ upload' = [upload EXCEPT !.pc = "save"]
        /\ UNCHANGED <<stored, apply, running, touched, byHand>>
    BY <1>5 DEF UploadLinks
  <2>2. upload' \in Upload /\ upload'.name = n
    BY <1>1, <2>1 DEF PaksInv, TypeOK, Upload
  <2> QED
    BY <1>3, <2>1, <2>2 DEF Place, Places
<1>6. CASE UploadSaves /\ place' = [place EXCEPT ![n] = "none"] /\ UNCHANGED stored
  <2>1. place' = [place EXCEPT ![n] = "none"] /\ UNCHANGED <<stored, apply, running, touched, byHand>>
        /\ upload' = NoUpload
    BY <1>6 DEF UploadSaves
  <2> QED
    BY <1>3, <2>1 DEF Place, Upload
<1>7. CASE UploadSaves /\ stored' = [Loaded EXCEPT ![n] = To("active")] /\ UNCHANGED place
  <2>1. /\ upload' = NoUpload /\ UNCHANGED <<place, apply, running, touched, byHand>>
        /\ place[n] = "upload"
    BY <1>1, <1>7 DEF UploadSaves, PaksInv, UploadInv
  <2>2. stored' \in [Names -> Action]
    BY <1>2, <1>7
  <2>3. TypeOK'
    BY <2>1, <2>2 DEF PaksInv, TypeOK, Upload
  <2>4. UploadInv' /\ ApplyInv' /\ LaunchIsSettled'
    BY <1>1, <2>1 DEF UploadInv, ApplyInv, LaunchIsSettled, NoApply
  <2>5. RequestsHaveFiles'
    <3> SUFFICES ASSUME NEW m \in Names \ touched, stored'[m].wants \in Kept
                 PROVE  place[m] # "none"
      BY <2>1 DEF RequestsHaveFiles
    <3>1. CASE m = n
      BY <3>1, <2>1
    <3>2. CASE m # n
      <4>1. stored'[m] = Loaded[m]
        BY <1>2, <1>7, <3>2
      <4>2. stored[m].wants \in Kept
        BY <4>1, LoadedIsNoOther DEF PaksInv
      <4> QED
        BY <4>2 DEF PaksInv, RequestsHaveFiles
    <3> QED
      BY <3>1, <3>2
  <2>6. ManagedInv'
    <3>1. \A m \in Names \ {n} : stored'[m] = Loaded[m]
      BY <1>2, <1>7
    <3>2. stored'[n].wants # "delete"
      BY <1>1, <1>2, <1>7, RequestCases
    <3> QED
      BY <3>1, <3>2, LoadedIsNoOther DEF PaksInv, ManagedInv
  <2> QED
    BY <2>3, <2>4, <2>5, <2>6 DEF PaksInv
<1>8. CASE UploadLinks
  <2>1. CASE place' = [place EXCEPT ![n] = "upload"] /\ upload' = [upload EXCEPT !.pc = "save"]
    BY <1>5, <1>8, <2>1
  <2>2. CASE UNCHANGED place /\ upload' = NoUpload
    BY <1>4, <1>8, <2>2 DEF UploadLinks
  <2> QED
    BY <1>8, <2>1, <2>2 DEF UploadLinks
<1>9. CASE UploadSaves
  BY <1>6, <1>7, <1>9 DEF UploadSaves
<1>10. CASE UploadDies
  BY <1>4, <1>10 DEF UploadDies
<1> QED
  BY <1>8, <1>9, <1>10 DEF UploadStep

\* The files and the requests are left alone, and the script begins or ends.
LEMMA ScriptBoundsKeep ==
    ASSUME PaksInv, UNCHANGED <<place, stored, upload, touched, byHand>>, running' \in BOOLEAN,
           \/ apply' = NoApply
           \/ apply' = [pc |-> "scan", todo |-> {}] /\ Unlocked /\ ~running'
    PROVE  PaksInv'
<1>1. TypeOK'
  BY DEF PaksInv, TypeOK, Apply, NoApply, Unlocked
<1>2. UploadInv' /\ ApplyInv' /\ LaunchIsSettled' /\ RequestsHaveFiles' /\ ManagedInv'
  BY DEF PaksInv, UploadInv, ApplyInv, LaunchIsSettled, RequestsHaveFiles, NoApply, ManagedInv
<1> QED
  BY <1>1, <1>2 DEF PaksInv

\* While the script works there is no upload and no server.
LEMMA ScriptIsAlone ==
    ASSUME PaksInv, apply # NoApply
    PROVE  upload = NoUpload /\ ~running
BY DEF PaksInv, TypeOK, ApplyInv

\* The first pass: either all is settled, or what needs work is still to do.
LEMMA ScanKeeps ==
    ASSUME PaksInv, ApplyScans
    PROVE  PaksInv'
<1>1. TypeOK /\ apply # NoApply /\ UNCHANGED <<place, stored, upload, running, touched, byHand>>
  BY DEF PaksInv, ApplyScans, NoApply
<1>2. upload = NoUpload /\ ~running
  BY <1>1, ScriptIsAlone
<1>3. UploadInv' /\ RequestsHaveFiles' /\ ManagedInv'
  BY <1>1 DEF PaksInv, UploadInv, RequestsHaveFiles, ManagedInv
<1>4. \A m \in Names : Requests[m] = NoAction => stored[m] = NoAction /\ place[m] # "upload"
  <2> SUFFICES ASSUME NEW m \in Names, Requests[m] = NoAction
               PROVE  stored[m] = NoAction /\ place[m] # "upload"
    OBVIOUS
  <2>1. To("active") # NoAction
    BY RequestCases DEF Kept
  <2>2. Loaded[m] = NoAction /\ place[m] # "upload"
    BY <2>1 DEF Requests
  <2> QED
    BY <1>1, <2>2, LoadedIsStable
<1>5. CASE apply' = NoApply
  BY <1>1, <1>5, ScriptBoundsKeep DEF PaksInv, TypeOK
<1>6. CASE apply' = [pc |-> "launch", todo |-> {}] /\ \A m \in Names : Requests[m] = NoAction
  <2>1. TypeOK'
    BY <1>1, <1>2, <1>6 DEF TypeOK, Apply
  <2>2. ApplyInv' /\ LaunchIsSettled'
    BY <1>1, <1>2, <1>4, <1>6 DEF ApplyInv, LaunchIsSettled
  <2> QED
    BY <1>3, <2>1, <2>2 DEF PaksInv
<1>7. CASE apply' = [pc |-> "move", todo |-> {m \in Names : Requests[m] # NoAction}]
  <2>1. TypeOK'
    BY <1>1, <1>2, <1>7 DEF TypeOK, Apply
  <2>2. \A m \in Names \ apply'.todo : Done(m)'
    BY <1>1, <1>4, <1>7 DEF Done
  <2>3. Requests' = Requests
    BY <1>1 DEF Requests, Loaded
  <2>4. ApplyInv' /\ LaunchIsSettled'
    BY <1>1, <1>2, <1>7, <2>2, <2>3 DEF ApplyInv, LaunchIsSettled
  <2> QED
    BY <1>3, <2>1, <2>4 DEF PaksInv
<1> QED
  BY <1>5, <1>6, <1>7 DEF ApplyScans

\* A file that is moved is where its request wants it.
LEMMA MovedIsDone ==
    ASSUME TypeOK, NEW n \in Names,
           place' = [place EXCEPT ![n] =
               IF Requests[n].wants = "delete" THEN "none" ELSE Requests[n].wants],
           UNCHANGED stored
    PROVE  /\ Done(n)' /\ place' \in [Names -> Place]
           /\ stored[n].wants \in Kept => place'[n] # "none"
<1>1. Requests[n] \in Action /\ Loaded[n] \in Action /\ place \in [Names -> Place]
  BY RequestTypes DEF TypeOK
<1>2. place'[n] = IF Requests[n].wants = "delete" THEN "none" ELSE Requests[n].wants
  BY <1>1
<1>3. place'[n] \in Kept \cup {"none"}
  BY <1>1, <1>2, RequestCases
<1>4. place' \in [Names -> Place]
  BY <1>1, <1>3 DEF Kept, Place, Places
<1>5. Loaded' = Loaded
  BY DEF Loaded
<1>6. ASSUME stored[n] # NoAction
      PROVE  Requests[n] = Loaded[n]
  BY <1>6, LoadedIsStable DEF Requests
<1>7. stored[n] # NoAction => place'[n] = Target(n)'
  BY <1>2, <1>5, <1>6 DEF Target
<1>8. ASSUME stored[n].wants \in Kept
      PROVE  place'[n] # "none"
  <2>1. stored[n] # NoAction /\ Loaded[n].wants \in Kept
    BY <1>8, LoadedIsStable, RequestCases
  <2> QED
    BY <1>2, <1>6, <2>1, RequestCases
<1> QED
  BY <1>3, <1>4, <1>7, <1>8, RequestCases DEF Done

\* The second pass, file by file.
LEMMA MoveKeeps ==
    ASSUME PaksInv, ApplyMoves
    PROVE  PaksInv'
<1>1. TypeOK /\ apply # NoApply /\ apply.pc = "move" /\ apply \in Apply
      /\ UNCHANGED <<stored, upload, running, touched, byHand>>
  BY DEF PaksInv, TypeOK, ApplyMoves, Destination, NoApply
<1>2. upload = NoUpload /\ ~running
  BY <1>1, ScriptIsAlone
<1>3. CASE apply' = NoApply /\ UNCHANGED place
  BY <1>1, <1>3, ScriptBoundsKeep DEF PaksInv, TypeOK
<1>4. CASE apply.todo = {} /\ apply' = [apply EXCEPT !.pc = "clear"] /\ UNCHANGED place
  <2>1. apply' = [pc |-> "clear", todo |-> {}]
    BY <1>1, <1>4 DEF Apply, NoApply
  <2>2. TypeOK'
    BY <1>1, <1>2, <1>4, <2>1 DEF TypeOK, Apply
  <2>3. \A m \in Names : Done(m)'
    <3>1. \A m \in Names : Done(m)
      BY <1>1, <1>4 DEF PaksInv, ApplyInv
    <3>2. Loaded' = Loaded
      BY <1>1 DEF Loaded
    <3> QED
      BY <1>1, <1>4, <3>1, <3>2 DEF Done, Target
  <2>4. ApplyInv' /\ LaunchIsSettled'
    BY <1>1, <1>2, <2>1, <2>3 DEF ApplyInv, LaunchIsSettled
  <2>5. UploadInv' /\ RequestsHaveFiles' /\ ManagedInv'
    BY <1>1, <1>4 DEF PaksInv, UploadInv, RequestsHaveFiles, ManagedInv
  <2> QED
    BY <2>2, <2>4, <2>5 DEF PaksInv
<1>5. ASSUME NEW n \in apply.todo,
             place' = [place EXCEPT ![n] =
                 IF Requests[n].wants = "delete" THEN "none" ELSE Requests[n].wants],
             apply' = [apply EXCEPT !.todo = @ \ {n}]
      PROVE  PaksInv'
  <2>1. n \in Names /\ apply' = [pc |-> "move", todo |-> apply.todo \ {n}]
    BY <1>1, <1>5 DEF Apply, NoApply
  <2>2. Done(n)' /\ place' \in [Names -> Place] /\ (stored[n].wants \in Kept => place'[n] # "none")
    BY <1>1, <1>5, <2>1, MovedIsDone
  <2>3. TypeOK'
    BY <1>1, <1>2, <2>1, <2>2 DEF TypeOK, Apply
  <2>4. place \in [Names -> Place] /\ \A m \in Names \ {n} : place'[m] = place[m]
    BY <1>1, <1>5, <2>1 DEF TypeOK
  <2>5. \A m \in Names \ apply'.todo : Done(m)'
    <3>1. Loaded' = Loaded
      BY <1>1 DEF Loaded
    <3>2. \A m \in Names \ apply.todo : Done(m)
      BY <1>1 DEF PaksInv, ApplyInv
    <3> QED
      BY <1>1, <2>1, <2>2, <2>4, <3>1, <3>2 DEF Done, Target
  <2>6. ApplyInv' /\ LaunchIsSettled'
    <3>1. \A m \in apply'.todo : Requests'[m] # NoAction
      <4>1. \A m \in apply'.todo : m \in Names \ {n} /\ Requests[m] # NoAction
        BY <1>1, <2>1 DEF PaksInv, TypeOK, ApplyInv, Apply, NoApply
      <4>2. Loaded' = Loaded
        BY <1>1 DEF Loaded
      <4> QED
        BY <2>4, <4>1, <4>2 DEF Requests
    <3> QED
      BY <1>1, <1>2, <2>1, <2>5, <3>1 DEF ApplyInv, LaunchIsSettled
  <2>7. UploadInv' /\ RequestsHaveFiles' /\ ManagedInv'
    BY <1>1, <1>2, <2>1, <2>2, <2>4 DEF PaksInv, UploadInv, RequestsHaveFiles, ManagedInv
  <2> QED
    BY <2>3, <2>6, <2>7 DEF PaksInv
<1> QED
  BY <1>1, <1>3, <1>4, <1>5 DEF ApplyMoves, Destination

\* The requests are forgotten when every file is where they wanted it.
LEMMA ClearKeeps ==
    ASSUME PaksInv, ApplyClears
    PROVE  PaksInv'
<1>1. TypeOK /\ apply # NoApply /\ apply.pc = "clear" /\ apply \in Apply
      /\ UNCHANGED <<place, upload, running, touched, byHand>>
      /\ stored' = [n \in Names |-> NoAction]
      /\ apply' = [apply EXCEPT !.pc = "launch"]
  BY DEF PaksInv, TypeOK, ApplyClears, NoApply
<1>2. upload = NoUpload /\ ~running
  BY <1>1, ScriptIsAlone
<1>3. apply' = [pc |-> "launch", todo |-> {}] /\ \A n \in Names : Done(n)
  BY <1>1 DEF PaksInv, ApplyInv, Apply, NoApply
<1>4. stored' \in [Names -> Action]
  BY <1>1, RequestTypes
<1>5. TypeOK'
  BY <1>1, <1>2, <1>3, <1>4 DEF TypeOK, Apply
<1>6. ApplyInv' /\ LaunchIsSettled'
  BY <1>1, <1>2, <1>3 DEF ApplyInv, LaunchIsSettled, Done
<1>7. UploadInv' /\ RequestsHaveFiles' /\ ManagedInv'
  BY <1>1, <1>2, RequestCases DEF UploadInv, RequestsHaveFiles, ManagedInv
<1> QED
  BY <1>5, <1>6, <1>7 DEF PaksInv

\* The script, the server and its end.
LEMMA ScriptKeeps ==
    ASSUME PaksInv, ScriptStep
    PROVE  PaksInv'
<1>1. running \in BOOLEAN
  BY DEF PaksInv, TypeOK
<1>2. CASE StartScript \/ Launch \/ ScriptDies
  BY <1>1, <1>2, ScriptBoundsKeep DEF StartScript, Launch, ScriptDies
<1>3. CASE Recover
  BY <1>3, ScriptBoundsKeep DEF Recover, Unlocked
<1>4. CASE ServerEnds
  <2>1. apply = NoApply /\ apply' = NoApply
    BY <1>4, ScriptIsAlone DEF ServerEnds
  <2> QED
    BY <1>4, <2>1, ScriptBoundsKeep DEF ServerEnds
<1> QED
  BY <1>2, <1>3, <1>4, ScanKeeps, MoveKeeps, ClearKeeps DEF ScriptStep

\* Only files that nobody works on change without the manager.
LEMMA AdministratorKeeps ==
    ASSUME PaksInv, NEW n \in Names, Administrator(n)
    PROVE  PaksInv'
<1>1. PICK p \in Place : place' = [place EXCEPT ![n] = p]
  BY DEF Administrator
<1>2. /\ Unlocked /\ touched' = touched \cup {n} /\ byHand' = ~byHand
      /\ UNCHANGED <<stored, upload, apply, running>>
  BY DEF Administrator
<1>3. TypeOK'
  BY <1>1, <1>2 DEF PaksInv, TypeOK
<1>4. UploadInv' /\ ApplyInv' /\ LaunchIsSettled' /\ RequestsHaveFiles' /\ ManagedInv'
  BY <1>1, <1>2 DEF PaksInv, TypeOK, Unlocked, UploadInv, ApplyInv, LaunchIsSettled,
                    RequestsHaveFiles, ManagedInv, NoApply
<1> QED
  BY <1>3, <1>4 DEF PaksInv

\* The initial packages.
LEMMA InitInv == Init => PaksInv
<1> SUFFICES ASSUME Init
             PROVE  PaksInv
  OBVIOUS
<1>1. TypeOK
  BY RequestCases
    DEF Init, TypeOK, Place, Places, Action, NoAction, Upload, NoUpload, Apply, NoApply
<1>2. UploadInv /\ ApplyInv /\ LaunchIsSettled /\ RequestsHaveFiles /\ ManagedInv
  BY RequestCases DEF Init, UploadInv, ApplyInv, LaunchIsSettled, RequestsHaveFiles, ManagedInv,
                      NoApply
<1> QED
  BY <1>1, <1>2 DEF PaksInv

\* Every step keeps the invariant.
LEMMA NextKeeps == PaksInv /\ [Next]_vars => PaksInv'
<1>1. ASSUME PaksInv, UNCHANGED vars
      PROVE  PaksInv'
  <2>1. Loaded' = Loaded /\ Requests' = Requests
    BY <1>1 DEF vars, Loaded, Requests
  <2>2. TypeOK' /\ UploadInv' /\ ManagedInv' /\ RequestsHaveFiles' /\ LaunchIsSettled'
    BY <1>1 DEF vars, PaksInv, TypeOK, UploadInv, LaunchIsSettled, RequestsHaveFiles, ManagedInv
  <2>3. ApplyInv'
    BY <1>1, <2>1 DEF vars, PaksInv, ApplyInv, Done, Target
  <2> QED
    BY <2>2, <2>3 DEF PaksInv
<1> QED
  BY <1>1, RequestKeeps, UploadKeeps, ScriptKeeps, AdministratorKeeps DEF Next

\* The invariant of the packages.
LEMMA Invariance == Spec => []PaksInv
BY InitInv, NextKeeps, PTL DEF Spec

-----------------------------------------------------------------------------
(* The panel implements its promise *)

\* What the plan shows of a file in a place and of a request that is loaded.
Present(p) == CASE p = "none" -> "absent" [] p = "upload" -> "waiting" [] OTHER -> p
ShownState(p, act) ==
    IF act = NoAction
    THEN IF p = "none" THEN "absent" ELSE IF p = "inactive" THEN "inactive" ELSE "active"
    ELSE IF act.wants = "delete" THEN "absent" ELSE act.wants

\* What the plan is of, file by file.
LEMMA PlanShows ==
    ASSUME TypeOK, NEW n \in Names
    PROVE  /\ Now[n] = Present(place[n])
           /\ Planned[n] = ShownState(place[n], Loaded[n])
           /\ Before[n] = Loaded[n].previous
BY LoadedIsStable, RequestCases
   DEF Now, Present, Planned, Before, DesiredState, PresentState, ShownState

\* The same for the next state.
LEMMA PlanShowsNext ==
    ASSUME TypeOK', NEW n \in Names
    PROVE  /\ Now'[n] = Present(place'[n])
           /\ Planned'[n] = ShownState(place'[n], Loaded'[n])
           /\ Before'[n] = Loaded'[n].previous
<1>1. Loaded'[n] = NoAction <=> stored'[n] = NoAction
  BY RequestCases DEF Loaded, Kept
<1> QED
  BY <1>1, RequestCases
     DEF Now, Present, Planned, Before, DesiredState, PresentState, ShownState

\* A step on one file leaves the plan of the others alone.
LEMMA OneFile ==
    ASSUME TypeOK, TypeOK', NEW n \in Names,
           \A m \in Names \ {n} : place'[m] = place[m] /\ Loaded'[m] = Loaded[m]
    PROVE  /\ Now' = [Now EXCEPT ![n] = Present(place'[n])]
           /\ Planned' = [Planned EXCEPT ![n] = ShownState(place'[n], Loaded'[n])]
           /\ Before' = [Before EXCEPT ![n] = Loaded'[n].previous]
<1>1. \A m \in Names \ {n} : Now'[m] = Now[m] /\ Planned'[m] = Planned[m] /\ Before'[m] = Before[m]
  BY PlanShows, PlanShowsNext
<1>2. Now'[n] = Present(place'[n]) /\ Planned'[n] = ShownState(place'[n], Loaded'[n])
      /\ Before'[n] = Loaded'[n].previous
  BY PlanShowsNext
<1>3. Now' = [Now EXCEPT ![n] = Present(place'[n])]
  BY <1>1, <1>2 DEF Now
<1>4. Planned' = [Planned EXCEPT ![n] = ShownState(place'[n], Loaded'[n])]
  BY <1>1, <1>2 DEF Planned
<1>5. Before' = [Before EXCEPT ![n] = Loaded'[n].previous]
  BY <1>1, <1>2 DEF Before
<1> QED
  BY <1>3, <1>4, <1>5

\* Where no file moves and no request changes, nothing of the plan does.
LEMMA NothingThere ==
    ASSUME UNCHANGED <<place, stored>>
    PROVE  UNCHANGED <<Now, Planned, Before>>
<1>1. Loaded' = Loaded
  BY DEF Loaded
<1> QED
  BY <1>1 DEF Now, Planned, Before, DesiredState, PresentState

\* What is stored for one file is loaded for it, and nothing changes for the others.
LEMMA LoadedAgain ==
    ASSUME TypeOK, NEW n \in Names, NEW act \in Action, stored' = [Loaded EXCEPT ![n] = act],
           n \in Managed => act = NoAction \/ act = To("active")
    PROVE  Loaded' = [Loaded EXCEPT ![n] = act]
<1>1. Loaded \in [Names -> Action]
  BY RequestTypes
<1>2. ASSUME NEW m \in Names
      PROVE  Loaded'[m] = [Loaded EXCEPT ![n] = act][m]
  <2>1. stored'[m] = IF m = n THEN act ELSE Loaded[m]
    BY <1>1
  <2>2. Loaded'[m] = IF m \in Managed /\ stored'[m] # NoAction THEN To("active") ELSE stored'[m]
    BY DEF Loaded
  <2>3. m \in Managed => Loaded[m] = NoAction \/ Loaded[m] = To("active")
    BY LoadedIsStable
  <2> QED
    BY <1>1, <2>1, <2>2, <2>3
<1> QED
  BY <1>1, <1>2 DEF Loaded

\* A request of the panel that is stored changes the plan of its file only.
LEMMA SaveShows ==
    ASSUME TypeOK, TypeOK', NEW n \in Names, NEW act \in Action,
           stored' = [Loaded EXCEPT ![n] = act],
           n \in Managed => act = NoAction \/ act = To("active"),
           UNCHANGED place
    PROVE  /\ Now' = Now
           /\ Planned' = [Planned EXCEPT ![n] = ShownState(place[n], act)]
           /\ Before' = [Before EXCEPT ![n] = act.previous]
<1>1. Loaded' = [Loaded EXCEPT ![n] = act] /\ Loaded \in [Names -> Action]
  BY LoadedAgain, RequestTypes
<1>2. Loaded'[n] = act /\ \A m \in Names \ {n} : Loaded'[m] = Loaded[m]
  BY <1>1
<1>3. Now' = Now
  BY DEF Now
<1> QED
  BY <1>2, <1>3, OneFile

\* A request is a step of the plan.
LEMMA RequestPlanned ==
    ASSUME PaksInv, PaksInv', NEW n \in Names, Request(n)
    PROVE  Plan!PlanNext \/ UNCHANGED <<Now, Planned, Before, running, byHand>>
<1>1. TypeOK /\ TypeOK' /\ place[n] \in Place /\ Loaded[n] \in Action
  BY RequestTypes DEF PaksInv, TypeOK
<1>2. CASE UNCHANGED <<place, stored, running, byHand>>
  BY <1>2, NothingThere
<1>3. ASSUME NEW state \in Kept, SetEnabled(n, state),
             stored' = [Loaded EXCEPT ![n] = Wants(n, state)]
      PROVE  Plan!Wanted(n)
  <2>1. Wants(n, state) \in Action
    BY <1>1, WantsTypes
  <2>2. n \in Managed => Wants(n, state) = NoAction \/ Wants(n, state) = To("active")
    BY <1>3 DEF SetEnabled, Wants, Kept
  <2>3. ShownState(place[n], Wants(n, state)) = state /\ Wants(n, state).previous = "none"
    BY <1>3, RequestCases DEF ShownState, Wants, Kept
  <2>4. Now[n] # "absent"
    BY <1>1, <1>3, PlanShows DEF SetEnabled, Present, Place, Places
  <2>5. place' = place /\ running' = running /\ byHand' = byHand
    BY <1>3 DEF SetEnabled
  <2>6. Now' = Now /\ Planned' = [Planned EXCEPT ![n] = state]
        /\ Before' = [Before EXCEPT ![n] = "none"]
    BY <1>1, <1>3, <2>1, <2>2, <2>3, <2>5, SaveShows
  <2> QED
    BY <2>4, <2>5, <2>6 DEF Plan!Wanted, Kept
<1>4. CASE StageDeletion(n) /\ stored' # stored
  <2> DEFINE state == IF Loaded[n].wants \in Kept THEN Loaded[n].wants ELSE PresentState(n)
             act == [wants |-> "delete", previous |-> state]
  <2>1. act \in Action
    BY DEF Action, Kept, PresentState
  <2>2. /\ stored' = [Loaded EXCEPT ![n] = act] /\ n \notin Managed /\ place[n] # "none"
        /\ UNCHANGED <<place, running, byHand>>
    BY <1>4 DEF StageDeletion, Save
  <2>3. ShownState(place[n], act) = "absent" /\ act.previous = state
    BY RequestCases DEF ShownState
  <2> HIDE DEF act
  <2>4. Now' = Now /\ Planned' = [Planned EXCEPT ![n] = "absent"]
        /\ Before' = [Before EXCEPT ![n] = state]
    BY <1>1, <2>1, <2>2, <2>3, SaveShows
  <2>5. Now[n] # "absent" /\ Plan!Stays(Now[n]) = PresentState(n)
    BY <1>1, <2>2, PlanShows DEF Present, Place, Places, Plan!Stays, PresentState
  <2>6. state = IF Planned[n] = "absent" THEN Plan!Stays(Now[n]) ELSE Planned[n]
    <3>1. Planned[n] = ShownState(place[n], Loaded[n])
      BY <1>1, PlanShows
    <3>2. CASE Loaded[n] = NoAction
      BY <2>2, <2>5, <3>1, <3>2, RequestCases DEF ShownState, PresentState
    <3>3. CASE Loaded[n].wants \in Kept
      BY <3>1, <3>3, RequestCases DEF ShownState, Kept
    <3>4. CASE Loaded[n].wants = "delete"
      BY <2>5, <3>1, <3>4, RequestCases DEF ShownState, Kept
    <3> QED
      BY <1>1, <3>2, <3>3, <3>4, RequestCases
  <2> HIDE DEF state
  <2>7. Plan!Deleted(n)
    BY <2>2, <2>4, <2>5, <2>6 DEF Plan!Deleted
  <2> QED
    BY <2>7 DEF Plan!PlanNext
<1>5. CASE CancelDeletion(n) /\ stored' # stored
  <2> DEFINE state == Loaded[n].previous
  <2>1. state \in Kept /\ place[n] # "none" /\ n \notin Managed
        /\ stored' = [Loaded EXCEPT ![n] = Wants(n, state)] /\ UNCHANGED <<place, running, byHand>>
    BY <1>1, <1>5, RequestCases DEF CancelDeletion, Save
  <2> HIDE DEF state
  <2>2. Wants(n, state) \in Action
    BY <1>1, <2>1, WantsTypes
  <2>3. ShownState(place[n], Wants(n, state)) = state /\ Wants(n, state).previous = "none"
    BY <2>1, RequestCases DEF ShownState, Wants, Kept
  <2>4. Now' = Now /\ Planned' = [Planned EXCEPT ![n] = state]
        /\ Before' = [Before EXCEPT ![n] = "none"]
    BY <1>1, <2>1, <2>2, <2>3, SaveShows
  <2>5. Before[n] = state /\ state # "none"
    BY <1>1, <2>1, PlanShows DEF state, Kept
  <2>6. Plan!Cancelled(n)
    BY <2>1, <2>4, <2>5 DEF Plan!Cancelled
  <2> QED
    BY <2>6 DEF Plan!PlanNext
<1>6. ASSUME NEW state \in Kept, SetEnabled(n, state)
      PROVE  Plan!PlanNext \/ UNCHANGED <<Now, Planned, Before, running, byHand>>
  <2>1. UNCHANGED <<place, running, byHand>>
        /\ (UNCHANGED stored \/ stored' = [Loaded EXCEPT ![n] = Wants(n, state)])
    BY <1>6 DEF SetEnabled, Save
  <2>2. CASE UNCHANGED stored
    BY <1>2, <2>1, <2>2
  <2>3. CASE stored' = [Loaded EXCEPT ![n] = Wants(n, state)]
    BY <1>3, <1>6, <2>3 DEF Plan!PlanNext
  <2> QED
    BY <2>1, <2>2, <2>3
<1>7. CASE UploadBegins(n)
  BY <1>2, <1>7 DEF UploadBegins
<1>8. CASE StageDeletion(n) \/ CancelDeletion(n)
  <2>1. UNCHANGED <<place, running, byHand>>
    BY <1>8 DEF StageDeletion, CancelDeletion
  <2> QED
    BY <1>2, <1>4, <1>5, <1>8, <2>1
<1> QED
  BY <1>6, <1>7, <1>8 DEF Request

\* So are the steps of an upload.
LEMMA UploadPlanned ==
    ASSUME PaksInv, PaksInv', UploadStep
    PROVE  Plan!PlanNext \/ UNCHANGED <<Now, Planned, Before, running, byHand>>
<1> DEFINE n == upload.name
<1>1. TypeOK /\ TypeOK' /\ upload # NoUpload /\ n \in Names /\ stored[n] = NoAction
  <2>1. upload # NoUpload
    BY DEF UploadStep, UploadLinks, UploadSaves, UploadDies, NoUpload
  <2> QED
    BY <2>1 DEF PaksInv, TypeOK, UploadInv, Upload
<1>2. place \in [Names -> Place] /\ To("active") \in Action /\ Loaded \in [Names -> Action]
      /\ Loaded[n] = NoAction /\ Loaded[n].previous = "none"
  BY <1>1, RequestTypes, RequestCases, LoadedIsStable DEF TypeOK, Kept
<1>3. upload.pc = "save" => place[n] = "upload"
  BY <1>1 DEF PaksInv, UploadInv
<1>4. CASE UNCHANGED <<place, stored, running, byHand>>
  BY <1>4, NothingThere
<1>5. CASE UNCHANGED <<stored, running, byHand>> /\ place[n] = "none"
          /\ place' = [place EXCEPT ![n] = "upload"]
  <2>1. Loaded' = Loaded /\ place'[n] = "upload" /\ \A m \in Names \ {n} : place'[m] = place[m]
    BY <1>1, <1>2, <1>5 DEF Loaded
  <2>2. /\ Now' = [Now EXCEPT ![n] = "waiting"] /\ Planned' = [Planned EXCEPT ![n] = "active"]
        /\ Before' = [Before EXCEPT ![n] = "none"]
    BY <1>1, <1>2, <2>1, OneFile DEF Present, ShownState
  <2>3. Now[n] = "absent" /\ Planned[n] = "absent" /\ Before[n] = "none"
    BY <1>1, <1>2, <1>5, PlanShows DEF Present, ShownState
  <2>4. Before' = Before
    BY <2>2, <2>3 DEF Before
  <2>5. Plan!Uploaded(n)
    BY <1>5, <2>2, <2>3, <2>4 DEF Plan!Uploaded
  <2> QED
    BY <1>1, <2>5 DEF Plan!PlanNext
<1>6. CASE UNCHANGED <<stored, running, byHand>> /\ place[n] = "upload"
          /\ place' = [place EXCEPT ![n] = "none"]
  <2>1. Loaded' = Loaded /\ place'[n] = "none" /\ \A m \in Names \ {n} : place'[m] = place[m]
    BY <1>1, <1>2, <1>6 DEF Loaded
  <2>2. /\ Now' = [Now EXCEPT ![n] = "absent"] /\ Planned' = [Planned EXCEPT ![n] = "absent"]
        /\ Before' = [Before EXCEPT ![n] = "none"]
    BY <1>1, <1>2, <2>1, OneFile DEF Present, ShownState
  <2>3. Now[n] = "waiting" /\ Planned[n] = "active" /\ Before[n] = "none"
    BY <1>1, <1>2, <1>6, PlanShows DEF Present, ShownState
  <2>4. Before' = Before
    BY <2>2, <2>3 DEF Before
  <2>5. Plan!Withdrawn(n)
    BY <1>6, <2>2, <2>3, <2>4 DEF Plan!Withdrawn
  <2> QED
    BY <1>1, <2>5 DEF Plan!PlanNext
<1>7. CASE UNCHANGED <<place, running, byHand>> /\ place[n] = "upload"
          /\ stored' = [Loaded EXCEPT ![n] = To("active")]
  <2>1. ShownState(place[n], To("active")) = "active" /\ To("active").previous = "none"
    BY RequestCases DEF ShownState, Kept
  <2>2. /\ Now' = Now /\ Planned' = [Planned EXCEPT ![n] = "active"]
        /\ Before' = [Before EXCEPT ![n] = "none"]
    BY <1>1, <1>2, <1>7, <2>1, SaveShows
  <2>3. Planned[n] = "active" /\ Before[n] = "none"
    BY <1>1, <1>2, <1>7, PlanShows DEF ShownState
  <2>4. Planned' = Planned /\ Before' = Before
    BY <2>2, <2>3 DEF Planned, Before
  <2> QED
    BY <1>7, <2>2, <2>4
<1>8. UNCHANGED running
  BY DEF UploadStep, UploadLinks, UploadSaves, UploadDies
<1>9. CASE UploadLinks \/ UploadDies
  BY <1>4, <1>5, <1>8, <1>9 DEF UploadLinks, UploadDies
<1>10. CASE UploadSaves
  BY <1>3, <1>6, <1>7, <1>8, <1>10 DEF UploadSaves
<1> QED
  BY <1>9, <1>10 DEF UploadStep

\* So are those of the script.
LEMMA ScriptPlanned ==
    ASSUME PaksInv, PaksInv', ScriptStep
    PROVE  Plan!PlanNext \/ UNCHANGED <<Now, Planned, Before, running, byHand>>
<1>1. TypeOK /\ TypeOK'
  BY DEF PaksInv
<1>2. CASE UNCHANGED <<place, stored, running, byHand>>
  BY <1>2, NothingThere
<1>3. ASSUME UNCHANGED <<place, stored, byHand>>, running' # running
      PROVE  Plan!PlanNext
  BY <1>1, <1>3, NothingThere DEF TypeOK, Plan!PlanNext, Plan!Started, Plan!Ended
<1>4. ASSUME ApplyMoves, NEW n \in apply.todo,
             place' = [place EXCEPT ![n] =
                 IF Requests[n].wants = "delete" THEN "none" ELSE Requests[n].wants]
      PROVE  Plan!PlanNext
  <2>1. apply.pc = "move" /\ apply # NoApply /\ UNCHANGED <<stored, running, byHand>>
    BY <1>4 DEF ApplyMoves, Destination, NoApply
  <2>2. n \in Names /\ ~running /\ Requests[n] # NoAction
    BY <1>1, <1>4, <2>1, ScriptIsAlone DEF TypeOK, Apply, NoApply, PaksInv, ApplyInv
  <2>3. Requests[n] \in Action /\ Loaded[n] \in Action /\ place \in [Names -> Place]
    BY <1>1, <2>2, RequestTypes DEF TypeOK
  <2>4. Loaded' = Loaded /\ \A m \in Names \ {n} : place'[m] = place[m]
    BY <1>4, <2>1, <2>3 DEF Loaded
  <2>5. place'[n] = IF Requests[n].wants = "delete" THEN "none" ELSE Requests[n].wants
    BY <1>4, <2>2, <2>3
  <2>6. Requests[n].wants = "delete" \/ Requests[n].wants \in Kept
    BY <2>2, <2>3, RequestCases
  <2>7. Planned[n] = ShownState(place[n], Loaded[n])
    BY <1>1, <2>2, PlanShows
  <2>8. Present(place'[n]) = Planned[n] /\ ShownState(place'[n], Loaded[n]) = Planned[n]
    <3>1. CASE Requests[n] = Loaded[n]
      BY <2>2, <2>5, <2>6, <2>7, <3>1, RequestCases DEF Present, ShownState, Kept
    <3>2. CASE Requests[n] # Loaded[n]
      <4>1. place[n] = "upload" /\ Loaded[n] = NoAction /\ Requests[n] = To("active")
        BY <2>2, <3>2 DEF Requests
      <4>2. place'[n] = "active"
        BY <2>5, <4>1, RequestCases DEF Kept
      <4> QED
        BY <2>7, <4>1, <4>2 DEF Present, ShownState
    <3> QED
      BY <3>1, <3>2
  <2>9. /\ Now' = [Now EXCEPT ![n] = Planned[n]]
        /\ Planned' = [Planned EXCEPT ![n] = Planned[n]]
        /\ Before' = [Before EXCEPT ![n] = Before[n]]
    BY <1>1, <2>2, <2>4, <2>8, OneFile, PlanShows
  <2>10. Planned' = Planned /\ Before' = Before
    BY <2>9 DEF Planned, Before
  <2>11. Plan!Applied(n)
    BY <2>1, <2>2, <2>9, <2>10 DEF Plan!Applied
  <2> QED
    BY <2>2, <2>11 DEF Plan!PlanNext
<1>5. CASE ApplyClears
  <2>1. /\ apply.pc = "clear" /\ apply.todo = {} /\ UNCHANGED <<place, running, byHand>>
        /\ stored' = [n \in Names |-> NoAction]
    BY <1>5 DEF PaksInv, ApplyInv, ApplyClears
  <2>2. \A n \in Names : Done(n)
    BY <2>1 DEF PaksInv, ApplyInv
  <2>3. \A n \in Names : Loaded'[n] = NoAction
    BY <2>1 DEF Loaded
  <2>4. ASSUME NEW n \in Names
        PROVE  Now[n] = Planned[n] /\ ShownState(place[n], NoAction) = Planned[n]
    <3>1. place[n] \in Place /\ place[n] # "upload" /\ Loaded[n] \in Action
          /\ (Loaded[n] # NoAction => place[n] = Target(n))
      BY <1>1, <2>2, RequestTypes, LoadedIsStable DEF TypeOK, Done
    <3>2. Now[n] = Present(place[n]) /\ Planned[n] = ShownState(place[n], Loaded[n])
      BY <1>1, PlanShows
    <3>3. CASE Loaded[n] = NoAction
      BY <3>1, <3>2, <3>3 DEF Present, ShownState, Place, Places
    <3>4. CASE Loaded[n] # NoAction
      <4>1. Loaded[n].wants = "delete" \/ Loaded[n].wants \in Kept
        BY <3>1, <3>4, RequestCases
      <4> QED
        BY <3>1, <3>2, <3>4, <4>1 DEF Present, ShownState, Target, Kept
    <3> QED
      BY <3>3, <3>4
  <2>5. \A n \in Names : Now'[n] = Now[n] /\ Planned'[n] = Planned[n] /\ Before'[n] = "none"
    BY <1>1, <2>1, <2>3, <2>4, PlanShows, PlanShowsNext, RequestCases
  <2>6. Now' = Now /\ Planned' = Planned /\ Before' = [n \in Names |-> "none"]
    BY <2>5 DEF Now, Planned, Before
  <2>7. Plan!Settled
    BY <2>1, <2>4, <2>6 DEF Plan!Settled
  <2> QED
    BY <2>7 DEF Plan!PlanNext
<1>6. CASE ApplyMoves
  BY <1>2, <1>4, <1>6 DEF ApplyMoves, Destination
<1>7. CASE StartScript \/ ApplyScans \/ Launch \/ ScriptDies \/ Recover \/ ServerEnds
  <2>1. UNCHANGED <<place, stored, byHand>>
    BY <1>7 DEF StartScript, ApplyScans, Launch, ScriptDies, Recover, ServerEnds
  <2> QED
    BY <1>2, <1>3, <2>1
<1> QED
  BY <1>5, <1>6, <1>7 DEF ScriptStep

\* So is what an administrator does.
LEMMA AdministratorPlanned ==
    ASSUME PaksInv, PaksInv', NEW n \in Names, Administrator(n)
    PROVE  Plan!PlanNext
<1>1. PICK p \in Place \ {"upload", place[n]} : place' = [place EXCEPT ![n] = p]
  BY DEF Administrator
<1>2. TypeOK /\ TypeOK' /\ place \in [Names -> Place] /\ UNCHANGED <<stored, running>>
      /\ ~running /\ byHand' = ~byHand
  BY DEF PaksInv, TypeOK, Administrator
<1>3. Loaded' = Loaded /\ place'[n] = p /\ \A m \in Names \ {n} : place'[m] = place[m]
  BY <1>1, <1>2 DEF Loaded
<1>4. Present(p) \in {"absent", "active", "inactive"}
      /\ (Loaded[n] = NoAction => ShownState(p, Loaded[n]) = Present(p))
      /\ (Loaded[n] # NoAction => ShownState(p, Loaded[n]) = Planned[n])
  BY <1>2, PlanShows DEF Present, ShownState, Place, Places
<1>5. /\ Present(p) # Now[n]
      /\ (Loaded[n] = NoAction => Planned[n] = Plan!Stays(Now[n]))
  BY <1>2, PlanShows DEF Present, ShownState, Place, Places, Plan!Stays
<1>6. /\ Now' = [Now EXCEPT ![n] = Present(p)]
      /\ Planned' = [Planned EXCEPT ![n] = ShownState(p, Loaded[n])]
      /\ Before' = [Before EXCEPT ![n] = Before[n]]
  BY <1>2, <1>3, OneFile, PlanShows
<1>7. Before' = Before /\ (Loaded[n] # NoAction => Planned' = Planned)
  BY <1>4, <1>6 DEF Before, Planned
<1>8. Plan!Outside(n)
  BY <1>5, <1>2, <1>4, <1>6, <1>7 DEF Plan!Outside
<1> QED
  BY <1>8 DEF Plan!PlanNext

\* Initial states map to initial states.
LEMMA InitPlanned == Init => Plan!PlanInit
<1> SUFFICES ASSUME Init
             PROVE  Plan!PlanInit
  OBVIOUS
<1>1. TypeOK /\ \A n \in Names : Loaded[n] = NoAction /\ place[n] \in {"none", "active", "inactive"}
  BY InitInv DEF PaksInv, Init, Loaded
<1>2. \A n \in Names : /\ Now[n] \in {"absent", "waiting", "active", "inactive"}
                       /\ Planned[n] \in {"absent", "active", "inactive"}
                       /\ Before[n] \in {"none", "active", "inactive"}
  BY <1>1, PlanShows, RequestCases DEF Present, ShownState
<1>3. /\ Now \in [Names -> {"absent", "waiting", "active", "inactive"}]
      /\ Planned \in [Names -> {"absent", "active", "inactive"}]
      /\ Before \in [Names -> {"none", "active", "inactive"}]
  BY <1>2 DEF Now, Planned, Before
<1> QED
  BY <1>3 DEF Init, Plan!PlanInit

\* Every step maps to a step of the plan or to none.
LEMMA NextPlanned ==
    PaksInv /\ PaksInv' /\ [Next]_vars => [Plan!PlanNext]_(Plan!planVars)
<1> SUFFICES ASSUME PaksInv, PaksInv', [Next]_vars
             PROVE  Plan!PlanNext \/ UNCHANGED <<Now, Planned, Before, running, byHand>>
  BY DEF Plan!planVars
<1>1. CASE UNCHANGED vars
  BY <1>1, NothingThere DEF vars
<1> QED
  BY <1>1, RequestPlanned, UploadPlanned, ScriptPlanned, AdministratorPlanned DEF Next

-----------------------------------------------------------------------------
(* The theorems *)

\* Every reachable state of the panel has the declared types, and one process
\* at most works on the files, for any names and any project packages.
THEOREM PaksTypeCorrect == Spec => []TypeOK
<1>1. PaksInv => TypeOK
  BY DEF PaksInv
<1> QED
  BY <1>1, Invariance, PTL

\* A stored request to keep a file has its file, so that a start does not fail,
\* however uploads, starts and requests interleave and wherever they end
\* (stageCustomPakUploadAt, applyPendingCustomPaksAt).
THEOREM StoredRequestsHaveFiles == Spec => []RequestsHaveFiles
<1>1. PaksInv => RequestsHaveFiles
  BY DEF PaksInv
<1> QED
  BY <1>1, Invariance, PTL

\* A server is launched with every request met, although the application may be
\* cut short between any two files and taken up by a later start
\* (applyPendingCustomPaksAt).
THEOREM LaunchesAreSettled == Spec => []LaunchIsSettled
<1>1. PaksInv => LaunchIsSettled
  BY DEF PaksInv
<1> QED
  BY <1>1, Invariance, PTL

\* The panel implements its promise: whatever requests, uploads, starts, ends and
\* administrators interleave, what it shows for the next start is what that
\* start does, file by file, and a request changes that of its own file only
\* (custompaks.go, the whole of it).
THEOREM PanelFollowsPlan == Spec => FollowsPlan
<1>1. Spec => []PaksInv /\ [][Next]_vars /\ Init
  BY Invariance DEF Spec
<1> QED
  BY <1>1, InitPlanned, NextPlanned, PTL DEF FollowsPlan, Plan!PlanSpec

-----------------------------------------------------------------------------
(* ConfigFiles: what is in the files *)

\* What the generations F of the files show, and what the active ones of them hold.
OnIn(F, f) == IF F[Pending(f)] # NoFile THEN F[Pending(f)] ELSE F[Active(f)]
StoredIn(F) == IF F[Pending("record")] # NoFile THEN F[Pending("record")]
                                                ELSE F[Active("record")]
ShownIn(F) == (UNION {OnIn(F, f) : f \in Files}) \cup StoredIn(F).off
ActiveIn(F) == (UNION {F[Active(f)] : f \in Files}) \cup F[Active("record")].off

\* Nothing of o is lost in F.
Complete(F, o, ex) == o.next \subseteq ShownIn(F) /\ (ex = {} => o.now \subseteq ActiveIn(F))

\* The files after a write.
Put(F, w) == [F EXCEPT ![w.to] = w.content]
IsFiles(F) == F = [path \in Paths |-> F[path]]

Fits(path, c) == IF path[2] = "record" THEN c \in Record ELSE c \subseteq Of(path[2])
KeptAt(path, c) == IF c = NoFile THEN path[1] = "pending" ELSE Fits(path, c)
IsWrite(w) == w.to \in Paths /\ KeptAt(w.to, w.content)
IsOwed(o) ==
    o.now \subseteq Entries /\ o.next \subseteq Entries /\ o = [now |-> o.now, next |-> o.next]

Types ==
    /\ IsFiles(files)
    /\ \A path \in Paths : KeptAt(path, files[path])
    /\ IsOwed(owed)
    /\ found = NoFile \/ (found \in Record /\ web = "starting")
    /\ web \in {"down", "starting", "up"} /\ serverRunning \in BOOLEAN
    /\ exposed \subseteq {"rotation", "discard", "start", "script"}

\* The writes of a job: one, the first or the second of two.
OneWrite == job.done = <<>> /\ job.steps = <<job.steps[1]>> /\ IsWrite(job.steps[1])
TwoWrites ==
    /\ job.done = <<>> /\ job.steps = <<job.steps[1], job.steps[2]>>
    /\ IsWrite(job.steps[1]) /\ IsWrite(job.steps[2])
SecondWrite ==
    /\ job.done = <<job.done[1]>> /\ job.steps = <<job.steps[1]>>
    /\ IsWrite(job.done[1]) /\ IsWrite(job.steps[1])

\* How far a discard is: n files are removed.
Removed(n) ==
    CASE n = 0 -> /\ job.done = <<>>
                  /\ job.steps = <<Removal("Game.ini"), Removal("Engine.ini"), Removal("record")>>
      [] n = 1 -> /\ job.done = <<job.done[1]>>
                  /\ job.steps = <<Removal("Engine.ini"), Removal("record")>>
      [] n = 2 -> /\ job.done = <<job.done[1], job.done[2]>>
                  /\ job.steps = <<Removal("record")>>

\* How far a script is: n files are moved.
Moved(n) ==
    CASE n = 0 -> job.done = <<>> /\ job.steps = <<"Game.ini", "Engine.ini", "record">>
      [] n = 1 -> job.done = <<"Game.ini">> /\ job.steps = <<"Engine.ini", "record">>
      [] n = 2 -> job.done = <<"Game.ini", "Engine.ini">> /\ job.steps = <<"record">>
      [] n = 3 -> job.done = <<"Game.ini", "Engine.ini", "record">> /\ job.steps = <<>>

JobTypes ==
    /\ job = [kind |-> job.kind, steps |-> job.steps, done |-> job.done, adds |-> job.adds]
    /\ job.kind \in OfManager \cup {"none", "script"}
    /\ job.kind = "none" => job = NoJob
    /\ job.kind \in OfManager => web = "up" /\ IsOwed(job.adds)
    /\ job.kind \in {"edit", "rotation"} => OneWrite \/ TwoWrites \/ SecondWrite
    /\ job.kind = "discard" => job.adds = Nothing /\ (Removed(0) \/ Removed(1) \/ Removed(2))
    /\ job.kind = "script" => Moved(0) \/ Moved(1) \/ Moved(2) \/ Moved(3)

-----------------------------------------------------------------------------

\* Short sequences.
LEMMA Pair ==
    ASSUME NEW x, NEW y
    PROVE  <<x>> \o <<y>> = <<x, y>> /\ Append(<<x>>, y) = <<x, y>>
<1> DEFINE S == {x, y}
           s == <<x>> \o <<y>>
           t == <<x, y>>
<1>1. <<x>> \in Seq(S) /\ <<y>> \in Seq(S) /\ t \in Seq(S)
  OBVIOUS
<1>2. s \in Seq(S) /\ Len(s) = 2 /\ Len(t) = 2
  BY <1>1
<1>3. s[1] = x /\ s[2] = y /\ t[1] = x /\ t[2] = y
  BY <1>1
<1>4. Append(<<x>>, y) = s
  BY <1>1, AppendIsConcat
<1> HIDE DEF s, t, S
<1>5. \A i \in 1 .. Len(s) : s[i] = t[i]
  BY <1>2, <1>3
<1>6. s = t
  BY <1>1, <1>2, <1>5, SeqEqual
<1> QED
  BY <1>4, <1>6 DEF s, t

\* Sequences of one, two and three elements, as the jobs have them.
LEMMA Triple ==
    ASSUME NEW x, NEW y, NEW z
    PROVE  Append(<<x, y>>, z) = <<x, y, z>>
<1> DEFINE S == {x, y, z}
           s == Append(<<x, y>>, z)
           t == <<x, y, z>>
<1>1. <<x, y>> \in Seq(S) /\ t \in Seq(S)
  OBVIOUS
<1>2. s \in Seq(S) /\ Len(s) = 3 /\ Len(t) = 3
  BY <1>1
<1>3. s[1] = x /\ s[2] = y /\ s[3] = z /\ t[1] = x /\ t[2] = y /\ t[3] = z
  BY <1>1
<1> HIDE DEF s, t, S
<1>4. \A i \in 1 .. Len(s) : s[i] = t[i]
  BY <1>2, <1>3
<1>5. s = t
  BY <1>1, <1>2, <1>4, SeqEqual
<1> QED
  BY <1>5 DEF s, t

\* Their heads and tails.
LEMMA Steps ==
    /\ \A x : Head(<<x>>) = x /\ Tail(<<x>>) = <<>> /\ Append(<<>>, x) = <<x>> /\ Len(<<x>>) = 1
    /\ \A x, y : Head(<<x, y>>) = x /\ Tail(<<x, y>>) = <<y>> /\ Len(<<x, y>>) = 2
    /\ \A x, y, z : Head(<<x, y, z>>) = x /\ Tail(<<x, y, z>>) = <<y, z>> /\ Len(<<x, y, z>>) = 3
<1>1. \A x : Head(<<x>>) = x /\ Tail(<<x>>) = <<>> /\ Append(<<>>, x) = <<x>> /\ Len(<<x>>) = 1
  OBVIOUS
<1>2. \A x, y : Head(<<x, y>>) = x /\ Tail(<<x, y>>) = <<y>> /\ Len(<<x, y>>) = 2
  OBVIOUS
<1>3. \A x, y, z :
          Head(<<x, y, z>>) = x /\ Tail(<<x, y, z>>) = <<y, z>> /\ Len(<<x, y, z>>) = 3
  OBVIOUS
<1> QED
  BY <1>1, <1>2, <1>3

\* The paths of the six files differ.
LEMMA PathCases ==
    /\ \A name \in Parts : Active(name) \in Paths /\ Pending(name) \in Paths
    /\ \A n, m \in Parts : Active(n) # Pending(m)
    /\ \A n, m \in Parts : n # m => Active(n) # Active(m) /\ Pending(n) # Pending(m)
    /\ \A n \in Parts : Active(n)[2] = n /\ Pending(n)[2] = n
    /\ \A n \in Parts : Active(n)[1] = "active" /\ Pending(n)[1] = "pending"
    /\ \A path \in Paths : path[1] = "active" => path[2] \in Parts /\ path = Active(path[2])
    /\ \A path \in Paths : path[2] \in Parts
    /\ Files \subseteq Parts /\ "record" \in Parts /\ "record" \notin Files
<1>1. Files \subseteq Parts /\ "record" \in Parts /\ "record" \notin Files
  BY DEF Files, Parts
<1>2. \A name \in Parts : Active(name) \in Paths /\ Pending(name) \in Paths
  BY DEF Active, Pending, Paths
<1>3. \A n, m \in Parts : Active(n) # Pending(m)
  BY DEF Active, Pending
<1>4. \A n, m \in Parts : n # m => Active(n) # Active(m) /\ Pending(n) # Pending(m)
  BY DEF Active, Pending
<1>5. \A n \in Parts : /\ Active(n)[2] = n /\ Pending(n)[2] = n
                        /\ Active(n)[1] = "active" /\ Pending(n)[1] = "pending"
  BY DEF Active, Pending
<1>6. \A path \in Paths : path[2] \in Parts
  BY DEF Paths
<1>7. \A path \in Paths : path[1] = "active" => path = Active(path[2])
  BY DEF Paths, Active
<1> QED
  BY <1>1, <1>2, <1>3, <1>4, <1>5, <1>6, <1>7

\* The views are those of the module.
LEMMA Views ==
    /\ \A f \in Files : On(f) = OnIn(files, f)
    /\ Stored = StoredIn(files)
BY DEF On, OnIn, Stored, StoredIn, Exists

\* What is shown, and what is active, entry by entry.
LEMMA InView ==
    ASSUME NEW F, NEW x
    PROVE  /\ x \in ShownIn(F) <=> (\E f \in Files : x \in OnIn(F, f)) \/ x \in StoredIn(F).off
           /\ x \in ActiveIn(F) <=> (\E f \in Files : x \in F[Active(f)])
                                        \/ x \in F[Active("record")].off
<1> DEFINE shown == UNION {OnIn(F, f) : f \in Files}
           active == UNION {F[Active(f)] : f \in Files}
<1>1. x \in shown <=> \E f \in Files : x \in OnIn(F, f)
  OBVIOUS
<1>2. x \in active <=> \E f \in Files : x \in F[Active(f)]
  OBVIOUS
<1>3. ShownIn(F) = shown \cup StoredIn(F).off
  BY DEF ShownIn
<1>4. ActiveIn(F) = active \cup F[Active("record")].off
  BY DEF ActiveIn
<1> HIDE DEF shown, active
<1> QED
  BY <1>1, <1>2, <1>3, <1>4

\* A file holds entries of its own, the record a record.
LEMMA ViewTypes ==
    ASSUME Types
    PROVE  /\ \A f \in Files : OnIn(files, f) \subseteq Of(f) /\ files[Active(f)] \subseteq Of(f)
           /\ StoredIn(files) \in Record /\ files[Active("record")] \in Record
           /\ \A f \in Files : Of(f) \subseteq Entries
<1>1. \A name \in Parts :
          /\ files[Active(name)] # NoFile /\ Fits(Active(name), files[Active(name)])
          /\ files[Pending(name)] # NoFile => Fits(Pending(name), files[Pending(name)])
  BY PathCases DEF Types, KeptAt
<1>2. ASSUME NEW f \in Files
      PROVE  OnIn(files, f) \subseteq Of(f) /\ files[Active(f)] \subseteq Of(f)
  <2>1. f \in Parts /\ f # "record" /\ Active(f)[2] = f /\ Pending(f)[2] = f
    BY PathCases
  <2> QED
    BY <1>1, <2>1 DEF Fits, OnIn
<1>3. StoredIn(files) \in Record /\ files[Active("record")] \in Record
  <2>1. "record" \in Parts /\ Active("record")[2] = "record" /\ Pending("record")[2] = "record"
    BY PathCases
  <2> QED
    BY <1>1, <2>1 DEF Fits, StoredIn
<1>4. \A f \in Files : Of(f) \subseteq Entries
  BY DEF Of, Entries
<1> QED
  BY <1>2, <1>3, <1>4

\* A write changes the file it is for.
LEMMA PutAt ==
    ASSUME NEW F, IsFiles(F), NEW to \in Paths, NEW c
    PROVE  /\ IsFiles(Put(F, [to |-> to, content |-> c]))
           /\ \A path \in Paths : Put(F, [to |-> to, content |-> c])[path] =
                  IF path = to THEN c ELSE F[path]
<1> DEFINE G == [F EXCEPT ![to] = c]
<1>1. Put(F, [to |-> to, content |-> c]) = G
  BY DEF Put
<1>2. G = [path \in Paths |-> IF path = to THEN c ELSE F[path]]
  BY DEF IsFiles
<1>3. \A path \in Paths : G[path] = IF path = to THEN c ELSE F[path]
  BY <1>2
<1>4. G = [path \in Paths |-> G[path]]
  BY <1>2, <1>3
<1> QED
  BY <1>1, <1>3, <1>4 DEF IsFiles

\* A write of a file, to the generation that edits go to.
LEMMA PutConfig ==
    ASSUME NEW F, IsFiles(F), NEW f \in Files, NEW staged \in BOOLEAN,
           ~staged => F[Pending(f)] = NoFile, NEW c, c # NoFile, NEW G,
           G = Put(F, [to |-> IF staged THEN Pending(f) ELSE Active(f), content |-> c])
    PROVE  /\ IsFiles(G)
           /\ OnIn(G, f) = c /\ StoredIn(G) = StoredIn(F)
           /\ \A g \in Files \ {f} : OnIn(G, g) = OnIn(F, g) /\ G[Active(g)] = F[Active(g)]
           /\ G[Active(f)] = IF staged THEN F[Active(f)] ELSE c
           /\ G[Active("record")] = F[Active("record")]
           /\ \A n \in Parts \ {f} : G[Pending(n)] = F[Pending(n)]
<1> DEFINE to == IF staged THEN Pending(f) ELSE Active(f)
<1>1. f \in Parts /\ to \in Paths
  BY PathCases
<1>2. IsFiles(G) /\ \A path \in Paths : G[path] = IF path = to THEN c ELSE F[path]
  BY <1>1, PutAt
<1> HIDE DEF to
<1>3. \A n \in Parts : G[Active(n)] = (IF Active(n) = to THEN c ELSE F[Active(n)])
                       /\ G[Pending(n)] = (IF Pending(n) = to THEN c ELSE F[Pending(n)])
  BY <1>2, PathCases
<1>4. \A n \in Parts \ {f} : G[Active(n)] = F[Active(n)] /\ G[Pending(n)] = F[Pending(n)]
  BY <1>1, <1>3, PathCases DEF to
<1>5. G[Active(f)] = (IF staged THEN F[Active(f)] ELSE c)
      /\ G[Pending(f)] = IF staged THEN c ELSE F[Pending(f)]
  BY <1>1, <1>3, PathCases DEF to
<1>6. OnIn(G, f) = c
  BY <1>5 DEF OnIn
<1>7. StoredIn(G) = StoredIn(F)
  BY <1>4, PathCases DEF StoredIn
<1>8. \A g \in Files \ {f} : OnIn(G, g) = OnIn(F, g) /\ G[Active(g)] = F[Active(g)]
  BY <1>4, PathCases DEF OnIn
<1> QED
  BY <1>2, <1>4, <1>5, <1>6, <1>7, <1>8, PathCases

\* A write of the record.
LEMMA PutRecord ==
    ASSUME NEW F, IsFiles(F), NEW staged \in BOOLEAN,
           ~staged => F[Pending("record")] = NoFile, NEW c, c # NoFile, NEW G,
           G = Put(F, [to |-> IF staged THEN Pending("record") ELSE Active("record"),
                       content |-> c])
    PROVE  /\ IsFiles(G)
           /\ StoredIn(G) = c
           /\ \A g \in Files : OnIn(G, g) = OnIn(F, g) /\ G[Active(g)] = F[Active(g)]
           /\ G[Active("record")] = IF staged THEN F[Active("record")] ELSE c
           /\ \A n \in Files : G[Pending(n)] = F[Pending(n)]
<1> DEFINE to == IF staged THEN Pending("record") ELSE Active("record")
<1>1. to \in Paths
  BY PathCases
<1>2. IsFiles(G) /\ \A path \in Paths : G[path] = IF path = to THEN c ELSE F[path]
  BY <1>1, PutAt
<1> HIDE DEF to
<1>3. \A n \in Parts : G[Active(n)] = (IF Active(n) = to THEN c ELSE F[Active(n)])
                       /\ G[Pending(n)] = (IF Pending(n) = to THEN c ELSE F[Pending(n)])
  BY <1>2, PathCases
<1>4. \A n \in Files : G[Active(n)] = F[Active(n)] /\ G[Pending(n)] = F[Pending(n)]
  BY <1>1, <1>3, PathCases DEF to
<1>5. G[Active("record")] = (IF staged THEN F[Active("record")] ELSE c)
      /\ G[Pending("record")] = IF staged THEN c ELSE F[Pending("record")]
  BY <1>1, <1>3, PathCases DEF to
<1>6. StoredIn(G) = c
  BY <1>5 DEF StoredIn
<1>8. \A g \in Files : OnIn(G, g) = OnIn(F, g)
  BY <1>4 DEF OnIn
<1> QED
  BY <1>2, <1>4, <1>5, <1>6, <1>8

-----------------------------------------------------------------------------
(* The edits *)

\* What an edit makes of a file and the record.
IsResult(f, r) == r.on \subseteq Of(f) /\ r.record \in Record
\* It disables entries of this file only, or enables them.
KeepsOthers(f, r) == Stored.off \ Of(f) \subseteq r.record.off
\* No entry goes from the file to the record, none from the record to the file.
NoneSinks(f, r) == On(f) \cap r.record.off \subseteq r.on \cup Stored.off
NoneRises(f, r) == r.on \cap Stored.off \subseteq On(f) \cup r.record.off
\* An entry that moves is first written where it goes to.
Ordered(f, r) == IF ConfigFirst(r) THEN NoneSinks(f, r) ELSE NoneRises(f, r)
Good(f, r) == IsResult(f, r) /\ KeepsOthers(f, r) /\ Ordered(f, r)

\* Disabled entries and sections are finite sets.
LEMMA RecordTypes ==
    ASSUME Types, NEW f \in Files
    PROVE  /\ On(f) \subseteq Of(f) /\ Of(f) \subseteq Entries
           /\ Stored \in Record /\ Stored.off \subseteq Entries /\ Stored.sections \subseteq Files
           /\ IsFiniteSet(Stored.off) /\ IsFiniteSet(Stored.sections)
           /\ IsFiniteSet(Entries) /\ IsFiniteSet(Files)
<1>1. On(f) \subseteq Of(f) /\ Of(f) \subseteq Entries /\ Stored \in Record
  BY ViewTypes, Views
<1>2. Stored.off \subseteq Entries /\ Stored.sections \subseteq Files
  BY <1>1 DEF Record
<1>3. IsFiniteSet(Entries)
  BY EntriesAssumption, FS_Union DEF Entries
<1>4. IsFiniteSet(Files)
  <2>1. IsFiniteSet({}) /\ IsFiniteSet({} \cup {"Game.ini"})
    BY FS_EmptySet, FS_AddElement
  <2>2. IsFiniteSet(({} \cup {"Game.ini"}) \cup {"Engine.ini"})
    BY <2>1, FS_AddElement
  <2> QED
    BY <2>2 DEF Files
<1> QED
  BY <1>1, <1>2, <1>3, <1>4, FS_Subset

\* An edit that moves nothing is safe in either order.
LEMMA MovesNothing ==
    ASSUME NEW f, NEW r, NoneSinks(f, r), NoneRises(f, r)
    PROVE  Ordered(f, r)
BY DEF Ordered

\* An entry takes the place of another, in the file or in the record.
LEMMA SetEntryGood ==
    ASSUME Types, NEW f \in Files, NEW r \in SetEntry(f)
    PROVE  Good(f, r)
<1> USE RecordTypes
<1> DEFINE new == Of(f) \ Shown(f)
<1>1. CASE r \in {Result((On(f) \ {e}) \cup {x}, Stored.off, Stored.sections)
                     : e \in On(f), x \in new}
  <2>1. PICK e \in On(f), x \in new :
            r = Result((On(f) \ {e}) \cup {x}, Stored.off, Stored.sections)
    BY <1>1
  <2>2. IsResult(f, r) /\ r.on = (On(f) \ {e}) \cup {x} /\ r.record.off = Stored.off
    BY <2>1 DEF Result, IsResult, Record
  <2>3. KeepsOthers(f, r) /\ NoneSinks(f, r) /\ NoneRises(f, r)
    BY <2>2 DEF KeepsOthers, NoneSinks, NoneRises
  <2> QED
    BY <2>2, <2>3, MovesNothing DEF Good
<1>2. CASE r \in {Result(On(f), (Stored.off \ {e}) \cup {x}, Stored.sections)
                     : e \in Stored.off \cap Of(f), x \in new}
  <2>1. PICK e \in Stored.off \cap Of(f), x \in new :
            r = Result(On(f), (Stored.off \ {e}) \cup {x}, Stored.sections)
    BY <1>2
  <2>2. IsResult(f, r) /\ r.on = On(f) /\ r.record.off = (Stored.off \ {e}) \cup {x}
    BY <2>1 DEF Result, IsResult, Record
  <2>3. KeepsOthers(f, r) /\ NoneSinks(f, r) /\ NoneRises(f, r)
    BY <2>2 DEF KeepsOthers, NoneSinks, NoneRises, Shown
  <2> QED
    BY <2>2, <2>3, MovesNothing DEF Good
<1> QED
  BY <1>1, <1>2 DEF SetEntry

\* The file is written first: the record shrinks.
LEMMA EnableEntryGood ==
    ASSUME Types, NEW f \in Files, NEW r \in EnableEntry(f)
    PROVE  Good(f, r)
<1> USE RecordTypes
<1>1. PICK e \in (Stored.off \cap Of(f)) \ On(f) :
          r = Result(On(f) \cup {e}, Stored.off \ {e}, Stored.sections \ {f})
  BY DEF EnableEntry
<1>2. IsResult(f, r) /\ r.on = On(f) \cup {e} /\ r.record.off = Stored.off \ {e}
  BY <1>1 DEF Result, IsResult, Record
<1>3. KeepsOthers(f, r) /\ NoneSinks(f, r)
  BY <1>2 DEF KeepsOthers, NoneSinks
<1>4. Cardinality(r.record.off) = Cardinality(Stored.off) - 1 /\ Cardinality(Stored.off) \in Nat
  BY <1>2, FS_RemoveElement, FS_CardinalityType
<1>5. ConfigFirst(r)
  BY <1>4 DEF ConfigFirst
<1> QED
  BY <1>2, <1>3, <1>5 DEF Good, Ordered

\* A record that grows, or has one section less by nothing, is written first.
LEMMA RecordFirst ==
    ASSUME Types, NEW f \in Files, NEW r, r.record \in Record,
           Stored.off \subseteq r.record.off, Stored.sections \subseteq r.record.sections
    PROVE  ~ConfigFirst(r)
<1> USE RecordTypes
<1>1. IsFiniteSet(r.record.off) /\ IsFiniteSet(r.record.sections)
  BY FS_Subset DEF Record
<1>2. Cardinality(Stored.off) <= Cardinality(r.record.off)
      /\ Cardinality(r.record.off) \in Nat /\ Cardinality(Stored.off) \in Nat
  BY <1>1, FS_Subset, FS_CardinalityType
<1>3. Cardinality(Stored.sections) <= Cardinality(r.record.sections)
      /\ Cardinality(r.record.sections) \in Nat /\ Cardinality(Stored.sections) \in Nat
  BY <1>1, FS_Subset, FS_CardinalityType
<1> QED
  BY <1>2, <1>3 DEF ConfigFirst

\* An entry moves to the record: the record first.
LEMMA DisableEntryGood ==
    ASSUME Types, NEW f \in Files, NEW r \in DisableEntry(f)
    PROVE  Good(f, r)
<1> USE RecordTypes
<1>1. PICK e \in On(f) \ Stored.off :
          r = Result(On(f) \ {e}, Stored.off \cup {e}, Stored.sections)
  BY DEF DisableEntry
<1>2. IsResult(f, r) /\ r.on = On(f) \ {e} /\ r.record.off = Stored.off \cup {e}
      /\ r.record.sections = Stored.sections
  BY <1>1 DEF Result, IsResult, Record
<1>3. KeepsOthers(f, r) /\ NoneRises(f, r)
  BY <1>2 DEF KeepsOthers, NoneRises
<1>4. ~ConfigFirst(r)
  BY <1>2, RecordFirst DEF IsResult
<1> QED
  BY <1>2, <1>3, <1>4 DEF Good, Ordered

\* An entry goes, from the file or from the record.
LEMMA RemoveEntryGood ==
    ASSUME Types, NEW f \in Files, NEW r \in RemoveEntry(f)
    PROVE  Good(f, r)
<1> USE RecordTypes
<1>1. CASE r \in {Result(On(f) \ {e}, Stored.off, Stored.sections) : e \in On(f)}
  <2>1. PICK e \in On(f) : r = Result(On(f) \ {e}, Stored.off, Stored.sections)
    BY <1>1
  <2>2. IsResult(f, r) /\ r.on = On(f) \ {e} /\ r.record.off = Stored.off
    BY <2>1 DEF Result, IsResult, Record
  <2>3. KeepsOthers(f, r) /\ NoneSinks(f, r) /\ NoneRises(f, r)
    BY <2>2 DEF KeepsOthers, NoneSinks, NoneRises
  <2> QED
    BY <2>2, <2>3, MovesNothing DEF Good
<1>2. CASE r \in {Result(On(f), Stored.off \ {e}, Stored.sections) : e \in Stored.off \cap Of(f)}
  <2>1. PICK e \in Stored.off \cap Of(f) : r = Result(On(f), Stored.off \ {e}, Stored.sections)
    BY <1>2
  <2>2. IsResult(f, r) /\ r.on = On(f) /\ r.record.off = Stored.off \ {e}
    BY <2>1 DEF Result, IsResult, Record
  <2>3. KeepsOthers(f, r) /\ NoneSinks(f, r) /\ NoneRises(f, r)
    BY <2>2 DEF KeepsOthers, NoneSinks, NoneRises
  <2> QED
    BY <2>2, <2>3, MovesNothing DEF Good
<1> QED
  BY <1>1, <1>2 DEF RemoveEntry

\* A new entry goes to the file, or to the record if its section is disabled.
LEMMA AddEntryGood ==
    ASSUME Types, NEW f \in Files, NEW r \in AddEntry(f)
    PROVE  Good(f, r)
<1> USE RecordTypes
<1>1. PICK e \in Of(f) \ Shown(f) :
          r = IF f \in Stored.sections THEN Result(On(f), Stored.off \cup {e}, Stored.sections)
                                       ELSE Result(On(f) \cup {e}, Stored.off, Stored.sections)
  BY DEF AddEntry
<1>2. e \notin On(f) /\ e \notin Stored.off
  BY <1>1 DEF Shown
<1>3. IsResult(f, r) /\ \/ r.on = On(f) /\ r.record.off = Stored.off \cup {e}
                        \/ r.on = On(f) \cup {e} /\ r.record.off = Stored.off
  BY <1>1 DEF Result, IsResult, Record
<1>4. KeepsOthers(f, r) /\ NoneSinks(f, r) /\ NoneRises(f, r)
  BY <1>2, <1>3 DEF KeepsOthers, NoneSinks, NoneRises
<1> QED
  BY <1>3, <1>4, MovesNothing DEF Good

\* All entries move: to the record, which is written first, or from it.
LEMMA SetSectionEnabledGood ==
    ASSUME Types, NEW f \in Files, NEW r \in SetSectionEnabled(f)
    PROVE  Good(f, r)
<1> USE RecordTypes
<1>1. CASE f \in Stored.sections
  <2>1. r = Result(Shown(f), Stored.off \ Of(f), Stored.sections \ {f})
    BY <1>1 DEF SetSectionEnabled
  <2>2. IsResult(f, r) /\ r.on = Shown(f) /\ r.record.off = Stored.off \ Of(f)
        /\ r.record.sections = Stored.sections \ {f}
    <3>1. Shown(f) \subseteq Of(f) /\ Stored.sections \ {f} \subseteq Files
      BY DEF Shown
    <3> QED
      BY <2>1, <3>1 DEF Result, IsResult, Record
  <2>3. KeepsOthers(f, r) /\ NoneSinks(f, r)
    BY <2>2 DEF KeepsOthers, NoneSinks
  <2>4. Cardinality(r.record.sections) = Cardinality(Stored.sections) - 1
        /\ Cardinality(Stored.sections) \in Nat
    BY <1>1, <2>2, FS_RemoveElement, FS_CardinalityType
  <2>5. ConfigFirst(r)
    BY <2>4 DEF ConfigFirst
  <2> QED
    BY <2>2, <2>3, <2>5 DEF Good, Ordered
<1>2. CASE f \notin Stored.sections
  <2>1. r = Result({}, Stored.off \cup On(f), Stored.sections \cup {f})
    BY <1>2 DEF SetSectionEnabled
  <2>2. IsResult(f, r) /\ r.on = {} /\ r.record.off = Stored.off \cup On(f)
        /\ r.record.sections = Stored.sections \cup {f}
    <3>1. Stored.off \cup On(f) \subseteq Entries /\ Stored.sections \cup {f} \subseteq Files
      OBVIOUS
    <3> QED
      BY <2>1, <3>1 DEF Result, IsResult, Record
  <2>3. KeepsOthers(f, r) /\ NoneRises(f, r)
    BY <2>2 DEF KeepsOthers, NoneRises
  <2>4. ~ConfigFirst(r)
    BY <2>2, RecordFirst DEF IsResult
  <2> QED
    BY <2>2, <2>3, <2>4 DEF Good, Ordered
<1> QED
  BY <1>1, <1>2

\* All entries go, from the file and from the record.
LEMMA RemoveSectionGood ==
    ASSUME Types, NEW f \in Files, NEW r \in RemoveSection(f)
    PROVE  Good(f, r)
<1> USE RecordTypes
<1>1. r = Result({}, Stored.off \ Of(f), Stored.sections \ {f})
  BY DEF RemoveSection
<1>2. IsResult(f, r) /\ r.on = {} /\ r.record.off = Stored.off \ Of(f)
  <2>1. Stored.off \ Of(f) \subseteq Entries /\ Stored.sections \ {f} \subseteq Files
    OBVIOUS
  <2> QED
    BY <1>1, <2>1 DEF Result, IsResult, Record
<1>3. KeepsOthers(f, r) /\ NoneSinks(f, r) /\ NoneRises(f, r)
  BY <1>2 DEF KeepsOthers, NoneSinks, NoneRises
<1> QED
  BY <1>2, <1>3, MovesNothing DEF Good

\* Entries become as many others, where they are.
LEMMA RenameSectionGood ==
    ASSUME Types, NEW f \in Files, NEW r \in RenameSection(f)
    PROVE  Good(f, r)
<1> USE RecordTypes
<1> DEFINE new == Of(f) \ Shown(f)
           as(entries) == kSubset(Cardinality(entries), new)
           ons == as(On(f))
           offs == as(Stored.off \cap Of(f))
           result(x, y) == Result(x, (Stored.off \ Of(f)) \cup y, Stored.sections)
<1>1. RenameSection(f) = {result(x, y) : x \in ons, y \in offs}
  BY DEF RenameSection
<1>7. ons \subseteq SUBSET new /\ offs \subseteq SUBSET new
  BY DEF kSubset
<1> HIDE DEF ons, offs, as, result
<1>8. PICK x \in ons, y \in offs : r = result(x, y)
  BY <1>1
<1>2. x \subseteq new /\ y \subseteq new
  BY <1>7
<1>3. new \subseteq Of(f) /\ new \cap On(f) = {} /\ new \cap Stored.off = {}
  BY DEF Shown
<1> HIDE DEF new
<1>4. x \subseteq Of(f) /\ (Stored.off \ Of(f)) \cup y \subseteq Entries
  BY <1>2, <1>3
<1>5. IsResult(f, r) /\ r.on = x /\ r.record.off = (Stored.off \ Of(f)) \cup y
  BY <1>8, <1>4 DEF result, Result, IsResult, Record
<1>6. KeepsOthers(f, r) /\ NoneSinks(f, r) /\ NoneRises(f, r)
  BY <1>2, <1>3, <1>5 DEF KeepsOthers, NoneSinks, NoneRises
<1> QED
  BY <1>5, <1>6, MovesNothing DEF Good

\* What every edit keeps.
LEMMA EditsGood ==
    ASSUME Types, NEW f \in Files, NEW r \in Edits(f)
    PROVE  Good(f, r)
BY SetEntryGood, EnableEntryGood, DisableEntryGood, RemoveEntryGood, AddEntryGood,
   SetSectionEnabledGood, RemoveSectionGood, RenameSectionGood DEF Edits

\* A rotation leaves the entries that are no maps of it.
LEMMA RotationGood ==
    ASSUME Types, NEW r \in Rotations
    PROVE  IsResult("Game.ini", r) /\ KeepsOthers("Game.ini", r)
<1>1. "Game.ini" \in Files /\ Of("Game.ini") = Game /\ Rotation \subseteq Game
  BY EntriesAssumption DEF Files, Of
<1> USE RecordTypes
<1> DEFINE maps == IF "Game.ini" \in Stored.sections THEN {{}} ELSE SUBSET Rotation
           any == SUBSET Rotation
<1>5. \A on \in maps : on \subseteq Rotation
  OBVIOUS
<1>6. Rotations = {Result((On("Game.ini") \ Rotation) \cup on, (Stored.off \ Rotation) \cup off,
                          Stored.sections) : on \in maps, off \in any}
  BY DEF Rotations
<1>7. \A off \in any : off \subseteq Rotation
  OBVIOUS
<1> HIDE DEF maps, any
<1>2. PICK on \in maps, off \in any :
          r = Result((On("Game.ini") \ Rotation) \cup on, (Stored.off \ Rotation) \cup off,
                     Stored.sections)
  BY <1>6
<1>3. /\ (On("Game.ini") \ Rotation) \cup on \subseteq Of("Game.ini")
      /\ (Stored.off \ Rotation) \cup off \subseteq Entries
      /\ Stored.sections \subseteq Files
  BY <1>1, <1>5, <1>7
<1>4. IsResult("Game.ini", r) /\ r.record.off = (Stored.off \ Rotation) \cup off
  BY <1>2, <1>3 DEF Result, IsResult, Record
<1> QED
  BY <1>1, <1>4 DEF KeepsOthers

-----------------------------------------------------------------------------
(* The writes of an edit *)

\* G differs from F in the content c of a file, or of the record, in the
\* generation that is edited.
SameFile(F, G, g) == OnIn(G, g) = OnIn(F, g) /\ G[Active(g)] = F[Active(g)]
SameRecord(F, G) == StoredIn(G) = StoredIn(F) /\ G[Active("record")] = F[Active("record")]
NewFile(F, G, f, c, staged) ==
    /\ OnIn(G, f) = c /\ G[Active(f)] = IF staged THEN F[Active(f)] ELSE c
    /\ \A g \in Files \ {f} : SameFile(F, G, g)
NewRecord(F, G, c, staged) ==
    StoredIn(G) = c /\ G[Active("record")] = IF staged THEN F[Active("record")] ELSE c

\* What an edit of f to r takes from what is owed, and adds when it has succeeded.
ShownBy(f, r) == r.on \cup (r.record.off \cap Of(f))
Less(f, r) ==
    LET gone == Generations(f, Shown(f) \ ShownBy(f, r)) IN
    [now |-> owed.now \ gone.now, next |-> owed.next \ gone.next]
More(f, r) ==
    LET adds == Generations(f, ShownBy(f, r) \ Shown(f)) IN
    [now |-> Less(f, r).now \cup adds.now, next |-> Less(f, r).next \cup adds.next]

\* An edit that is not staged reads the active generation.
LEMMA NotStaged ==
    ASSUME NEW f \in Files, ~Staged(f)
    PROVE  /\ files[Pending(f)] = NoFile /\ files[Pending("record")] = NoFile
           /\ On(f) = files[Active(f)] /\ Stored = files[Active("record")]
BY DEF Staged, Exists, On, Stored

\* What is owed is less by what the edit takes away.
LEMMA LessOwed ==
    ASSUME NEW f \in Files, NEW r
    PROVE  /\ \A x : x \in Less(f, r).next <=>
                 x \in owed.next /\ ~(x \in Shown(f) /\ x \notin ShownBy(f, r))
           /\ Staged(f) => Less(f, r).now = owed.now
           /\ ~Staged(f) => \A x : x \in Less(f, r).now <=>
                 x \in owed.now /\ ~(x \in Shown(f) /\ x \notin ShownBy(f, r))
BY DEF Less, Generations

\* What is owed after the edit is what was owed less and what the edit shows.
LEMMA MoreOwed ==
    ASSUME NEW f \in Files, NEW r
    PROVE  /\ \A x : x \in More(f, r).next => x \in Less(f, r).next \/ x \in ShownBy(f, r)
           /\ Staged(f) => More(f, r).now = Less(f, r).now
           /\ ~Staged(f) => \A x : x \in More(f, r).now =>
                 x \in Less(f, r).now \/ x \in ShownBy(f, r)
BY DEF More, Generations

\* The edit is complete when what it shows is shown, and nothing else has changed.
LEMMA EditComplete ==
    ASSUME Types, NEW f \in Files, NEW r, NEW G, NEW o, Complete(files, owed, exposed),
           \A x : x \in o.next =>
               \/ x \in OnIn(G, f) \/ x \in StoredIn(G).off
               \/ x \in owed.next /\ x \notin Shown(f),
           \A g \in Files \ {f} : SameFile(files, G, g),
           Stored.off \ Of(f) \subseteq StoredIn(G).off,
           \/ /\ o.now \subseteq owed.now /\ G[Active(f)] = files[Active(f)]
              /\ G[Active("record")] = files[Active("record")]
           \/ /\ ~Staged(f) /\ G[Active(f)] = OnIn(G, f) /\ G[Active("record")] = StoredIn(G)
              /\ \A x : x \in o.now =>
                     \/ x \in OnIn(G, f) \/ x \in StoredIn(G).off
                     \/ x \in owed.now /\ x \notin Shown(f)
    PROVE  Complete(G, o, exposed)
<1>1. ASSUME NEW x \in o.next PROVE x \in ShownIn(G)
  <2>1. CASE x \in OnIn(G, f) \/ x \in StoredIn(G).off
    BY <2>1, InView
  <2>2. CASE x \in owed.next /\ x \notin Shown(f)
    <3>1. x \in ShownIn(files)
      BY <2>2 DEF Complete
    <3>2. x \notin OnIn(files, f) /\ (x \in StoredIn(files).off => x \notin Of(f))
      BY <2>2, Views DEF Shown
    <3>3. CASE x \in StoredIn(files).off
      BY <3>2, <3>3, Views, InView
    <3>4. CASE \E g \in Files : x \in OnIn(files, g)
      <4>1. PICK g \in Files : x \in OnIn(files, g)
        BY <3>4
      <4>2. x \in OnIn(G, g)
        BY <3>2, <4>1 DEF SameFile
      <4> QED
        BY <4>2, InView
    <3> QED
      BY <3>1, <3>3, <3>4, InView
  <2> QED
    BY <2>1, <2>2
<1>2. ASSUME exposed = {}, NEW x \in o.now PROVE x \in ActiveIn(G)
  <2>1. CASE /\ o.now \subseteq owed.now /\ G[Active(f)] = files[Active(f)]
             /\ G[Active("record")] = files[Active("record")]
    <3>1. x \in ActiveIn(files)
      BY <1>2, <2>1 DEF Complete
    <3>2. \A g \in Files : G[Active(g)] = files[Active(g)]
      BY <2>1 DEF SameFile
    <3>3. CASE x \in files[Active("record")].off
      BY <2>1, <3>3, InView
    <3>4. CASE \E g \in Files : x \in files[Active(g)]
      BY <3>2, <3>4, InView
    <3> QED
      BY <3>1, <3>3, <3>4, InView
  <2>2. CASE /\ ~Staged(f) /\ G[Active(f)] = OnIn(G, f) /\ G[Active("record")] = StoredIn(G)
             /\ \A y : y \in o.now =>
                     \/ y \in OnIn(G, f) \/ y \in StoredIn(G).off
                     \/ y \in owed.now /\ y \notin Shown(f)
    <3>1. CASE x \in OnIn(G, f) \/ x \in StoredIn(G).off
      BY <2>2, <3>1, InView
    <3>2. CASE x \in owed.now /\ x \notin Shown(f)
      <4>1. x \in ActiveIn(files)
        BY <1>2, <3>2 DEF Complete
      <4>2. x \notin files[Active(f)] /\ (x \in Stored.off => x \notin Of(f))
            /\ Stored = files[Active("record")]
        BY <2>2, <3>2, NotStaged DEF Shown
      <4>3. CASE x \in files[Active("record")].off
        BY <2>2, <4>2, <4>3, InView
      <4>4. CASE \E g \in Files : x \in files[Active(g)]
        <5>1. PICK g \in Files : x \in files[Active(g)]
          BY <4>4
        <5>2. x \in G[Active(g)]
          BY <4>2, <5>1 DEF SameFile
        <5> QED
          BY <5>2, InView
      <4> QED
        BY <4>1, <4>3, <4>4, InView
    <3> QED
      BY <1>2, <2>2, <3>1, <3>2
  <2> QED
    BY <2>1, <2>2
<1> QED
  BY <1>1, <1>2 DEF Complete

\* After both writes, what the edit adds is there too.
LEMMA BothComplete ==
    ASSUME Types, NEW f \in Files, NEW r, IsResult(f, r), KeepsOthers(f, r),
           Complete(files, owed, exposed), NEW G, NewFile(files, G, f, r.on, Staged(f)),
           NewRecord(files, G, r.record, Staged(f))
    PROVE  Complete(G, More(f, r), exposed)
<1>1. OnIn(G, f) = r.on /\ StoredIn(G) = r.record /\ \A g \in Files \ {f} : SameFile(files, G, g)
  BY DEF NewFile, NewRecord
<1>2. \A x : x \in ShownBy(f, r) => x \in OnIn(G, f) \/ x \in StoredIn(G).off
  BY <1>1 DEF ShownBy
<1>3. \A x : x \in More(f, r).next =>
               \/ x \in OnIn(G, f) \/ x \in StoredIn(G).off
               \/ x \in owed.next /\ x \notin Shown(f)
  BY <1>2, LessOwed, MoreOwed
<1>4. Stored.off \ Of(f) \subseteq StoredIn(G).off
  BY <1>1 DEF KeepsOthers
<1>5. CASE Staged(f)
  <2>1. /\ More(f, r).now \subseteq owed.now /\ G[Active(f)] = files[Active(f)]
        /\ G[Active("record")] = files[Active("record")]
    BY <1>5, LessOwed, MoreOwed DEF NewFile, NewRecord
  <2> QED
    BY <1>1, <1>3, <1>4, <2>1, EditComplete
<1>6. CASE ~Staged(f)
  <2>1. G[Active(f)] = OnIn(G, f) /\ G[Active("record")] = StoredIn(G)
    BY <1>6 DEF NewFile, NewRecord
  <2>2. \A x : x \in More(f, r).now =>
               \/ x \in OnIn(G, f) \/ x \in StoredIn(G).off
               \/ x \in owed.now /\ x \notin Shown(f)
    BY <1>2, <1>6, LessOwed, MoreOwed
  <2> QED
    BY <1>1, <1>3, <1>4, <1>6, <2>1, <2>2, EditComplete
<1> QED
  BY <1>5, <1>6

\* Between the writes, the file first: no entry is on its way to the record.
LEMMA FileComplete ==
    ASSUME Types, NEW f \in Files, NEW r, IsResult(f, r), NoneSinks(f, r),
           Complete(files, owed, exposed), NEW G, NewFile(files, G, f, r.on, Staged(f)),
           SameRecord(files, G)
    PROVE  Complete(G, Less(f, r), exposed)
<1>1. OnIn(G, f) = r.on /\ StoredIn(G) = Stored /\ \A g \in Files \ {f} : SameFile(files, G, g)
  BY Views DEF NewFile, SameRecord
<1>2. \A x : x \in Shown(f) /\ x \in ShownBy(f, r) => x \in OnIn(G, f) \/ x \in StoredIn(G).off
  BY <1>1 DEF Shown, ShownBy, NoneSinks
<1>3. \A x : x \in Less(f, r).next =>
               \/ x \in OnIn(G, f) \/ x \in StoredIn(G).off
               \/ x \in owed.next /\ x \notin Shown(f)
  BY <1>2, LessOwed
<1>4. Stored.off \ Of(f) \subseteq StoredIn(G).off
  BY <1>1
<1>5. CASE Staged(f)
  <2>1. /\ Less(f, r).now \subseteq owed.now /\ G[Active(f)] = files[Active(f)]
        /\ G[Active("record")] = files[Active("record")]
    BY <1>5, LessOwed DEF NewFile, SameRecord
  <2> QED
    BY <1>1, <1>3, <1>4, <2>1, EditComplete
<1>6. CASE ~Staged(f)
  <2>1. G[Active(f)] = OnIn(G, f) /\ G[Active("record")] = StoredIn(G)
    BY <1>1, <1>6, NotStaged DEF NewFile, SameRecord
  <2>2. \A x : x \in Less(f, r).now =>
               \/ x \in OnIn(G, f) \/ x \in StoredIn(G).off
               \/ x \in owed.now /\ x \notin Shown(f)
    BY <1>2, <1>6, LessOwed
  <2> QED
    BY <1>1, <1>3, <1>4, <1>6, <2>1, <2>2, EditComplete
<1> QED
  BY <1>5, <1>6

\* Between the writes, the record first: no entry is on its way to the file.
LEMMA RecordComplete ==
    ASSUME Types, NEW f \in Files, NEW r, IsResult(f, r), NoneRises(f, r), KeepsOthers(f, r),
           Complete(files, owed, exposed), NEW G, \A g \in Files : SameFile(files, G, g),
           NewRecord(files, G, r.record, Staged(f))
    PROVE  Complete(G, Less(f, r), exposed)
<1>1. OnIn(G, f) = On(f) /\ StoredIn(G) = r.record
  BY Views DEF NewRecord, SameFile
<1>2. \A x : x \in Shown(f) /\ x \in ShownBy(f, r) => x \in OnIn(G, f) \/ x \in StoredIn(G).off
  BY <1>1 DEF Shown, ShownBy, NoneRises
<1>3. \A x : x \in Less(f, r).next =>
               \/ x \in OnIn(G, f) \/ x \in StoredIn(G).off
               \/ x \in owed.next /\ x \notin Shown(f)
  BY <1>2, LessOwed
<1>4. Stored.off \ Of(f) \subseteq StoredIn(G).off
  BY <1>1 DEF KeepsOthers
<1>5. CASE Staged(f)
  <2>1. /\ Less(f, r).now \subseteq owed.now /\ G[Active(f)] = files[Active(f)]
        /\ G[Active("record")] = files[Active("record")]
    BY <1>5, LessOwed DEF NewRecord, SameFile
  <2> QED
    BY <1>3, <1>4, <2>1, EditComplete
<1>6. CASE ~Staged(f)
  <2>1. G[Active(f)] = OnIn(G, f) /\ G[Active("record")] = StoredIn(G)
    BY <1>1, <1>6, NotStaged DEF NewRecord, SameFile
  <2>2. \A x : x \in Less(f, r).now =>
               \/ x \in OnIn(G, f) \/ x \in StoredIn(G).off
               \/ x \in owed.now /\ x \notin Shown(f)
    BY <1>2, <1>6, LessOwed
  <2> QED
    BY <1>3, <1>4, <1>6, <2>1, <2>2, EditComplete
<1> QED
  BY <1>5, <1>6

-----------------------------------------------------------------------------
(* Types *)

\* A kept content of a file, or of the record.
LEMMA FitsAt ==
    /\ \A f \in Files : \A c \in SUBSET Of(f) : KeptAt(Active(f), c) /\ KeptAt(Pending(f), c)
    /\ \A c \in Record : KeptAt(Active("record"), c) /\ KeptAt(Pending("record"), c)
    /\ \A n \in Parts : KeptAt(Pending(n), NoFile)
    /\ \A n \in Parts : \A c : KeptAt(Pending(n), c) /\ c # NoFile => KeptAt(Active(n), c)
    /\ \A path \in Paths : \A c : KeptAt(path, c) /\ path[1] = "active" => c # NoFile
<1>1. ASSUME NEW f \in Files, NEW c \in SUBSET Of(f)
      PROVE  KeptAt(Active(f), c) /\ KeptAt(Pending(f), c)
  <2>1. f \in Parts /\ f # "record" /\ Of(f) \subseteq Entries
    BY PathCases DEF Of, Entries
  <2>2. c # NoFile
    BY <2>1, NoFileAssumption
  <2> QED
    BY <2>1, <2>2, PathCases DEF KeptAt, Fits
<1>2. \A c \in Record : KeptAt(Active("record"), c) /\ KeptAt(Pending("record"), c)
  BY NoFileAssumption, PathCases DEF KeptAt, Fits
<1>3. \A n \in Parts : KeptAt(Pending(n), NoFile)
  BY PathCases DEF KeptAt
<1>4. \A n \in Parts : \A c : KeptAt(Pending(n), c) /\ c # NoFile => KeptAt(Active(n), c)
  BY PathCases DEF KeptAt, Fits
<1>5. \A path \in Paths : \A c : KeptAt(path, c) /\ path[1] = "active" => c # NoFile
  BY DEF KeptAt
<1> QED
  BY <1>1, <1>2, <1>3, <1>4, <1>5

\* A write of what may be written leaves files of their types.
LEMMA PutTypes ==
    ASSUME Types, NEW w, IsWrite(w)
    PROVE  /\ IsFiles(Put(files, w))
           /\ \A path \in Paths : KeptAt(path, Put(files, w)[path])
<1>1. Put(files, w) = Put(files, [to |-> w.to, content |-> w.content])
  BY DEF Put
<1>2. /\ IsFiles(Put(files, w))
      /\ \A path \in Paths : Put(files, w)[path] = IF path = w.to THEN w.content ELSE files[path]
  BY <1>1, PutAt DEF Types, IsWrite
<1> QED
  BY <1>2 DEF Types, IsWrite

\* The writes of an edit: the file, the record, or both.
FileWrite(f, r) ==
    [to |-> IF Staged(f) THEN Pending(f) ELSE Active(f), content |-> r.on]
RecordWrite(f, r) ==
    [to |-> IF Staged(f) THEN Pending("record") ELSE Active("record"), content |-> r.record]

\* An edit makes one write or two, of the file and of the record, in the order of ConfigFirst.
LEMMA WritesAre ==
    ASSUME NEW f \in Files, NEW r, Writes(f, r) # <<>>
    PROVE  \/ Writes(f, r) = <<FileWrite(f, r), RecordWrite(f, r)>> /\ ConfigFirst(r)
           \/ Writes(f, r) = <<RecordWrite(f, r), FileWrite(f, r)>> /\ ~ConfigFirst(r)
           \/ /\ Writes(f, r) = <<FileWrite(f, r)>>
              /\ r.record = Stored /\ files[RecordWrite(f, r).to] # NoFile
           \/ /\ Writes(f, r) = <<RecordWrite(f, r)>>
              /\ r.on = On(f) /\ files[FileWrite(f, r).to] # NoFile
<1> DEFINE writesFile == r.on # On(f) \/ files[FileWrite(f, r).to] = NoFile
           writesRecord == r.record # Stored \/ files[RecordWrite(f, r).to] = NoFile
           config == IF writesFile THEN <<FileWrite(f, r)>> ELSE <<>>
           record == IF writesRecord THEN <<RecordWrite(f, r)>> ELSE <<>>
<1>1. Writes(f, r) = IF ConfigFirst(r) THEN config \o record ELSE record \o config
  BY DEF Writes, FileWrite, RecordWrite, Exists
<1>2. writesFile \/ (r.on = On(f) /\ files[FileWrite(f, r).to] # NoFile)
  OBVIOUS
<1>3. writesRecord \/ (r.record = Stored /\ files[RecordWrite(f, r).to] # NoFile)
  OBVIOUS
<1> HIDE DEF writesFile, writesRecord
<1> DEFINE c == FileWrite(f, r)
           d == RecordWrite(f, r)
<1> HIDE DEF c, d
<1>4. /\ writesFile /\ writesRecord /\ ConfigFirst(r) => Writes(f, r) = <<c, d>>
      /\ writesFile /\ writesRecord /\ ~ConfigFirst(r) => Writes(f, r) = <<d, c>>
      /\ writesFile /\ ~writesRecord => Writes(f, r) = <<c>>
      /\ ~writesFile /\ writesRecord => Writes(f, r) = <<d>>
      /\ ~writesFile /\ ~writesRecord => Writes(f, r) = <<>>
  <2>1. Writes(f, r) =
            LET file == IF writesFile THEN <<c>> ELSE <<>>
                list == IF writesRecord THEN <<d>> ELSE <<>>
            IN IF ConfigFirst(r) THEN file \o list ELSE list \o file
    BY <1>1 DEF c, d
  <2>8. \A x : <<x>> \o <<>> = <<x>> /\ <<>> \o <<x>> = <<x>>
    OBVIOUS
  <2>9. <<>> \o <<>> = <<>>
    OBVIOUS
  <2>2. /\ <<c>> \o <<d>> = <<c, d>> /\ <<d>> \o <<c>> = <<d, c>>
        /\ <<c>> \o <<>> = <<c>> /\ <<>> \o <<c>> = <<c>>
        /\ <<d>> \o <<>> = <<d>> /\ <<>> \o <<d>> = <<d>>
        /\ <<>> \o <<>> = <<>>
    BY Pair, <2>8, <2>9
  <2>3. CASE writesFile /\ writesRecord
    BY <2>1, <2>2, <2>3
  <2>4. CASE writesFile /\ ~writesRecord
    BY <2>1, <2>2, <2>4
  <2>5. CASE ~writesFile /\ writesRecord
    BY <2>1, <2>2, <2>5
  <2>6. CASE ~writesFile /\ ~writesRecord
    BY <2>1, <2>2, <2>6
  <2> QED
    BY <2>3, <2>4, <2>5, <2>6
<1> QED
  BY <1>2, <1>3, <1>4 DEF c, d

\* Either of them writes what may be written.
LEMMA WriteTypes ==
    ASSUME NEW f \in Files, NEW r, IsResult(f, r)
    PROVE  IsWrite(FileWrite(f, r)) /\ IsWrite(RecordWrite(f, r))
<1>1. f \in Parts /\ r.on \in SUBSET Of(f) /\ r.record \in Record
  BY PathCases DEF IsResult
<1>2. IsWrite(FileWrite(f, r))
  BY <1>1, PathCases, FitsAt DEF IsWrite, FileWrite
<1>3. IsWrite(RecordWrite(f, r))
  BY <1>1, PathCases, FitsAt DEF IsWrite, RecordWrite
<1> QED
  BY <1>2, <1>3

\* What is owed stays one of entries.
LEMMA OwedTypes ==
    ASSUME Types, NEW f \in Files, NEW r, IsResult(f, r)
    PROVE  /\ IsOwed(Less(f, r))
           /\ IsOwed(Generations(f, ShownBy(f, r) \ Shown(f)))
<1>1. ShownBy(f, r) \subseteq Entries
  BY ViewTypes DEF ShownBy, IsResult
<1> QED
  BY <1>1 DEF IsOwed, Less, Generations, Types

\* The start of an edit.
LEMMA SaveBeginsTypes ==
    ASSUME Types, JobTypes, NEW f \in Files, NEW r, IsResult(f, r),
           NEW kind \in {"edit", "rotation"},
           SaveBegins(f, r, kind)
    PROVE  Types' /\ JobTypes'
<1>1. /\ web = "up" /\ Writes(f, r) # <<>>
      /\ job' = Job(kind, Writes(f, r), Generations(f, ShownBy(f, r) \ Shown(f)))
      /\ owed' = Less(f, r)
      /\ UNCHANGED <<files, web, found, serverRunning, exposed>>
  BY DEF SaveBegins, ShownBy, Less
<1>2. Types'
  BY <1>1, OwedTypes DEF Types
<1>3. OneWrite' \/ TwoWrites'
  <2>1. job'.done = <<>> /\ job'.steps = Writes(f, r)
    BY <1>1 DEF Job
  <2>2. CASE Writes(f, r) = <<FileWrite(f, r), RecordWrite(f, r)>>
    BY <2>1, <2>2, WriteTypes DEF TwoWrites
  <2>3. CASE Writes(f, r) = <<RecordWrite(f, r), FileWrite(f, r)>>
    BY <2>1, <2>3, WriteTypes DEF TwoWrites
  <2>4. CASE Writes(f, r) = <<FileWrite(f, r)>>
    BY <2>1, <2>4, WriteTypes DEF OneWrite
  <2>5. CASE Writes(f, r) = <<RecordWrite(f, r)>>
    BY <2>1, <2>5, WriteTypes DEF OneWrite
  <2> QED
    BY <1>1, <2>2, <2>3, <2>4, <2>5, WritesAre
<1>4. JobTypes'
  BY <1>1, <1>3, OwedTypes DEF JobTypes, Job, OfManager
<1> QED
  BY <1>2, <1>4

\* A write, and what it writes.
LEMMA WriteStepTypes ==
    ASSUME Types, JobTypes, WriteStep
    PROVE  Types' /\ JobTypes'
<1> DEFINE step == Head(job.steps)
<1>1. job.kind \in OfManager /\ files' = Put(files, step) /\ UNCHANGED <<web, found, serverRunning>>
  BY DEF WriteStep, Put
<1>2. web = "up" /\ IsOwed(job.adds)
  BY <1>1 DEF JobTypes
<1>3. IsWrite(step)
  <2>1. CASE job.kind = "discard"
    <3>1. step \in {Removal("Game.ini"), Removal("Engine.ini"), Removal("record")}
      BY <2>1, Steps DEF JobTypes, Removed
    <3>2. \A n \in Parts : IsWrite(Removal(n))
      BY PathCases, FitsAt DEF Removal, IsWrite
    <3> QED
      BY <3>1, <3>2 DEF Parts, Files
  <2>2. CASE job.kind \in {"edit", "rotation"}
    BY <2>2, Steps DEF JobTypes, OneWrite, TwoWrites, SecondWrite
  <2> QED
    BY <1>1, <2>1, <2>2 DEF OfManager
<1>4. IsFiles(files') /\ \A path \in Paths : KeptAt(path, files'[path])
  BY <1>1, <1>3, PutTypes
<1>5. owed' = owed \/ owed' = Succeeded
  BY DEF WriteStep
<1>6. IsOwed(owed')
  BY <1>2, <1>5 DEF Types, IsOwed, Succeeded
<1>7. exposed' \subseteq exposed
  BY DEF WriteStep
<1>8. Types'
  BY <1>1, <1>4, <1>6, <1>7 DEF Types
<1>9. JobTypes'
  <2>1. CASE Len(job.steps) = 1
    BY <2>1 DEF WriteStep, JobTypes, NoJob, OfManager
  <2>2. CASE Len(job.steps) # 1
    <3> DEFINE saved == [to |-> step.to, content |-> files[step.to]]
    <3>1. job' = [job EXCEPT !.steps = Tail(@), !.done = Append(@, saved)]
      BY <2>2 DEF WriteStep
    <3>2. /\ job'.kind = job.kind /\ job'.adds = job.adds
          /\ job'.steps = Tail(job.steps) /\ job'.done = Append(job.done, saved)
          /\ job' = [kind |-> job.kind, steps |-> Tail(job.steps),
                     done |-> Append(job.done, saved), adds |-> job.adds]
      BY <3>1 DEF JobTypes
    <3>3. IsWrite(saved)
      BY <1>3 DEF IsWrite, Types
    <3> HIDE DEF saved, step
    <3>4. CASE job.kind \in {"edit", "rotation"}
      <4>1. TwoWrites
        BY <2>2, <3>4, Steps DEF JobTypes, OneWrite, SecondWrite
      <4>2. job'.steps = <<job.steps[2]>> /\ job'.done = <<saved>>
        <5>1. PICK s, t : job.steps = <<s, t>> /\ t = job.steps[2] /\ job.done = <<>>
          BY <4>1 DEF TwoWrites
        <5>2. Tail(<<s, t>>) = <<t>> /\ Append(<<>>, saved) = <<saved>>
          BY Steps
        <5> QED
          BY <3>2, <5>1, <5>2
      <4>3. SecondWrite'
        BY <3>3, <4>1, <4>2 DEF SecondWrite, TwoWrites
      <4> QED
        BY <1>1, <1>2, <3>2, <3>4, <4>3 DEF JobTypes, OfManager
    <3>5. CASE job.kind = "discard"
      <4>1. Removed(0) \/ Removed(1)
        BY <2>2, <3>5, Steps DEF JobTypes, Removed
      <4>2. CASE Removed(0)
        <5>1. /\ job'.steps = <<Removal("Engine.ini"), Removal("record")>>
              /\ job'.done = <<saved>>
          <6>1. /\ job.steps = <<Removal("Game.ini"), Removal("Engine.ini"), Removal("record")>>
                /\ job.done = <<>>
            BY <4>2 DEF Removed
          <6>2. /\ Tail(<<Removal("Game.ini"), Removal("Engine.ini"), Removal("record")>>) =
                       <<Removal("Engine.ini"), Removal("record")>>
                /\ Append(<<>>, saved) = <<saved>>
            BY Steps
          <6> QED
            BY <3>2, <6>1, <6>2
        <5>2. Removed(1)'
          BY <5>1 DEF Removed
        <5> QED
          BY <1>1, <1>2, <3>2, <3>5, <5>2 DEF JobTypes, OfManager
      <4>3. CASE Removed(1)
        <5>1. job'.steps = <<Removal("record")>> /\ job'.done = <<job.done[1], saved>>
          <6>1. PICK w : /\ job.steps = <<Removal("Engine.ini"), Removal("record")>>
                         /\ job.done = <<w>> /\ w = job.done[1]
            BY <4>3 DEF Removed
          <6>2. /\ Tail(<<Removal("Engine.ini"), Removal("record")>>) = <<Removal("record")>>
                /\ Append(<<w>>, saved) = <<w, saved>>
            BY Steps, Pair
          <6> QED
            BY <3>2, <6>1, <6>2
        <5>2. Removed(2)'
          BY <5>1 DEF Removed
        <5> QED
          BY <1>1, <1>2, <3>2, <3>5, <5>2 DEF JobTypes, OfManager
      <4> QED
        BY <4>1, <4>2, <4>3
    <3> QED
      BY <1>1, <3>4, <3>5 DEF OfManager
  <2> QED
    BY <2>1, <2>2
<1> QED
  BY <1>8, <1>9

\* A write that fails, and what is restored.
LEMMA WriteFailsTypes ==
    ASSUME Types, JobTypes, WriteFails
    PROVE  Types' /\ JobTypes'
<1>1. job' = NoJob /\ UNCHANGED <<web, found, serverRunning, owed>>
  BY DEF WriteFails
<1>2. JobTypes'
  BY <1>1 DEF JobTypes, NoJob, OfManager
<1>3. CASE /\ job.kind \in {"edit", "rotation"} /\ job.done # <<>> /\ UNCHANGED exposed
           /\ files' = Put(files, Head(job.done))
  <2>1. IsWrite(Head(job.done))
    BY <1>3, Steps DEF JobTypes, OneWrite, TwoWrites, SecondWrite
  <2>2. IsFiles(files') /\ \A path \in Paths : KeptAt(path, files'[path])
    BY <1>3, <2>1, PutTypes
  <2> QED
    BY <1>1, <1>2, <1>3, <2>2 DEF Types
<1>4. CASE exposed' = exposed \cup Exposes /\ UNCHANGED files
  <2>1. Exposes \subseteq {"rotation", "discard"}
    BY DEF Exposes
  <2> QED
    BY <1>1, <1>2, <1>4, <2>1 DEF Types
<1> QED
  BY <1>3, <1>4 DEF WriteFails, OfManager, Put

\* The recovery adds disabled entries to the record.
LEMMA RecoverTypes ==
    ASSUME Types, JobTypes, NEW f \in Files, RecoverFromBackup(f)
    PROVE  Types' /\ JobTypes'
<1>1. PICK entries \in SUBSET (Of(f) \ Shown(f)) :
          /\ files' = [files EXCEPT ![Active("record")].off = @ \cup entries]
          /\ owed' = [now |-> owed.now \cup entries, next |-> owed.next \cup entries]
  BY DEF RecoverFromBackup
<1>2. UNCHANGED <<job, web, found, serverRunning, exposed>>
  BY DEF RecoverFromBackup
<1> DEFINE old == files[Active("record")]
           new == [old EXCEPT !.off = @ \cup entries]
<1>3. old \in Record /\ entries \subseteq Entries
  BY ViewTypes
<1>4. new \in Record
  BY <1>3 DEF Record
<1>5. IsWrite([to |-> Active("record"), content |-> new])
  BY <1>4, PathCases, FitsAt DEF IsWrite
<1>6. files' = Put(files, [to |-> Active("record"), content |-> new])
  BY <1>1 DEF Put
<1>7. IsFiles(files') /\ \A path \in Paths : KeptAt(path, files'[path])
  BY <1>5, <1>6, PutTypes
<1>8. IsOwed(owed')
  BY <1>1, <1>3 DEF IsOwed, Types
<1>9. Types'
  BY <1>2, <1>7, <1>8 DEF Types
<1>10. JobTypes'
  BY <1>2 DEF JobTypes, OneWrite, TwoWrites, SecondWrite, Removed, Moved
<1> QED
  BY <1>9, <1>10

\* The start of a discard.
LEMMA DiscardTypes ==
    ASSUME Types, JobTypes, DiscardPending
    PROVE  Types' /\ JobTypes'
<1>1. Types'
  BY DEF DiscardPending, Types
<1>2. /\ job'.kind = "discard" /\ job'.done = <<>> /\ job'.adds = Nothing
      /\ job'.steps = <<Removal("Game.ini"), Removal("Engine.ini"), Removal("record")>>
      /\ job' = [kind |-> job'.kind, steps |-> job'.steps, done |-> job'.done, adds |-> job'.adds]
      /\ web' = "up"
  BY DEF DiscardPending, Job
<1>3. Removed(0)'
  BY <1>2 DEF Removed
<1>4. IsOwed(Nothing)
  BY DEF IsOwed, Nothing
<1>5. JobTypes'
  BY <1>2, <1>3, <1>4 DEF JobTypes, OfManager
<1> QED
  BY <1>1, <1>5

\* A starting manager finds a record, or none.
LEMMA StartReadsTypes ==
    ASSUME Types, JobTypes, StartReads
    PROVE  Types' /\ JobTypes'
<1> DEFINE old == {f \in Files : Exists(Pending(f))}
           record == files[Active("record")]
           cut == [off |-> record.off \ UNION {Of(f) : f \in old},
                   sections |-> record.sections \ old]
<1>1. record \in Record /\ KeptAt(Pending("record"), files[Pending("record")])
  BY ViewTypes, PathCases DEF Types
<1>2. cut \in Record
  BY <1>1 DEF Record
<1>3. files[Pending("record")] = NoFile \/ files[Pending("record")] \in Record
  BY <1>1, PathCases DEF KeptAt, Fits
<1>4. found' = files[Pending("record")] \/ found' = cut
  BY DEF StartReads
<1> HIDE DEF cut
<1>5. found' = NoFile \/ found' \in Record
  BY <1>2, <1>3, <1>4
<1>6. exposed' \subseteq exposed \cup {"start"} /\ web' = "starting" /\ web = "down"
      /\ UNCHANGED <<files, job, serverRunning, owed>>
  BY DEF StartReads
<1>7. Types'
  BY <1>5, <1>6 DEF Types
<1>8. JobTypes'
  BY <1>6 DEF JobTypes, OneWrite, TwoWrites, SecondWrite, Removed, Moved
<1> QED
  BY <1>7, <1>8

\* What it has found is what it writes.
LEMMA StartWritesTypes ==
    ASSUME Types, JobTypes, StartWrites
    PROVE  Types' /\ JobTypes'
<1>1. /\ web = "starting" /\ found' = NoFile /\ web' \in {"up", "down"}
      /\ UNCHANGED <<job, serverRunning, owed, exposed>>
  BY DEF StartWrites
<1>2. IsFiles(files') /\ \A path \in Paths : KeptAt(path, files'[path])
  <2>1. CASE files' = files
    BY <2>1 DEF Types
  <2>2. CASE found # NoFile /\ files' = [files EXCEPT ![Pending("record")] = found]
    <3>1. IsWrite([to |-> Pending("record"), content |-> found])
      BY <2>2, PathCases, FitsAt DEF IsWrite, Types
    <3>2. files' = Put(files, [to |-> Pending("record"), content |-> found])
      BY <2>2 DEF Put
    <3> QED
      BY <3>1, <3>2, PutTypes
  <2> QED
    BY <2>1, <2>2 DEF StartWrites
<1>3. Types'
  BY <1>1, <1>2 DEF Types
<1>4. job.kind \notin OfManager
  BY <1>1 DEF JobTypes
<1>5. JobTypes'
  BY <1>1, <1>4 DEF JobTypes, OneWrite, TwoWrites, SecondWrite, Removed, Moved, OfManager
<1> QED
  BY <1>3, <1>5

\* A manager that ends takes its job with it.
LEMMA ManagerDiesTypes ==
    ASSUME Types, JobTypes, ManagerDies
    PROVE  Types' /\ JobTypes'
<1>1. Exposes \subseteq {"rotation", "discard"}
  BY DEF Exposes
<1>2. Types'
  BY <1>1 DEF ManagerDies, Types
<1>3. CASE job.kind \in OfManager
  <2>1. job' = NoJob
    BY <1>3 DEF ManagerDies
  <2> QED
    BY <1>2, <2>1 DEF JobTypes, NoJob, OfManager
<1>4. CASE job.kind \notin OfManager
  <2>1. job' = job
    BY <1>4 DEF ManagerDies
  <2> QED
    BY <1>2, <1>4, <2>1 DEF JobTypes, OneWrite, TwoWrites, SecondWrite, Removed, Moved, OfManager
<1> QED
  BY <1>3, <1>4

\* The start of a script.
LEMMA StartScriptTypes ==
    ASSUME Types, JobTypes, StartConfigScript
    PROVE  Types' /\ JobTypes'
<1>1. Types'
  BY DEF StartConfigScript, Types
<1>2. /\ job'.kind = "script" /\ job'.done = <<>>
      /\ job'.steps = <<"Game.ini", "Engine.ini", "record">>
      /\ job' = [kind |-> job'.kind, steps |-> job'.steps, done |-> job'.done, adds |-> job'.adds]
  BY DEF StartConfigScript, Job
<1>3. Moved(0)'
  BY <1>2 DEF Moved
<1> QED
  BY <1>1, <1>2, <1>3 DEF JobTypes, OfManager

\* How far the script is after a move.
LEMMA ScriptMovesJob ==
    ASSUME JobTypes, ScriptMoves
    PROVE  /\ job'.kind = "script"
           /\ job' = [kind |-> job'.kind, steps |-> job'.steps, done |-> job'.done,
                       adds |-> job'.adds]
           /\ \/ Moved(0) /\ Head(job.steps) = "Game.ini" /\ Moved(1)'
              \/ Moved(1) /\ Head(job.steps) = "Engine.ini" /\ Moved(2)'
              \/ Moved(2) /\ Head(job.steps) = "record" /\ Moved(3)'
<1>1. job.kind = "script" /\ job.steps # <<>>
      /\ job' = [job EXCEPT !.steps = Tail(@), !.done = Append(@, Head(job.steps))]
  BY DEF ScriptMoves
<1>2. /\ job'.kind = "script" /\ job'.steps = Tail(job.steps)
      /\ job'.done = Append(job.done, Head(job.steps))
      /\ job' = [kind |-> job'.kind, steps |-> job'.steps, done |-> job'.done, adds |-> job'.adds]
  BY <1>1 DEF JobTypes
<1>3. Moved(0) \/ Moved(1) \/ Moved(2)
  BY <1>1 DEF JobTypes, Moved
<1>4. CASE Moved(0)
  <2>1. job.steps = <<"Game.ini", "Engine.ini", "record">> /\ job.done = <<>>
    BY <1>4 DEF Moved
  <2>2. /\ Tail(<<"Game.ini", "Engine.ini", "record">>) = <<"Engine.ini", "record">>
        /\ Head(<<"Game.ini", "Engine.ini", "record">>) = "Game.ini"
        /\ Append(<<>>, "Game.ini") = <<"Game.ini">>
    BY Steps
  <2>3. Moved(1)'
    BY <1>2, <2>1, <2>2 DEF Moved
  <2> QED
    BY <1>2, <1>4, <2>1, <2>2, <2>3
<1>5. CASE Moved(1)
  <2>1. job.steps = <<"Engine.ini", "record">> /\ job.done = <<"Game.ini">>
    BY <1>5 DEF Moved
  <2>2. /\ Tail(<<"Engine.ini", "record">>) = <<"record">>
        /\ Head(<<"Engine.ini", "record">>) = "Engine.ini"
        /\ Append(<<"Game.ini">>, "Engine.ini") = <<"Game.ini", "Engine.ini">>
    BY Steps, Pair
  <2>3. Moved(2)'
    BY <1>2, <2>1, <2>2 DEF Moved
  <2> QED
    BY <1>2, <1>5, <2>1, <2>2, <2>3
<1>6. CASE Moved(2)
  <2>1. job.steps = <<"record">> /\ job.done = <<"Game.ini", "Engine.ini">>
    BY <1>6 DEF Moved
  <2>2. /\ Tail(<<"record">>) = <<>> /\ Head(<<"record">>) = "record"
        /\ Append(<<"Game.ini", "Engine.ini">>, "record") = <<"Game.ini", "Engine.ini", "record">>
    BY Steps, Triple
  <2>3. Moved(3)'
    BY <1>2, <2>1, <2>2 DEF Moved
  <2> QED
    BY <1>2, <1>6, <2>1, <2>2, <2>3
<1> QED
  BY <1>2, <1>3, <1>4, <1>5, <1>6

\* The two generations of a file that is moved.
MoveOf(F, name) == [F EXCEPT ![Active(name)] = F[Pending(name)], ![Pending(name)] = NoFile]
\* The two files a move changes, and the others.
LEMMA MovesAre ==
    ASSUME Types, NEW name \in Parts, files[Pending(name)] # NoFile, NEW G,
           G = MoveOf(files, name)
    PROVE  /\ IsFiles(G) /\ \A path \in Paths : KeptAt(path, G[path])
           /\ G[Active(name)] = files[Pending(name)] /\ G[Pending(name)] = NoFile
           /\ \A n \in Parts \ {name} :
                  G[Active(n)] = files[Active(n)] /\ G[Pending(n)] = files[Pending(n)]
<1> DEFINE moved == [to |-> Active(name), content |-> files[Pending(name)]]
           gone == [to |-> Pending(name), content |-> NoFile]
           H == Put(files, moved)
<1>1. Active(name) \in Paths /\ Pending(name) \in Paths /\ Active(name) # Pending(name)
  BY PathCases
<1>2. G = Put(H, gone)
  BY DEF Put, MoveOf
<1>3. IsFiles(H)
      /\ \A path \in Paths :
             H[path] = IF path = Active(name) THEN files[Pending(name)] ELSE files[path]
  BY <1>1, PutAt DEF Types
<1> HIDE DEF H
<1>4. IsFiles(G) /\ \A path \in Paths : G[path] = IF path = Pending(name) THEN NoFile ELSE H[path]
  <2>1. /\ IsFiles(Put(H, gone))
        /\ \A path \in Paths :
              Put(H, gone)[path] = IF path = Pending(name) THEN NoFile ELSE H[path]
    BY <1>1, <1>3, PutAt
  <2> QED
    BY <1>2, <2>1
<1>5. \A path \in Paths :
          G[path] = IF path = Pending(name) THEN NoFile
                    ELSE IF path = Active(name) THEN files[Pending(name)] ELSE files[path]
  BY <1>3, <1>4
<1>6. KeptAt(Active(name), files[Pending(name)]) /\ KeptAt(Pending(name), NoFile)
  BY <1>1, FitsAt DEF Types
<1>7. \A path \in Paths : KeptAt(path, G[path])
  BY <1>5, <1>6 DEF Types
<1>8. G[Active(name)] = files[Pending(name)] /\ G[Pending(name)] = NoFile
  BY <1>1, <1>5
<1>9. \A n \in Parts \ {name} :
          G[Active(n)] = files[Active(n)] /\ G[Pending(n)] = files[Pending(n)]
  BY <1>5, PathCases
<1> QED
  BY <1>4, <1>7, <1>8, <1>9

\* A move of a file by the script.
LEMMA ScriptMovesTypes ==
    ASSUME Types, JobTypes, ScriptMoves
    PROVE  Types' /\ JobTypes'
<1> DEFINE name == Head(job.steps)
<1>1. UNCHANGED <<web, found, serverRunning, owed, exposed>>
  BY DEF ScriptMoves
<1>2. name \in Parts
  BY ScriptMovesJob DEF Parts, Files
<1>3. CASE Exists(Pending(name))
  <2>1. files' = MoveOf(files, name)
    BY <1>3 DEF ScriptMoves, MoveOf
  <2>2. IsFiles(files') /\ \A path \in Paths : KeptAt(path, files'[path])
    BY <1>2, <1>3, <2>1, MovesAre DEF Exists
  <2> QED
    BY <1>1, <2>2, ScriptMovesJob DEF Types, JobTypes, OfManager
<1>4. CASE ~Exists(Pending(name))
  <2>1. files' = files
    BY <1>4 DEF ScriptMoves
  <2> QED
    BY <1>1, <2>1, ScriptMovesJob DEF Types, JobTypes, OfManager
<1> QED
  BY <1>3, <1>4

\* The script ends, with or without a launch.
LEMMA ScriptEndTypes ==
    ASSUME Types, JobTypes, LaunchServer \/ ConfigScriptDies
    PROVE  Types' /\ JobTypes'
<1>1. job' = NoJob
  BY DEF LaunchServer, ConfigScriptDies
<1>2. JobTypes'
  BY <1>1 DEF JobTypes, NoJob, OfManager
<1>3. CASE LaunchServer
  <2>1. IsOwed(owed')
    BY <1>3 DEF LaunchServer, Types, IsOwed
  <2> QED
    BY <1>2, <1>3, <2>1 DEF LaunchServer, Types
<1>4. CASE ConfigScriptDies
  BY <1>2, <1>4 DEF ConfigScriptDies, Types
<1> QED
  BY <1>3, <1>4

\* The server ends.
LEMMA ServerEndsTypes ==
    ASSUME Types, JobTypes, ServerStops \/ UNCHANGED configVars
    PROVE  Types' /\ JobTypes'
<1>1. UNCHANGED <<files, job, web, found, owed, exposed>> /\ serverRunning' \in BOOLEAN
  BY DEF ServerStops, configVars, Types
<1> QED
  BY <1>1 DEF Types, JobTypes, OneWrite, TwoWrites, SecondWrite, Removed, Moved

\* The initial files.
LEMMA InitTypes ==
    ASSUME ConfigInit
    PROVE  Types /\ JobTypes
<1>1. PICK on \in SUBSET Entries, off \in SUBSET Entries :
          /\ files = [path \in Paths |->
                  IF path[1] = "pending" THEN NoFile
                  ELSE IF path[2] = "record" THEN [off |-> off, sections |-> {}]
                  ELSE on \cap Of(path[2])]
          /\ owed = [now |-> on \cup off, next |-> on \cup off]
  BY DEF ConfigInit
<1>2. job = NoJob /\ web = "down" /\ found = NoFile /\ serverRunning = FALSE /\ exposed = {}
  BY DEF ConfigInit
<1>3. IsFiles(files)
  BY <1>1 DEF IsFiles
<1>4. ASSUME NEW path \in Paths PROVE KeptAt(path, files[path])
  <2>1. CASE path[1] = "pending"
    <3>1. files[path] = NoFile
      BY <1>1, <2>1
    <3> QED
      BY <2>1, <3>1 DEF KeptAt
  <2>2. CASE path[1] # "pending" /\ path[2] = "record"
    <3>1. files[path] = [off |-> off, sections |-> {}]
      BY <1>1, <2>2
    <3>2. files[path] \in Record
      BY <3>1 DEF Record
    <3> QED
      BY <2>2, <3>2, NoFileAssumption DEF KeptAt, Fits
  <2>3. CASE path[1] # "pending" /\ path[2] # "record"
    <3>1. files[path] = on \cap Of(path[2])
      BY <1>1, <2>3
    <3>2. files[path] \in SUBSET Entries
      BY <3>1
    <3> QED
      BY <2>3, <3>1, <3>2, NoFileAssumption DEF KeptAt, Fits
  <2> QED
    BY <2>1, <2>2, <2>3
<1>5. Types
  BY <1>1, <1>2, <1>3, <1>4 DEF Types, IsOwed
<1>6. JobTypes
  BY <1>2 DEF JobTypes, NoJob, OfManager
<1> QED
  BY <1>5, <1>6

\* Every step keeps the types.
LEMMA TypesKept ==
    ASSUME Types, JobTypes, [ConfigNext]_configVars
    PROVE  Types' /\ JobTypes'
<1>1. CASE \E f \in Files : MutateConfig(f)
  <2>3. PICK f \in Files : MutateConfig(f)
    BY <1>1
  <2>1. PICK r \in Edits(f) : SaveBegins(f, r, "edit")
    BY <2>3 DEF MutateConfig
  <2>2. IsResult(f, r)
    BY EditsGood DEF Good
  <2> QED
    BY <2>1, <2>2, SaveBeginsTypes
<1>2. CASE SaveMapRotation
  <2>1. PICK r \in Rotations : SaveBegins("Game.ini", r, "rotation")
    BY <1>2 DEF SaveMapRotation
  <2>2. IsResult("Game.ini", r) /\ "Game.ini" \in Files
    BY RotationGood DEF Files
  <2> QED
    BY <2>1, <2>2, SaveBeginsTypes
<1>3. CASE \E f \in Files : RecoverFromBackup(f)
  BY <1>3, RecoverTypes
<1>4. CASE DiscardPending \/ WriteStep \/ WriteFails
  BY <1>4, DiscardTypes, WriteStepTypes, WriteFailsTypes
<1>5. CASE ManagerStep
  BY <1>5, StartReadsTypes, StartWritesTypes, ManagerDiesTypes DEF ManagerStep
<1>6. CASE ConfigScriptStep \/ UNCHANGED configVars
  BY <1>6, StartScriptTypes, ScriptMovesTypes, ScriptEndTypes, ServerEndsTypes DEF ConfigScriptStep
<1> QED
  BY <1>1, <1>2, <1>3, <1>4, <1>5, <1>6 DEF ConfigNext, EditStep

-----------------------------------------------------------------------------
(* Nothing is lost *)

Safe == exposed \subseteq {"script"}

\* With no job everything is there.
NoJobInv == job.kind = "none" => Complete(files, owed, exposed)

\* An edit is complete before its first write, between two, and after the last
\* one; a rotation, before the first and after the last.
Cut == job.kind = "edit" => Complete(files, owed, exposed)
SaveInv ==
    job.kind \in {"edit", "rotation"} =>
        /\ OneWrite => /\ Complete(files, owed, exposed)
                       /\ Complete(Put(files, job.steps[1]), Succeeded, exposed)
        /\ TwoWrites => /\ Complete(files, owed, exposed)
                        /\ job.kind = "edit" => Complete(Put(files, job.steps[1]), owed, exposed)
                        /\ Complete(Put(Put(files, job.steps[1]), job.steps[2]), Succeeded, exposed)
        /\ SecondWrite => /\ job.kind = "edit" => Complete(files, owed, exposed)
                          /\ Complete(Put(files, job.done[1]), owed, exposed)
                          /\ Complete(Put(files, job.steps[1]), Succeeded, exposed)

\* A discard leaves the active generation alone.
DiscardInv ==
    job.kind = "discard" =>
        /\ exposed = {} /\ owed.now \subseteq ActiveIn(files)
        /\ Removed(0) => Complete(files, owed, exposed)
        /\ ~Removed(0) => files[Pending("Game.ini")] = NoFile
        /\ Removed(2) => files[Pending("Engine.ini")] = NoFile

\* A script moves what is shown, and in the end all of it is active.
ScriptInv ==
    job.kind = "script" =>
        /\ owed.next \subseteq ShownIn(files)
        /\ Moved(0) => Complete(files, owed, exposed)
        /\ ~Moved(0) => files[Pending("Game.ini")] = NoFile
        /\ Moved(2) \/ Moved(3) => files[Pending("Engine.ini")] = NoFile
        /\ Moved(3) => StoredIn(files) = files[Active("record")]

\* A manager that starts writes the record that is stored.
StartInv == web = "starting" /\ found # NoFile => found = StoredIn(files)

FilesInv == NoJobInv /\ SaveInv /\ DiscardInv /\ ScriptInv /\ StartInv

\* What an edit begins with, and what it will have written.
LEMMA SaveBeginsComplete ==
    ASSUME Types, JobTypes, NEW f \in Files, NEW r, IsResult(f, r), KeepsOthers(f, r),
           NEW kind \in {"edit", "rotation"}, kind = "edit" => Ordered(f, r),
           SaveBegins(f, r, kind), Complete(files, owed, exposed)
    PROVE  SaveInv'
<1> DEFINE w == FileWrite(f, r)
           v == RecordWrite(f, r)
           staged == Staged(f)
           less == Less(f, r)
           more == More(f, r)
<1>1. /\ Writes(f, r) # <<>>
      /\ job' = Job(kind, Writes(f, r), Generations(f, ShownBy(f, r) \ Shown(f)))
      /\ owed' = less /\ files' = files /\ exposed' = exposed
  BY DEF SaveBegins, ShownBy, Less
<1>2. job'.kind = kind /\ job'.steps = Writes(f, r) /\ job'.done = <<>> /\ Succeeded' = more
  <2>1. /\ job'.kind = kind /\ job'.steps = Writes(f, r) /\ job'.done = <<>>
        /\ job'.adds = Generations(f, ShownBy(f, r) \ Shown(f))
    BY <1>1 DEF Job
  <2>2. kind # "discard"
    OBVIOUS
  <2>3. Succeeded' = [now |-> owed'.now \cup job'.adds.now, next |-> owed'.next \cup job'.adds.next]
    BY <2>1, <2>2 DEF Succeeded
  <2> QED
    BY <1>1, <2>1, <2>3 DEF More
<1>3. Complete(files, less, exposed)
  <2>1. less.now \subseteq owed.now /\ less.next \subseteq owed.next
    BY DEF Less, Generations
  <2> QED
    BY <2>1 DEF Complete
<1>4. /\ staged \in BOOLEAN /\ IsFiles(files) /\ r.on # NoFile /\ r.record # NoFile
      /\ ~staged => files[Pending(f)] = NoFile /\ files[Pending("record")] = NoFile
  <2>1. r.on \in SUBSET Entries /\ r.record \in Record
    BY ViewTypes DEF IsResult
  <2> QED
    BY <2>1, NoFileAssumption, NotStaged DEF Types, Staged
<1>5. \A F : IsFiles(F) /\ (~staged => F[Pending(f)] = NoFile) =>
          /\ IsFiles(Put(F, w)) /\ NewFile(F, Put(F, w), f, r.on, staged)
          /\ SameRecord(F, Put(F, w))
          /\ Put(F, w)[Pending("record")] = F[Pending("record")]
  <2> TAKE F
  <2> HAVE IsFiles(F) /\ (~staged => F[Pending(f)] = NoFile)
  <2> DEFINE G == Put(F, w)
  <2>1. G = Put(F, [to |-> IF staged THEN Pending(f) ELSE Active(f), content |-> r.on])
    BY DEF FileWrite
  <2> HIDE DEF G, w, staged
  <2>2. /\ IsFiles(G)
        /\ OnIn(G, f) = r.on /\ StoredIn(G) = StoredIn(F)
        /\ \A g \in Files \ {f} : OnIn(G, g) = OnIn(F, g) /\ G[Active(g)] = F[Active(g)]
        /\ G[Active(f)] = IF staged THEN F[Active(f)] ELSE r.on
        /\ G[Active("record")] = F[Active("record")]
        /\ \A n \in Parts \ {f} : G[Pending(n)] = F[Pending(n)]
    BY <1>4, <2>1, PutConfig
  <2> QED
    BY <2>2, PathCases DEF G, NewFile, SameFile, SameRecord
<1>6. \A F : IsFiles(F) /\ (~staged => F[Pending("record")] = NoFile) =>
          /\ IsFiles(Put(F, v)) /\ NewRecord(F, Put(F, v), r.record, staged)
          /\ \A g \in Files : SameFile(F, Put(F, v), g)
          /\ \A n \in Files : Put(F, v)[Pending(n)] = F[Pending(n)]
  <2> TAKE F
  <2> HAVE IsFiles(F) /\ (~staged => F[Pending("record")] = NoFile)
  <2> DEFINE G == Put(F, v)
  <2>1. G = Put(F, [to |-> IF staged THEN Pending("record") ELSE Active("record"),
                    content |-> r.record])
    BY DEF RecordWrite
  <2> HIDE DEF G, v, staged
  <2>2. /\ IsFiles(G)
        /\ StoredIn(G) = r.record
        /\ \A g \in Files : OnIn(G, g) = OnIn(F, g) /\ G[Active(g)] = F[Active(g)]
        /\ G[Active("record")] = IF staged THEN F[Active("record")] ELSE r.record
        /\ \A n \in Files : G[Pending(n)] = F[Pending(n)]
    BY <1>4, <2>1, PutRecord
  <2> QED
    BY <2>2, PathCases DEF G, NewRecord, SameFile
<1>7. \A g \in Files : SameFile(files, files, g)
  BY DEF SameFile
<1>8. ASSUME r.record = Stored, files[v.to] # NoFile
      PROVE  NewRecord(files, files, r.record, staged)
  BY <1>8, Views, NotStaged DEF NewRecord, RecordWrite
<1>9. ASSUME r.on = On(f), files[w.to] # NoFile
      PROVE  NewFile(files, files, f, r.on, staged)
  BY <1>7, <1>9, Views, NotStaged DEF NewFile, FileWrite
<1> DEFINE Fw == Put(files, w)
           Fv == Put(files, v)
<1>10. /\ IsFiles(Fw) /\ NewFile(files, Fw, f, r.on, staged) /\ SameRecord(files, Fw)
       /\ Fw[Pending("record")] = files[Pending("record")]
  BY <1>4, <1>5
<1>11. /\ IsFiles(Fv) /\ NewRecord(files, Fv, r.record, staged)
       /\ \A g \in Files : SameFile(files, Fv, g)
       /\ \A n \in Files : Fv[Pending(n)] = files[Pending(n)]
  BY <1>4, <1>6
<1>12. CASE Writes(f, r) = <<w, v>> /\ ConfigFirst(r)
  <2> DEFINE G == Put(Fw, v)
  <2>1. NewRecord(Fw, G, r.record, staged) /\ \A g \in Files : SameFile(Fw, G, g)
    BY <1>4, <1>6, <1>10
  <2>2. NewFile(files, G, f, r.on, staged) /\ NewRecord(files, G, r.record, staged)
    BY <1>10, <2>1 DEF NewFile, NewRecord, SameFile, SameRecord
  <2>3. Complete(G, more, exposed)
    BY <2>2, BothComplete
  <2>4. kind = "edit" => Complete(Fw, less, exposed)
    BY <1>10, <1>12, FileComplete DEF Ordered
  <2>5. job'.steps = <<w, v>> /\ job'.steps[1] = w /\ job'.steps[2] = v
    BY <1>2, <1>12
  <2> HIDE DEF w, v, staged, less, more
  <2>6. ~OneWrite' /\ ~SecondWrite'
    BY <1>2, <2>5 DEF OneWrite, SecondWrite
  <2>7. /\ Complete(files', owed', exposed')
        /\ job'.kind = "edit" => Complete(Put(files', job'.steps[1]), owed', exposed')
        /\ Complete(Put(Put(files', job'.steps[1]), job'.steps[2]), Succeeded', exposed')
    BY <1>1, <1>2, <1>3, <2>3, <2>4, <2>5
  <2> QED
    BY <2>6, <2>7 DEF SaveInv
<1>13. CASE Writes(f, r) = <<v, w>> /\ ~ConfigFirst(r)
  <2> DEFINE G == Put(Fv, w)
  <2>1. NewFile(Fv, G, f, r.on, staged) /\ SameRecord(Fv, G)
    BY <1>4, <1>5, <1>11
  <2>2. NewFile(files, G, f, r.on, staged) /\ NewRecord(files, G, r.record, staged)
    BY <1>11, <2>1 DEF NewFile, NewRecord, SameFile, SameRecord
  <2>3. Complete(G, more, exposed)
    BY <2>2, BothComplete
  <2>4. kind = "edit" => Complete(Fv, less, exposed)
    BY <1>11, <1>13, RecordComplete DEF Ordered
  <2>5. job'.steps = <<v, w>> /\ job'.steps[1] = v /\ job'.steps[2] = w
    BY <1>2, <1>13
  <2> HIDE DEF w, v, staged, less, more
  <2>6. ~OneWrite' /\ ~SecondWrite'
    BY <1>2, <2>5 DEF OneWrite, SecondWrite
  <2>7. /\ Complete(files', owed', exposed')
        /\ job'.kind = "edit" => Complete(Put(files', job'.steps[1]), owed', exposed')
        /\ Complete(Put(Put(files', job'.steps[1]), job'.steps[2]), Succeeded', exposed')
    BY <1>1, <1>2, <1>3, <2>3, <2>4, <2>5
  <2> QED
    BY <2>6, <2>7 DEF SaveInv
<1>14. CASE Writes(f, r) = <<w>> /\ r.record = Stored /\ files[v.to] # NoFile
  <2>1. NewRecord(files, Fw, r.record, staged)
    BY <1>8, <1>10, <1>14 DEF NewRecord, SameRecord
  <2>2. Complete(Fw, more, exposed)
    BY <1>10, <2>1, BothComplete
  <2>3. job'.steps = <<w>> /\ job'.steps[1] = w
    BY <1>2, <1>14
  <2> HIDE DEF w, v, staged, less, more
  <2>4. ~TwoWrites' /\ ~SecondWrite'
    BY <1>2, <2>3 DEF TwoWrites, SecondWrite
  <2>5. Complete(files', owed', exposed')
        /\ Complete(Put(files', job'.steps[1]), Succeeded', exposed')
    BY <1>1, <1>2, <1>3, <2>2, <2>3
  <2> QED
    BY <2>4, <2>5 DEF SaveInv
<1>15. CASE Writes(f, r) = <<v>> /\ r.on = On(f) /\ files[w.to] # NoFile
  <2>1. NewFile(files, Fv, f, r.on, staged)
    BY <1>9, <1>11, <1>15 DEF NewFile, SameFile
  <2>2. Complete(Fv, more, exposed)
    BY <1>11, <2>1, BothComplete
  <2>3. job'.steps = <<v>> /\ job'.steps[1] = v
    BY <1>2, <1>15
  <2> HIDE DEF w, v, staged, less, more
  <2>4. ~TwoWrites' /\ ~SecondWrite'
    BY <1>2, <2>3 DEF TwoWrites, SecondWrite
  <2>5. Complete(files', owed', exposed')
        /\ Complete(Put(files', job'.steps[1]), Succeeded', exposed')
    BY <1>1, <1>2, <1>3, <2>2, <2>3
  <2> QED
    BY <2>4, <2>5 DEF SaveInv
<1> QED
  BY <1>1, <1>12, <1>13, <1>14, <1>15, WritesAre

\* What was replaced is put back.
LEMMA PutBack ==
    ASSUME IsFiles(files), NEW w, w.to \in Paths
    PROVE  Put(Put(files, w), [to |-> w.to, content |-> files[w.to]]) = files
<1> DEFINE F == Put(files, w)
           G == Put(F, [to |-> w.to, content |-> files[w.to]])
<1>1. F = Put(files, [to |-> w.to, content |-> w.content])
  BY DEF Put
<1>2. IsFiles(F) /\ \A path \in Paths : F[path] = IF path = w.to THEN w.content ELSE files[path]
  BY <1>1, PutAt
<1> HIDE DEF F
<1>3. IsFiles(G) /\ \A path \in Paths : G[path] = IF path = w.to THEN files[w.to] ELSE F[path]
  BY <1>2, PutAt
<1> HIDE DEF G
<1>4. \A path \in Paths : G[path] = files[path]
  BY <1>2, <1>3
<1>5. G = [path \in Paths |-> G[path]] /\ files = [path \in Paths |-> files[path]]
  BY <1>3 DEF IsFiles
<1>6. G = files
  BY <1>4, <1>5
<1> QED
  BY <1>6 DEF F, G

\* Without pending files, what is shown is what is active.
LEMMA NothingPending ==
    ASSUME NEW F, \A f \in Files : F[Pending(f)] = NoFile, StoredIn(F) = F[Active("record")]
    PROVE  ShownIn(F) = ActiveIn(F)
<1>1. \A f \in Files : OnIn(F, f) = F[Active(f)]
  BY DEF OnIn
<1>2. \A x : x \in ShownIn(F) <=> x \in ActiveIn(F)
  BY <1>1, InView
<1> QED
  BY <1>2

\* Files that differ in nothing that is seen.
LEMMA SameViews ==
    ASSUME NEW F, NEW G, \A f \in Files : OnIn(G, f) = OnIn(F, f), StoredIn(G) = StoredIn(F)
    PROVE  /\ ShownIn(G) = ShownIn(F)
           /\ (\A n \in Parts : G[Active(n)] = F[Active(n)]) => ActiveIn(G) = ActiveIn(F)
<1>1. \A x : x \in ShownIn(G) <=> x \in ShownIn(F)
  BY InView
<1>2. ASSUME \A n \in Parts : G[Active(n)] = F[Active(n)]
      PROVE  \A x : x \in ActiveIn(G) <=> x \in ActiveIn(F)
  BY <1>2, InView, PathCases
<1> QED
  BY <1>1, <1>2

\* An invariant of what has not changed.
LEMMA SameInv ==
    ASSUME FilesInv, UNCHANGED <<files, job, owed, exposed>>
    PROVE  NoJobInv' /\ SaveInv' /\ DiscardInv' /\ ScriptInv'
BY DEF FilesInv, NoJobInv, SaveInv, DiscardInv, ScriptInv, OneWrite, TwoWrites, SecondWrite,
       Removed, Moved, Succeeded

\* The job is over, nothing has been lost.
LEMMA JobOver ==
    ASSUME job' = NoJob, Complete(files', owed', exposed'), StartInv'
    PROVE  FilesInv'
BY DEF FilesInv, NoJobInv, SaveInv, DiscardInv, ScriptInv, NoJob

\* No step ends an exposure but that of a script.
LEMMA SafeBefore ==
    ASSUME Types, [ConfigNext]_configVars, Safe'
    PROVE  Safe
<1>1. ASSUME exposed \ {"script"} \subseteq exposed' PROVE Safe
  BY <1>1 DEF Safe
<1>2. ASSUME NEW f, NEW r, NEW kind, SaveBegins(f, r, kind)
      PROVE exposed \ {"script"} \subseteq exposed'
  BY <1>2 DEF SaveBegins
<1>3. CASE \E f \in Files : MutateConfig(f) \/ RecoverFromBackup(f)
  <2>1. PICK f \in Files : MutateConfig(f) \/ RecoverFromBackup(f)
    BY <1>3
  <2> QED
    BY <1>1, <1>2, <2>1 DEF MutateConfig, RecoverFromBackup
<1>4. CASE SaveMapRotation
  BY <1>1, <1>2, <1>4 DEF SaveMapRotation
<1>5. CASE DiscardPending
  BY <1>1, <1>5 DEF DiscardPending
<1>6. CASE WriteStep
  BY <1>1, <1>6 DEF WriteStep
<1>7. CASE WriteFails
  BY <1>1, <1>7 DEF WriteFails
<1>8. CASE ManagerStep
  BY <1>1, <1>8 DEF ManagerStep, StartReads, StartWrites, ManagerDies
<1>9. CASE ConfigScriptStep
  BY <1>1, <1>9
    DEF ConfigScriptStep, StartConfigScript, ScriptMoves, LaunchServer, ConfigScriptDies,
        ServerStops
<1>10. CASE UNCHANGED configVars
  BY <1>1, <1>10 DEF configVars
<1> QED
  BY <1>3, <1>4, <1>5, <1>6, <1>7, <1>8, <1>9, <1>10 DEF ConfigNext, EditStep

-----------------------------------------------------------------------------
(* The steps *)

\* What an edit keeps when it begins.
LEMMA SaveStep ==
    ASSUME Types, JobTypes, NEW f \in Files, NEW r, IsResult(f, r), KeepsOthers(f, r),
           NEW kind \in {"edit", "rotation"}, kind = "edit" => Ordered(f, r),
           SaveBegins(f, r, kind), FilesInv
    PROVE  FilesInv'
<1>1. job = NoJob /\ job'.kind = kind /\ web' = "up"
  BY DEF SaveBegins, Job
<1>2. Complete(files, owed, exposed)
  BY <1>1 DEF FilesInv, NoJobInv, NoJob
<1>3. SaveInv'
  BY <1>2, SaveBeginsComplete
<1> QED
  BY <1>1, <1>3 DEF FilesInv, NoJobInv, DiscardInv, ScriptInv, StartInv

\* The last write of an edit.
LEMMA LastWrite ==
    ASSUME Types, JobTypes, FilesInv, WriteStep, job.kind \in {"edit", "rotation"},
           OneWrite \/ SecondWrite
    PROVE  FilesInv'
<1>1. Len(job.steps) = 1 /\ Head(job.steps) = job.steps[1]
  BY Steps DEF OneWrite, SecondWrite
<1>2. job' = NoJob /\ files' = Put(files, job.steps[1]) /\ owed' = Succeeded
      /\ exposed' = exposed /\ web' = web
  BY <1>1 DEF WriteStep, Put
<1>3. web = "up"
  BY DEF JobTypes, OfManager
<1>4. Complete(Put(files, job.steps[1]), Succeeded, exposed)
  BY DEF FilesInv, SaveInv
<1>5. Complete(files', owed', exposed')
  BY <1>2, <1>4
<1> QED
  BY <1>2, <1>3, <1>5, JobOver DEF StartInv

\* The first write of two.
LEMMA FirstWrite ==
    ASSUME Types, JobTypes, FilesInv, WriteStep, job.kind \in {"edit", "rotation"}, TwoWrites
    PROVE  FilesInv'
<1> DEFINE w == job.steps[1]
           v == job.steps[2]
           saved == [to |-> w.to, content |-> files[w.to]]
<1>1. Len(job.steps) = 2 /\ Head(job.steps) = w /\ Tail(job.steps) = <<v>> /\ job.done = <<>>
  <2>1. PICK s, t : job.steps = <<s, t>> /\ s = w /\ t = v /\ job.done = <<>>
    BY DEF TwoWrites
  <2>2. Len(<<s, t>>) = 2 /\ Head(<<s, t>>) = s /\ Tail(<<s, t>>) = <<t>>
    BY Steps
  <2> QED
    BY <2>1, <2>2
<1>2. /\ files' = Put(files, w) /\ UNCHANGED <<web, owed, exposed>>
      /\ job' = [job EXCEPT !.steps = Tail(@), !.done = Append(@, saved)]
  BY <1>1 DEF WriteStep, Put
<1>3. job'.kind = job.kind /\ job'.adds = job.adds /\ job'.steps = Tail(job.steps)
      /\ job'.done = Append(job.done, saved)
  BY <1>2 DEF JobTypes
<1>4. Append(<<>>, saved) = <<saved>>
  BY Steps
<1>5. job'.steps = <<v>> /\ job'.done = <<saved>>
  BY <1>1, <1>3, <1>4
<1>6. Succeeded' = Succeeded
  BY <1>2, <1>3 DEF Succeeded
<1>7. Put(files', saved) = files
  BY <1>2, PutBack DEF Types, TwoWrites, IsWrite
<1>8. /\ Complete(files, owed, exposed)
      /\ job.kind = "edit" => Complete(Put(files, w), owed, exposed)
      /\ Complete(Put(Put(files, w), v), Succeeded, exposed)
  BY DEF FilesInv, SaveInv
<1> HIDE DEF w, v, saved
<1>9. job'.steps[1] = v /\ job'.done[1] = saved
  BY <1>5
<1>10. /\ job'.kind = "edit" => Complete(files', owed', exposed')
       /\ Complete(Put(files', job'.done[1]), owed', exposed')
       /\ Complete(Put(files', job'.steps[1]), Succeeded', exposed')
  BY <1>2, <1>3, <1>6, <1>7, <1>8, <1>9
<1>11. ~OneWrite' /\ ~TwoWrites'
  BY <1>5 DEF OneWrite, TwoWrites
<1>12. SaveInv'
  BY <1>10, <1>11 DEF SaveInv
<1>13. job'.kind \in {"edit", "rotation"} /\ web' = "up"
  BY <1>2, <1>3 DEF JobTypes, OfManager
<1> QED
  BY <1>12, <1>13 DEF FilesInv, NoJobInv, DiscardInv, ScriptInv, StartInv

\* A removal of a pending file.
LEMMA RemovalIs ==
    ASSUME Types, NEW n \in Parts, NEW G, G = Put(files, Removal(n))
    PROVE  /\ \A m \in Parts : G[Active(m)] = files[Active(m)]
           /\ G[Pending(n)] = NoFile
           /\ \A m \in Parts \ {n} : G[Pending(m)] = files[Pending(m)]
           /\ ActiveIn(G) = ActiveIn(files)
<1>1. Pending(n) \in Paths
  BY PathCases
<1>2. \A path \in Paths : G[path] = IF path = Pending(n) THEN NoFile ELSE files[path]
  BY <1>1, PutAt DEF Types, Removal
<1>3. /\ \A m \in Parts : G[Active(m)] = files[Active(m)]
      /\ G[Pending(n)] = NoFile
      /\ \A m \in Parts \ {n} : G[Pending(m)] = files[Pending(m)]
  BY <1>2, PathCases
<1>4. \A x : x \in ActiveIn(G) <=> x \in ActiveIn(files)
  BY <1>3, InView, PathCases
<1> QED
  BY <1>3, <1>4

\* How many files a discard has removed is known from its steps.
LEMMA RemovedIs ==
    /\ Removed(0) => Len(job.steps) = 3 /\ Head(job.steps) = Removal("Game.ini")
    /\ Removed(1) => Len(job.steps) = 2 /\ Head(job.steps) = Removal("Engine.ini")
    /\ Removed(2) => Len(job.steps) = 1 /\ Head(job.steps) = Removal("record")
<1>1. ASSUME NEW x, NEW y, NEW z
      PROVE  /\ Len(<<x, y, z>>) = 3 /\ Head(<<x, y, z>>) = x
             /\ Len(<<y, z>>) = 2 /\ Head(<<y, z>>) = y
             /\ Len(<<z>>) = 1 /\ Head(<<z>>) = z
  BY Steps
<1>2. Removed(0) => job.steps = <<Removal("Game.ini"), Removal("Engine.ini"), Removal("record")>>
  BY DEF Removed
<1>3. Removed(1) => job.steps = <<Removal("Engine.ini"), Removal("record")>>
  BY DEF Removed
<1>4. Removed(2) => job.steps = <<Removal("record")>>
  BY DEF Removed
<1> DEFINE a == Removal("Game.ini")
           b == Removal("Engine.ini")
           c == Removal("record")
<1>5. /\ Len(<<a, b, c>>) = 3 /\ Head(<<a, b, c>>) = a
      /\ Len(<<b, c>>) = 2 /\ Head(<<b, c>>) = b
      /\ Len(<<c>>) = 1 /\ Head(<<c>>) = c
  BY <1>1
<1> QED
  BY <1>2, <1>3, <1>4, <1>5

\* A removal leaves the active files alone; after the last one they are what is shown.
LEMMA DiscardStep ==
    ASSUME Types, JobTypes, FilesInv, WriteStep, job.kind = "discard"
    PROVE  FilesInv'
<1> DEFINE step == Head(job.steps)
<1>1. /\ exposed = {} /\ owed.now \subseteq ActiveIn(files)
      /\ ~Removed(0) => files[Pending("Game.ini")] = NoFile
      /\ Removed(2) => files[Pending("Engine.ini")] = NoFile
  BY DEF FilesInv, DiscardInv
<1>2. web = "up" /\ web' = web /\ files' = Put(files, step)
  BY DEF JobTypes, OfManager, WriteStep, Put
<1>3. "Game.ini" \in Parts /\ "Engine.ini" \in Parts /\ "record" \in Parts
  BY DEF Parts, Files
<1>4. CASE Removed(0)
  <2>1. Len(job.steps) = 3 /\ step = Removal("Game.ini")
    BY <1>4, RemovedIs
  <2>2. UNCHANGED <<owed, exposed>>
    BY <2>1 DEF WriteStep
  <2>3. files'[Pending("Game.ini")] = NoFile /\ ActiveIn(files') = ActiveIn(files)
    BY <1>2, <1>3, <2>1, RemovalIs
  <2>4. job'.kind = "discard" /\ Len(job'.steps) = 2
    BY <1>4, <2>1, Steps DEF WriteStep, JobTypes, Removed
  <2>5. ~Removed(0)' /\ ~Removed(2)'
    BY <2>4, Steps DEF Removed
  <2>6. exposed' = {} /\ owed'.now \subseteq ActiveIn(files')
    BY <1>1, <2>2, <2>3
  <2> QED
    BY <1>2, <2>3, <2>4, <2>5, <2>6 DEF FilesInv, NoJobInv, SaveInv, DiscardInv, ScriptInv, StartInv
<1>5. CASE Removed(1)
  <2>1. Len(job.steps) = 2 /\ step = Removal("Engine.ini") /\ ~Removed(0)
    BY <1>5, RemovedIs
  <2>2. UNCHANGED <<owed, exposed>>
    BY <2>1 DEF WriteStep
  <2>3. /\ files'[Pending("Game.ini")] = NoFile /\ files'[Pending("Engine.ini")] = NoFile
        /\ ActiveIn(files') = ActiveIn(files)
    BY <1>1, <1>2, <1>3, <2>1, RemovalIs
  <2>4. job'.kind = "discard" /\ Len(job'.steps) = 1
    BY <1>5, <2>1, Steps DEF WriteStep, JobTypes, Removed
  <2>5. ~Removed(0)'
    <3>1. Len(job'.steps) # 3
      BY <2>4
    <3>2. Len(<<Removal("Game.ini"), Removal("Engine.ini"), Removal("record")>>) = 3
      BY Steps
    <3> QED
      BY <3>1, <3>2 DEF Removed
  <2>6. exposed' = {} /\ owed'.now \subseteq ActiveIn(files')
    BY <1>1, <2>2, <2>3
  <2> QED
    BY <1>2, <2>3, <2>4, <2>5, <2>6 DEF FilesInv, NoJobInv, SaveInv, DiscardInv, ScriptInv, StartInv
<1>6. CASE Removed(2)
  <2>1. Len(job.steps) = 1 /\ step = Removal("record") /\ ~Removed(0)
    BY <1>6, RemovedIs
  <2>2. job' = NoJob /\ owed' = Succeeded /\ exposed' = {}
    BY <1>1, <2>1 DEF WriteStep
  <2>3. owed'.now = owed.now /\ owed'.next = owed.now
    BY <2>2 DEF JobTypes, Succeeded, Nothing
  <2>4. /\ files'[Pending("Game.ini")] = NoFile /\ files'[Pending("Engine.ini")] = NoFile
        /\ files'[Pending("record")] = NoFile /\ ActiveIn(files') = ActiveIn(files)
    BY <1>1, <1>2, <1>3, <1>6, <2>1, RemovalIs
  <2>5. ShownIn(files') = ActiveIn(files')
    BY <2>4, NothingPending DEF Files, StoredIn
  <2>6. Complete(files', owed', exposed')
    BY <1>1, <2>2, <2>3, <2>4, <2>5 DEF Complete
  <2> QED
    BY <1>2, <2>2, <2>6, JobOver DEF StartInv
<1> QED
  BY <1>4, <1>5, <1>6 DEF JobTypes

\* A write of an edit, a rotation or a discard.
LEMMA WriteStepKeeps ==
    ASSUME Types, JobTypes, FilesInv, WriteStep
    PROVE  FilesInv'
<1>1. job.kind = "discard" \/ job.kind \in {"edit", "rotation"}
  BY DEF WriteStep, OfManager
<1> QED
  BY <1>1, LastWrite, FirstWrite, DiscardStep DEF JobTypes

\* An interruption that exposes nothing.
LEMMA Interrupted ==
    ASSUME Types, JobTypes, FilesInv, job.kind \in OfManager, Safe', exposed' = exposed \cup Exposes
    PROVE  exposed' = exposed /\ Complete(files, owed, exposed)
<1>1. Exposes = {}
  BY DEF Exposes, Safe
<1>2. job.kind \in {"rotation", "discard"} => job.done = <<>>
  BY <1>1 DEF Exposes
<1>3. CASE job.kind = "discard"
  <2>1. Removed(0)
    BY <1>2, <1>3 DEF JobTypes, Removed
  <2> QED
    BY <1>1, <1>3, <2>1 DEF FilesInv, DiscardInv
<1>4. CASE job.kind = "edit"
  <2>1. OneWrite \/ TwoWrites \/ SecondWrite
    BY <1>4 DEF JobTypes
  <2> QED
    BY <1>1, <1>4, <2>1 DEF FilesInv, SaveInv
<1>5. CASE job.kind = "rotation"
  <2>1. OneWrite \/ TwoWrites
    BY <1>2, <1>5 DEF JobTypes, SecondWrite
  <2> QED
    BY <1>1, <1>5, <2>1 DEF FilesInv, SaveInv
<1> QED
  BY <1>3, <1>4, <1>5 DEF OfManager

\* A write that fails: what was replaced is put back, or stays half done.
LEMMA WriteFailsKeeps ==
    ASSUME Types, JobTypes, FilesInv, WriteFails, Safe'
    PROVE  FilesInv'
<1>1. job' = NoJob /\ UNCHANGED <<web, found, owed>> /\ job.kind \in OfManager /\ web = "up"
  BY DEF WriteFails, JobTypes
<1>2. CASE /\ job.kind # "discard" /\ job.done # <<>> /\ UNCHANGED exposed
           /\ files' = Put(files, Head(job.done))
  <2>1. job.kind \in {"edit", "rotation"}
    BY <1>1, <1>2 DEF OfManager
  <2>2. SecondWrite
    BY <1>2, <2>1 DEF JobTypes, OneWrite, TwoWrites
  <2>3. Head(job.done) = job.done[1]
    BY <2>2, Steps DEF SecondWrite
  <2>4. Complete(Put(files, job.done[1]), owed, exposed)
    BY <2>1, <2>2 DEF FilesInv, SaveInv
  <2>5. Complete(files', owed', exposed')
    BY <1>1, <1>2, <2>3, <2>4
  <2> QED
    BY <1>1, <2>5, JobOver DEF StartInv
<1>3. CASE exposed' = exposed \cup Exposes /\ UNCHANGED files
  <2>1. exposed' = exposed /\ Complete(files, owed, exposed)
    BY <1>1, <1>3, Interrupted
  <2>2. Complete(files', owed', exposed')
    BY <1>1, <1>3, <2>1
  <2> QED
    BY <1>1, <2>2, JobOver DEF StartInv
<1> QED
  BY <1>2, <1>3 DEF WriteFails, Put

\* What the recovery adds to the record is shown and active.
LEMMA RecoverKeeps ==
    ASSUME Types, JobTypes, FilesInv, NEW f \in Files, RecoverFromBackup(f)
    PROVE  FilesInv'
<1>1. PICK entries \in SUBSET (Of(f) \ Shown(f)) :
          /\ files' = [files EXCEPT ![Active("record")].off = @ \cup entries]
          /\ owed' = [now |-> owed.now \cup entries, next |-> owed.next \cup entries]
  BY DEF RecoverFromBackup
<1>2. /\ web = "down" /\ job = NoJob /\ UNCHANGED <<job, web, found, serverRunning, exposed>>
      /\ \A name \in Parts : files[Pending(name)] = NoFile
  BY DEF RecoverFromBackup, Exists
<1> DEFINE old == files[Active("record")]
           new == [old EXCEPT !.off = @ \cup entries]
<1>3. new.off = old.off \cup entries
  BY ViewTypes DEF Record
<1>4. files' = Put(files, [to |-> Active("record"), content |-> new])
  BY <1>1 DEF Put
<1>5. Active("record") \in Paths
  BY PathCases
<1> HIDE DEF new, old
<1>6. \A path \in Paths : files'[path] = IF path = Active("record") THEN new ELSE files[path]
  BY <1>4, <1>5, PutAt DEF Types
<1>7. /\ files'[Active("record")] = new /\ files'[Pending("record")] = NoFile
      /\ \A g \in Files : files'[Active(g)] = files[Active(g)] /\ files'[Pending(g)] = NoFile
  BY <1>2, <1>6, PathCases
<1>8. /\ StoredIn(files) = old /\ StoredIn(files') = new
      /\ \A g \in Files : OnIn(files', g) = OnIn(files, g)
  BY <1>2, <1>7, PathCases DEF StoredIn, OnIn, old
<1>9. \A x : x \in ShownIn(files) \/ x \in entries => x \in ShownIn(files')
  BY <1>3, <1>8, InView
<1>10. \A x : x \in ActiveIn(files) \/ x \in entries => x \in ActiveIn(files')
  BY <1>3, <1>7, InView DEF old
<1>11. Complete(files, owed, exposed)
  BY <1>2 DEF FilesInv, NoJobInv, NoJob
<1>12. Complete(files', owed', exposed')
  BY <1>1, <1>2, <1>9, <1>10, <1>11 DEF Complete
<1> QED
  BY <1>2, <1>12, JobOver DEF StartInv

\* A discard begins where the active files are complete.
LEMMA DiscardKeeps ==
    ASSUME Types, JobTypes, FilesInv, DiscardPending, Safe, Safe'
    PROVE  FilesInv'
<1>1. /\ web = "up" /\ job = NoJob /\ UNCHANGED <<files, web, found, serverRunning, owed>>
      /\ job'.kind = "discard" /\ job'.done = <<>>
      /\ job'.steps = <<Removal("Game.ini"), Removal("Engine.ini"), Removal("record")>>
  BY DEF DiscardPending, Job
<1>2. exposed' = exposed /\ exposed = {}
  BY DEF DiscardPending, Safe
<1>3. Complete(files, owed, exposed)
  BY <1>1 DEF FilesInv, NoJobInv, NoJob
<1>4. Complete(files', owed', exposed')
  BY <1>1, <1>2, <1>3
<1>5. exposed' = {} /\ owed'.now \subseteq ActiveIn(files')
  BY <1>2, <1>4 DEF Complete
<1>6. Removed(0)'
  BY <1>1 DEF Removed
<1>7. ~Removed(2)'
  <2>1. /\ Len(<<Removal("Game.ini"), Removal("Engine.ini"), Removal("record")>>) = 3
        /\ Len(<<Removal("record")>>) = 1
    BY Steps
  <2> QED
    BY <1>1, <2>1 DEF Removed
<1> QED
  BY <1>1, <1>4, <1>5, <1>6, <1>7
  DEF FilesInv, NoJobInv, SaveInv, DiscardInv, ScriptInv, StartInv

\* A manager finds the stored record; without one, beside pending files, it is exposed.
LEMMA StartReadsKeeps ==
    ASSUME Types, JobTypes, FilesInv, StartReads, Safe'
    PROVE  FilesInv'
<1> DEFINE old == {f \in Files : Exists(Pending(f))}
<1>1. UNCHANGED <<files, job, serverRunning, owed>>
  BY DEF StartReads
<1>2. ~(old # {} /\ ~Exists(Pending("record"))) /\ exposed' = exposed
  <2>1. exposed' = IF old # {} /\ ~Exists(Pending("record")) THEN exposed \cup {"start"}
                                                            ELSE exposed
    BY DEF StartReads
  <2> HIDE DEF old
  <2> QED
    BY <2>1 DEF Safe
<1>3. found' = files[Pending("record")]
  <2>1. Exists(Pending("record")) \/ old = {} => found' = files[Pending("record")]
    BY DEF StartReads
  <2> HIDE DEF old
  <2> QED
    BY <1>2, <2>1
<1>4. StartInv'
  BY <1>1, <1>3 DEF StartInv, StoredIn
<1> QED
  BY <1>1, <1>2, <1>4, SameInv DEF FilesInv

\* The record that is written is the one that was stored.
LEMMA StartWritesKeeps ==
    ASSUME Types, JobTypes, FilesInv, StartWrites
    PROVE  FilesInv'
<1>1. /\ web = "starting" /\ found' = NoFile /\ web' \in {"up", "down"}
      /\ UNCHANGED <<job, serverRunning, owed, exposed>>
  BY DEF StartWrites
<1>2. CASE files' = files
  BY <1>1, <1>2, SameInv DEF FilesInv, StartInv
<1>3. CASE found # NoFile /\ files' = [files EXCEPT ![Pending("record")] = found]
  <2>1. found = StoredIn(files)
    BY <1>1, <1>3 DEF FilesInv, StartInv
  <2>2. files' = Put(files, [to |-> Pending("record"), content |-> found])
    BY <1>3 DEF Put
  <2>3. /\ StoredIn(files') = found
        /\ \A g \in Files : OnIn(files', g) = OnIn(files, g) /\ files'[Active(g)] = files[Active(g)]
        /\ files'[Active("record")] = files[Active("record")]
        /\ \A n \in Files : files'[Pending(n)] = files[Pending(n)]
    <3> DEFINE staged == TRUE
    <3>1. files' = Put(files, [to |-> IF staged THEN Pending("record") ELSE Active("record"),
                               content |-> found])
      BY <2>2
    <3>2. IsFiles(files) /\ staged \in BOOLEAN /\ found # NoFile
          /\ (~staged => files[Pending("record")] = NoFile)
      BY <1>3 DEF Types
    <3>6. staged
      OBVIOUS
    <3> HIDE DEF staged
    <3> DEFINE G == Put(files, [to |-> IF staged THEN Pending("record") ELSE Active("record"),
                                content |-> found])
    <3>4. files' = G
      BY <3>1
    <3>5. G = Put(files, [to |-> IF staged THEN Pending("record") ELSE Active("record"),
                          content |-> found])
      OBVIOUS
    <3> HIDE DEF G
    <3>3. /\ IsFiles(G)
          /\ StoredIn(G) = found
          /\ \A g \in Files : OnIn(G, g) = OnIn(files, g) /\ G[Active(g)] = files[Active(g)]
          /\ G[Active("record")] = IF staged THEN files[Active("record")] ELSE found
          /\ \A n \in Files : G[Pending(n)] = files[Pending(n)]
      BY <3>5, <3>2, PutRecord
    <3> QED
      BY <3>3, <3>4, <3>6
  <2>4. ShownIn(files') = ShownIn(files) /\ ActiveIn(files') = ActiveIn(files)
    <3>1. \A n \in Parts : files'[Active(n)] = files[Active(n)]
      BY <2>3 DEF Parts
    <3> QED
      BY <2>1, <2>3, <3>1, SameViews
  <2>5. Complete(files, owed, exposed) => Complete(files', owed', exposed')
    BY <1>1, <2>4 DEF Complete
  <2>6. job.kind \in {"none", "script"}
    BY <1>1 DEF JobTypes
  <2>7. \A n \in 0 .. 3 : Moved(n)' <=> Moved(n)
    BY <1>1 DEF Moved
  <2>8. NoJobInv'
    BY <1>1, <2>5 DEF FilesInv, NoJobInv
  <2>9. ASSUME job.kind = "script" PROVE ScriptInv'
    <3>1. /\ owed.next \subseteq ShownIn(files)
          /\ Moved(0) => Complete(files, owed, exposed)
          /\ ~Moved(0) => files[Pending("Game.ini")] = NoFile
          /\ Moved(2) \/ Moved(3) => files[Pending("Engine.ini")] = NoFile
          /\ Moved(3) => StoredIn(files) = files[Active("record")]
      BY <2>9 DEF FilesInv, ScriptInv
    <3>2. owed'.next \subseteq ShownIn(files')
      BY <1>1, <2>4, <3>1
    <3>3. Moved(0)' => Complete(files', owed', exposed')
      BY <2>5, <2>7, <3>1
    <3>4. /\ ~Moved(0)' => files'[Pending("Game.ini")] = NoFile
          /\ Moved(2)' \/ Moved(3)' => files'[Pending("Engine.ini")] = NoFile
      BY <2>3, <2>7, <3>1 DEF Files
    <3>5. Moved(3)' => StoredIn(files') = files'[Active("record")]
      BY <2>1, <2>3, <2>7, <3>1
    <3> QED
      BY <3>2, <3>3, <3>4, <3>5 DEF ScriptInv
  <2>10. SaveInv' /\ DiscardInv' /\ StartInv' /\ (job.kind = "none" => ScriptInv')
    BY <1>1, <2>6 DEF SaveInv, DiscardInv, StartInv, ScriptInv
  <2> QED
    BY <2>6, <2>8, <2>9, <2>10 DEF FilesInv
<1> QED
  BY <1>2, <1>3 DEF StartWrites

\* A manager that ends between two writes of an edit leaves a copy of each entry.
LEMMA ManagerDiesKeeps ==
    ASSUME Types, JobTypes, FilesInv, ManagerDies, Safe'
    PROVE  FilesInv'
<1>1. web' = "down" /\ found' = NoFile /\ UNCHANGED <<files, serverRunning, owed>>
      /\ exposed' = exposed \cup Exposes
  BY DEF ManagerDies
<1>2. CASE job.kind \in OfManager
  <2>1. job' = NoJob
    BY <1>2 DEF ManagerDies
  <2>2. Complete(files', owed', exposed')
    BY <1>1, <1>2, Interrupted
  <2> QED
    BY <1>1, <2>1, <2>2, JobOver DEF StartInv
<1>3. CASE job.kind \notin OfManager
  <2>1. job' = job
    BY <1>3 DEF ManagerDies
  <2>2. exposed' = exposed
    BY <1>1, <1>3 DEF Exposes, OfManager
  <2> QED
    BY <1>1, <2>1, <2>2, SameInv DEF FilesInv, StartInv
<1> QED
  BY <1>2, <1>3

\* A script begins where what is shown is complete.
LEMMA StartScriptKeeps ==
    ASSUME Types, JobTypes, FilesInv, StartConfigScript
    PROVE  FilesInv'
<1>1. /\ job = NoJob /\ UNCHANGED <<files, web, found, serverRunning, owed, exposed>>
      /\ job'.kind = "script" /\ job'.done = <<>>
      /\ job'.steps = <<"Game.ini", "Engine.ini", "record">>
  BY DEF StartConfigScript, Job
<1>2. Complete(files, owed, exposed)
  BY <1>1 DEF FilesInv, NoJobInv, NoJob
<1>3. Complete(files', owed', exposed')
  BY <1>1, <1>2
<1>4. owed'.next \subseteq ShownIn(files')
  BY <1>3 DEF Complete
<1>5. Moved(0)' /\ ~Moved(2)' /\ ~Moved(3)'
  BY <1>1 DEF Moved
<1>6. StartInv'
  BY <1>1 DEF FilesInv, StartInv
<1> QED
  BY <1>1, <1>3, <1>4, <1>5, <1>6 DEF FilesInv, NoJobInv, SaveInv, DiscardInv, ScriptInv

\* How far a script is, exactly.
LEMMA MovedOnce ==
    \A n, m \in 0 .. 3 : Moved(n) /\ Moved(m) => n = m
<1>1. \A n \in 0 .. 3 : n = 0 \/ n = 1 \/ n = 2 \/ n = 3
  OBVIOUS
<1>2. /\ Moved(0) => job.done = <<>>
      /\ Moved(1) => job.done = <<"Game.ini">>
      /\ Moved(2) => job.done = <<"Game.ini", "Engine.ini">>
      /\ Moved(3) => job.done = <<"Game.ini", "Engine.ini", "record">>
  BY DEF Moved
<1>3. /\ Len(<<>>) = 0 /\ Len(<<"Game.ini">>) = 1 /\ Len(<<"Game.ini", "Engine.ini">>) = 2
      /\ Len(<<"Game.ini", "Engine.ini", "record">>) = 3
  BY Steps
<1>4. \A n \in 0 .. 3 : Moved(n) => Len(job.done) = n
  BY <1>1, <1>2, <1>3
<1> QED
  BY <1>4

\* A move leaves what is shown.
LEMMA MoveShows ==
    ASSUME Types, ScriptMoves, NEW name \in Parts, name = Head(job.steps)
    PROVE  /\ files'[Pending(name)] = NoFile
           /\ \A n \in Parts : files[Pending(n)] = NoFile => files'[Pending(n)] = NoFile
           /\ ShownIn(files') = ShownIn(files)
           /\ StoredIn(files') = StoredIn(files)
<1>1. CASE ~Exists(Pending(name))
  BY <1>1 DEF ScriptMoves, Exists
<1>2. CASE Exists(Pending(name))
  <2>1. files' = MoveOf(files, name)
    BY <1>2 DEF ScriptMoves, MoveOf
  <2>2. /\ files'[Active(name)] = files[Pending(name)] /\ files'[Pending(name)] = NoFile
        /\ \A n \in Parts \ {name} :
               files'[Active(n)] = files[Active(n)] /\ files'[Pending(n)] = files[Pending(n)]
    <3>1. /\ IsFiles(files') /\ \A path \in Paths : KeptAt(path, files'[path])
          /\ files'[Active(name)] = files[Pending(name)] /\ files'[Pending(name)] = NoFile
          /\ \A n \in Parts \ {name} :
                 files'[Active(n)] = files[Active(n)] /\ files'[Pending(n)] = files[Pending(n)]
      BY <1>2, <2>1, MovesAre DEF Exists
    <3> QED
      BY <3>1
  <2>3. \A f \in Files : OnIn(files', f) = OnIn(files, f)
    BY <1>2, <2>2, PathCases DEF OnIn, Exists
  <2>4. StoredIn(files') = StoredIn(files)
    BY <1>2, <2>2, PathCases DEF StoredIn, Exists
  <2> QED
    BY <2>2, <2>3, <2>4, SameViews
<1> QED
  BY <1>1, <1>2

\* A move by the script.
LEMMA ScriptMovesKeeps ==
    ASSUME Types, JobTypes, FilesInv, ScriptMoves
    PROVE  FilesInv'
<1>1. UNCHANGED <<web, found, serverRunning, owed, exposed>>
      /\ job.kind = "script" /\ job'.kind = "script"
  BY ScriptMovesJob DEF ScriptMoves
<1>2. /\ owed.next \subseteq ShownIn(files)
      /\ ~Moved(0) => files[Pending("Game.ini")] = NoFile
      /\ Moved(2) \/ Moved(3) => files[Pending("Engine.ini")] = NoFile
  BY <1>1 DEF FilesInv, ScriptInv
<1>3. Head(job.steps) \in Parts /\ "Game.ini" \in Parts /\ "Engine.ini" \in Parts
      /\ "record" \in Parts
  BY ScriptMovesJob DEF Parts, Files
<1>4. /\ files'[Pending(Head(job.steps))] = NoFile
      /\ \A n \in Parts : files[Pending(n)] = NoFile => files'[Pending(n)] = NoFile
      /\ ShownIn(files') = ShownIn(files) /\ StoredIn(files') = StoredIn(files)
  BY <1>3, MoveShows
<1>5. owed'.next \subseteq ShownIn(files')
  BY <1>1, <1>2, <1>4
<1>6. StartInv'
  BY <1>1, <1>4 DEF FilesInv, StartInv
<1>7. ~Moved(0)'
  BY ScriptMovesJob, MovedOnce DEF Moved
<1>8. files'[Pending("Game.ini")] = NoFile
  BY <1>2, <1>3, <1>4, ScriptMovesJob, MovedOnce
<1>9. Moved(2)' \/ Moved(3)' => files'[Pending("Engine.ini")] = NoFile
  BY <1>2, <1>3, <1>4, ScriptMovesJob DEF Moved
<1>10. Moved(3)' => StoredIn(files') = files'[Active("record")]
  BY <1>4, ScriptMovesJob DEF Moved, StoredIn
<1>11. ScriptInv'
  BY <1>5, <1>7, <1>8, <1>9, <1>10 DEF ScriptInv
<1> QED
  BY <1>1, <1>6, <1>11 DEF FilesInv, NoJobInv, SaveInv, DiscardInv

\* All is moved: what is shown is what is active.
LEMMA LaunchKeeps ==
    ASSUME Types, JobTypes, FilesInv, LaunchServer
    PROVE  FilesInv'
<1>1. /\ job.kind = "script" /\ job.steps = <<>> /\ job' = NoJob
      /\ UNCHANGED <<files, web, found>>
      /\ owed'.now = owed.next /\ owed'.next = owed.next
  BY DEF LaunchServer, Types, IsOwed
<1>2. Moved(3)
  BY <1>1 DEF JobTypes, Moved
<1>3. /\ owed.next \subseteq ShownIn(files) /\ files[Pending("Engine.ini")] = NoFile
      /\ StoredIn(files) = files[Active("record")]
  BY <1>1, <1>2 DEF FilesInv, ScriptInv
<1>4. ~Moved(0)
  BY <1>2, MovedOnce
<1>5. files[Pending("Game.ini")] = NoFile
  BY <1>1, <1>4 DEF FilesInv, ScriptInv
<1>6. ShownIn(files) = ActiveIn(files)
  BY <1>3, <1>5, NothingPending DEF Files
<1>7. Complete(files', owed', exposed')
  BY <1>1, <1>3, <1>6 DEF Complete
<1>8. StartInv'
  BY <1>1 DEF FilesInv, StartInv
<1> QED
  BY <1>1, <1>7, <1>8, JobOver

\* A script that ends has lost nothing of what is shown.
LEMMA ScriptDiesKeeps ==
    ASSUME Types, JobTypes, FilesInv, ConfigScriptDies
    PROVE  FilesInv'
<1>1. job.kind = "script" /\ job' = NoJob /\ UNCHANGED <<files, web, found, serverRunning, owed>>
  BY DEF ConfigScriptDies
<1>2. owed.next \subseteq ShownIn(files) /\ (Moved(0) => Complete(files, owed, exposed))
  BY <1>1 DEF FilesInv, ScriptInv
<1>3. CASE job.done = <<>>
  <2>1. exposed' = exposed
    BY <1>3 DEF ConfigScriptDies
  <2>2. Moved(0)
    BY <1>1, <1>3 DEF JobTypes, Moved
  <2> QED
    BY <1>1, <1>2, <2>1, <2>2, JobOver DEF FilesInv, StartInv
<1>4. CASE job.done # <<>>
  <2>1. exposed' # {}
    BY <1>4 DEF ConfigScriptDies
  <2>2. Complete(files', owed', exposed')
    BY <1>1, <1>2, <2>1 DEF Complete
  <2> QED
    BY <1>1, <2>2, JobOver DEF FilesInv, StartInv
<1> QED
  BY <1>3, <1>4

\* The server ends.
LEMMA ServerEndsKeeps ==
    ASSUME Types, JobTypes, FilesInv, ServerStops \/ UNCHANGED configVars
    PROVE  FilesInv'
<1>1. UNCHANGED <<files, job, web, found, owed, exposed>>
  BY DEF ServerStops, configVars
<1> QED
  BY <1>1, SameInv DEF FilesInv, StartInv

-----------------------------------------------------------------------------
(* Theorems *)

ConfigInv == Types /\ JobTypes /\ (Safe => FilesInv)

\* The initial files are complete.
LEMMA ConfigInitHasInv ==
    ConfigInit => ConfigInv
<1> SUFFICES ASSUME ConfigInit PROVE ConfigInv
  OBVIOUS
<1>1. PICK on \in SUBSET Entries, off \in SUBSET Entries :
          /\ files = [path \in Paths |->
                  IF path[1] = "pending" THEN NoFile
                  ELSE IF path[2] = "record" THEN [off |-> off, sections |-> {}]
                  ELSE on \cap Of(path[2])]
          /\ owed = [now |-> on \cup off, next |-> on \cup off]
  BY DEF ConfigInit
<1>2. job = NoJob /\ web = "down" /\ exposed = {}
  BY DEF ConfigInit
<1>3. /\ \A n \in Parts : files[Pending(n)] = NoFile
      /\ files[Active("record")] = [off |-> off, sections |-> {}]
      /\ \A f \in Files : files[Active(f)] = on \cap Of(f)
  <2>1. ASSUME NEW path \in Paths
        PROVE  files[path] =
                  IF path[1] = "pending" THEN NoFile
                  ELSE IF path[2] = "record" THEN [off |-> off, sections |-> {}]
                  ELSE on \cap Of(path[2])
    BY <1>1
  <2>2. \A n \in Parts : files[Pending(n)] = NoFile
    BY <2>1, PathCases
  <2>3. files[Active("record")] = [off |-> off, sections |-> {}]
    BY <2>1, PathCases
  <2>4. \A f \in Files : files[Active(f)] = on \cap Of(f)
    <3> TAKE f \in Files
    <3>1. Active(f) \in Paths /\ Active(f)[1] = "active" /\ Active(f)[2] = f /\ f # "record"
      BY PathCases
    <3> QED
      BY <2>1, <3>1
  <2> QED
    BY <2>2, <2>3, <2>4
<1>4. StoredIn(files) = files[Active("record")]
  BY <1>3, PathCases DEF StoredIn
<1>5. ShownIn(files) = ActiveIn(files)
  BY <1>3, <1>4, NothingPending, PathCases
<1>6. ASSUME NEW x \in on \cup off PROVE x \in ActiveIn(files)
  <2>1. CASE x \in off
    BY <1>3, <2>1, InView
  <2>2. CASE x \in on
    <3>1. PICK f \in Files : x \in Of(f)
      BY <2>2 DEF Entries, Files, Of
    <3> QED
      BY <1>3, <2>2, <3>1, InView
  <2> QED
    BY <2>1, <2>2
<1>7. Complete(files, owed, exposed)
  BY <1>1, <1>5, <1>6 DEF Complete
<1>8. FilesInv
  BY <1>2, <1>7 DEF FilesInv, NoJobInv, SaveInv, DiscardInv, ScriptInv, StartInv, NoJob
<1> QED
  BY <1>8, InitTypes DEF ConfigInv

\* Every step keeps the invariant, up to the first state that is exposed.
LEMMA ConfigNextKeeps ==
    ConfigInv /\ [ConfigNext]_configVars => ConfigInv'
<1> SUFFICES ASSUME ConfigInv, [ConfigNext]_configVars PROVE ConfigInv'
  OBVIOUS
<1>1. Types /\ JobTypes /\ Types' /\ JobTypes'
  BY TypesKept DEF ConfigInv
<1> SUFFICES ASSUME Safe' PROVE FilesInv'
  BY <1>1 DEF ConfigInv
<1>2. Safe /\ FilesInv
  BY <1>1, SafeBefore DEF ConfigInv
<1>3. CASE \E f \in Files : MutateConfig(f)
  <2>1. PICK f \in Files : MutateConfig(f)
    BY <1>3
  <2>2. PICK r \in Edits(f) : SaveBegins(f, r, "edit")
    BY <2>1 DEF MutateConfig
  <2>3. IsResult(f, r) /\ KeepsOthers(f, r) /\ Ordered(f, r)
    BY <1>1, EditsGood DEF Good
  <2> QED
    BY <1>1, <1>2, <2>2, <2>3, SaveStep
<1>4. CASE SaveMapRotation
  <2>1. PICK r \in Rotations : SaveBegins("Game.ini", r, "rotation")
    BY <1>4 DEF SaveMapRotation
  <2>2. IsResult("Game.ini", r) /\ KeepsOthers("Game.ini", r) /\ "Game.ini" \in Files
    BY <1>1, RotationGood DEF Files
  <2> QED
    BY <1>1, <1>2, <2>1, <2>2, SaveStep
<1>5. CASE \E f \in Files : RecoverFromBackup(f)
  BY <1>1, <1>2, <1>5, RecoverKeeps
<1>6. CASE DiscardPending \/ WriteStep \/ WriteFails
  BY <1>1, <1>2, <1>6, DiscardKeeps, WriteStepKeeps, WriteFailsKeeps
<1>7. CASE ManagerStep
  BY <1>1, <1>2, <1>7, StartReadsKeeps, StartWritesKeeps, ManagerDiesKeeps DEF ManagerStep
<1>8. CASE ConfigScriptStep \/ UNCHANGED configVars
  BY <1>1, <1>2, <1>8, StartScriptKeeps, ScriptMovesKeeps, LaunchKeeps, ScriptDiesKeeps,
     ServerEndsKeeps DEF ConfigScriptStep
<1> QED
  BY <1>3, <1>4, <1>5, <1>6, <1>7, <1>8 DEF ConfigNext, EditStep

\* The views of the module are those of the invariant.
LEMMA ConfigInvIsComplete ==
    ConfigInv => NothingIsLost
<1> SUFFICES ASSUME ConfigInv PROVE NothingIsLost
  OBVIOUS
<1>1. ASSUME job = NoJob, exposed \subseteq {"script"}, NEW x \in owed.next
      PROVE  x \in UNION {Shown(f) : f \in Files}
  <2>1. Complete(files, owed, exposed)
    BY <1>1 DEF ConfigInv, Safe, FilesInv, NoJobInv, NoJob
  <2>2. x \in ShownIn(files)
    BY <1>1, <2>1 DEF Complete
  <2>3. PICK f \in Files : x \in OnIn(files, f) \/ (x \in StoredIn(files).off /\ x \in Of(f))
    <3>1. CASE \E f \in Files : x \in OnIn(files, f)
      BY <3>1
    <3>2. CASE x \in StoredIn(files).off
      <4>1. x \in Entries
        BY <3>2, ViewTypes DEF ConfigInv, Record
      <4>2. \E f \in Files : x \in Of(f)
        BY <4>1 DEF Entries, Files, Of
      <4> QED
        BY <3>2, <4>2
    <3> QED
      BY <2>2, <3>1, <3>2, InView
  <2>4. x \in Shown(f)
    BY <2>3, Views DEF Shown
  <2> QED
    BY <2>4
<1>2. ASSUME job = NoJob, exposed = {}, NEW x \in owed.now
      PROVE  x \in (UNION {files[Active(f)] : f \in Files}) \cup files[Active("record")].off
  <2>1. Complete(files, owed, exposed)
    BY <1>2 DEF ConfigInv, Safe, FilesInv, NoJobInv, NoJob
  <2>2. x \in ActiveIn(files)
    BY <1>2, <2>1 DEF Complete
  <2> QED
    BY <2>2 DEF ActiveIn
<1> QED
  BY <1>1, <1>2 DEF NothingIsLost, ShownIsComplete, ActiveIsKept

\* The invariant implies the types of the module.
LEMMA ConfigInvHasTypes ==
    ConfigInv => ConfigTypeOK
<1> SUFFICES ASSUME ConfigInv PROVE ConfigTypeOK
  OBVIOUS
<1>1. \A path \in Paths : KeptAt(path, files[path])
  BY DEF ConfigInv, Types
<1>2. \A path \in Paths : path[1] = "active" => files[path] # NoFile
  BY <1>1 DEF KeptAt
<1>3. \A path \in Paths : files[path] # NoFile =>
           IF path[2] = "record" THEN files[path] \in Record
                                 ELSE files[path] \subseteq Of(path[2])
  BY <1>1 DEF KeptAt, Fits
<1> QED
  BY <1>2, <1>3 DEF ConfigInv, Types, JobTypes, ConfigTypeOK, IsOwed

\* The invariant of the configuration files.
LEMMA ConfigInvariance == ConfigSpec => []ConfigInv
BY ConfigInitHasInv, ConfigNextKeeps, PTL DEF ConfigSpec

\* Every reachable state of the configuration files has the declared types, and
\* the active files are always there, for any finite files (persistConfigState,
\* initializeDisabledINIState and apply_pending_config of server.sh).
THEOREM ConfigTypeCorrect == ConfigSpec => []ConfigTypeOK
BY ConfigInvariance, ConfigInvHasTypes, PTL

\* An entry that no edit has removed is shown, enabled or disabled, and stays
\* what a discard returns to, for any finite files: wherever an edit, a rotation,
\* a discard, a start of the server or of a manager ends between two of its
\* writes, but for the interruptions that NothingIsLost names
\* (persistConfigState, discardPending, initializeDisabledINIState and
\* apply_pending_config of server.sh).
THEOREM EntriesAreKept == ConfigSpec => []NothingIsLost
BY ConfigInvariance, ConfigInvIsComplete, PTL

=============================================================================
