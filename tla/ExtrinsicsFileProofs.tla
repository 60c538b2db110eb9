------------------------ MODULE ExtrinsicsFileProofs ------------------------
(***************************************************************************)
(* Theorems about ExtrinsicsFile, for any number of cameras and windows.   *)
(***************************************************************************)
EXTENDS ExtrinsicsFile, TLAPS

LEMMA EmptyType == Empty \in Contents
BY DEF Empty, Contents

LEMMA InitType == Init => TypeOK
<1> SUFFICES ASSUME Init PROVE TypeOK
  OBVIOUS
<1>1. file \in Contents /\ committed \in Contents /\ entries \subseteq Cams
  BY DEF Init, Present
<1>2. copy \in [Writers -> Contents]
  BY EmptyType DEF Init
<1>3. clean \in [Writers -> BOOLEAN] /\ damaged \in BOOLEAN
  BY DEF Init
<1> QED
  BY <1>1, <1>2, <1>3, FileAssumption DEF Init, TypeOK, Stages

LEMMA NodeType ==
  ASSUME TypeOK,
         NodeLaunch \/ NodeGroundTruth \/ NodeReadBack \/ \E c \in Cams : NodeLoad(c) \/ NodeSolve(c)
  PROVE  TypeOK'
<1> USE DEF Stages
<1>1. CASE NodeLaunch
  BY <1>1, FileAssumption DEF TypeOK, NodeLaunch, NobodyWrites, Open
<1>2. CASE NodeReadBack
  <2>1. NodeDocument \in Contents
    BY DEF NodeDocument, TypeOK, Contents
  <2>2. damaged' \in BOOLEAN
    BY <1>2, Zenon DEF NodeReadBack
  <2> QED
    BY <1>2, <2>1, <2>2 DEF TypeOK, NodeReadBack, nodeVars
<1>3. ASSUME NEW c \in Cams, NodeLoad(c) PROVE TypeOK'
  <2>1. Entry(file, c) \in Poses
    BY <1>3, FileAssumption DEF Entry, NodeLoad, Readable, TypeOK, Contents
  <2> QED
    BY <1>3, <2>1 DEF TypeOK, NodeLoad, historyVars
<1>4. ASSUME NEW c \in Cams, NodeSolve(c) PROVE TypeOK'
  BY <1>4 DEF TypeOK, NodeSolve, historyVars
<1>5. CASE NodeGroundTruth
  BY <1>5 DEF TypeOK, NodeGroundTruth, historyVars
<1> QED
  BY <1>1, <1>2, <1>3, <1>4, <1>5

LEMMA ToolType ==
  ASSUME TypeOK, NEW t \in Tools, ToolOpen(t) \/ ToolAdjust(t) \/ ToolRead(t)
  PROVE  TypeOK'
<1> USE DEF Stages
<1>1. CamOf[t] \in Cams
  BY FileAssumption
<1>2. CASE ToolOpen(t)
  <2>1. file[CamOf[t]] \in Poses
    BY <1>1, <1>2 DEF ToolOpen, HasEntry, Readable, TypeOK, Contents
  <2> QED
    BY <1>2, <2>1 DEF TypeOK, ToolOpen, nodeVars, historyVars
<1>3. CASE ToolAdjust(t)
  BY <1>3 DEF TypeOK, ToolAdjust, nodeVars, historyVars
<1>4. CASE ToolRead(t)
  <2>1. ToolDocument(t) \in Contents
    BY <1>1, <1>4 DEF ToolRead, ToolDocument, HasEntry, Readable, TypeOK, Contents
  <2>2. clean' \in [Writers -> BOOLEAN]
    BY <1>4 DEF ToolRead, TypeOK, NobodyWrites
  <2> QED
    BY <1>4, <2>1, <2>2 DEF TypeOK, ToolRead, nodeVars
<1> QED
  BY <1>2, <1>3, <1>4

LEMMA WriterType ==
  ASSUME TypeOK, NEW w \in Writers, Truncate(w) \/ Finish(w) \/ Die(w)
  PROVE  TypeOK'
<1> USE EmptyType DEF Stages
<1>1. CASE Truncate(w)
  <2>1. clean' \in [Writers -> BOOLEAN]
    BY <1>1 DEF Truncate, TypeOK
  <2> QED
    BY <1>1, <2>1 DEF TypeOK, Truncate, nodeVars
<1>2. CASE Finish(w)
  BY <1>2 DEF TypeOK, Finish, nodeVars
<1>3. CASE Die(w)
  <2>1. damaged' \in BOOLEAN
    BY <1>3, Zenon DEF Die
  <2> QED
    BY <1>3, <2>1 DEF TypeOK, Die, nodeVars
<1> QED
  BY <1>1, <1>2, <1>3

LEMMA TypeStep == TypeOK /\ [Next]_vars => TypeOK'
<1> SUFFICES ASSUME TypeOK, [Next]_vars PROVE TypeOK'
  OBVIOUS
<1>1. CASE UNCHANGED vars
  BY <1>1 DEF TypeOK, vars, nodeVars, historyVars
<1> QED
  BY <1>1, NodeType, ToolType, WriterType DEF Next

(* Whatever the writers do to each other, the content of the file is that   *)
(* of a camera table, or Garbled, and memory holds poses.                   *)
THEOREM FileTypeCorrect == Spec => []TypeOK
BY InitType, TypeStep, PTL DEF Spec

(***************************************************************************)
(* Writes that do not overlap are isolated.                                *)
(***************************************************************************)
LEMMA IsolationInit == Init => IsolationInv
<1> SUFFICES ASSUME Init PROVE IsolationInv
  OBVIOUS
<1>1. file = committed /\ \A w \in Writers : clean[w] = FALSE
  BY DEF Init
<1>2. Node \in Writers
  BY DEF Writers
<1> QED
  BY <1>1, <1>2 DEF IsolationInv, QuietFile, CleanSession, NodeMemory

(* A step of w that leaves the file alone, and does not open it, preserves  *)
(* the clean sessions of the other writers.                                 *)
LEMMA OthersKeepSession ==
  ASSUME TypeOK, IsolationInv, NEW w \in Writers, NEW v \in Writers \ {w},
         ~Open(w)', UNCHANGED <<file, committed>>,
         v = Node => UNCHANGED solved,
         stage' = [stage EXCEPT ![w] = stage'[w]],
         clean' = [clean EXCEPT ![w] = clean'[w]],
         copy' = [copy EXCEPT ![w] = copy'[w]]
  PROVE  CleanSession(v)'
<1>1. stage'[v] = stage[v] /\ clean'[v] = clean[v] /\ copy'[v] = copy[v]
  BY DEF TypeOK
<1>2. \A u \in Writers : Open(u)' => Open(u)
  BY DEF TypeOK, Open
<1>3. CleanSession(v)
  BY DEF IsolationInv
<1>4. Own(v)' = Own(v)
  BY DEF Own
<1>5. (Open(v)' <=> Open(v)) /\ (InSession(v)' <=> InSession(v))
  BY <1>1 DEF Open, InSession
<1> QED
  BY <1>1, <1>2, <1>3, <1>4, <1>5 DEF CleanSession, Present

(* What the writers put together to be written has the entries they found.  *)
LEMMA NodeDocumentEntries == TypeOK => Present(NodeDocument) = Present(file)
<1> SUFFICES ASSUME TypeOK PROVE Present(NodeDocument) = Present(file)
  OBVIOUS
<1>1. \A c \in Cams : camera_params[c] # Absent
  BY FileAssumption DEF TypeOK
<1>2. \A c \in Cams : NodeDocument[c] # Absent <=> file[c] # Absent
  BY <1>1 DEF NodeDocument
<1> QED
  BY <1>2 DEF Present

LEMMA ToolDocumentEntries ==
  ASSUME TypeOK, NEW t \in Tools, HasEntry(t)
  PROVE  Present(ToolDocument(t)) = Present(file)
BY FileAssumption DEF Present, ToolDocument, HasEntry, Readable, TypeOK, Contents

LEMMA NodeIsolation ==
  ASSUME TypeOK, IsolationInv,
         NodeLaunch \/ NodeGroundTruth \/ NodeReadBack \/ \E c \in Cams : NodeLoad(c) \/ NodeSolve(c)
  PROVE  IsolationInv'
<1>1. Node \in Writers
  BY DEF Writers
<1>2. /\ ~Open(Node)
      /\ ~Open(Node)'
      /\ UNCHANGED <<file, committed>>
      /\ stage' = [stage EXCEPT ![Node] = stage'[Node]]
      /\ clean' = [clean EXCEPT ![Node] = clean'[Node]]
      /\ copy' = [copy EXCEPT ![Node] = copy'[Node]]
  BY <1>1 DEF NodeLaunch, NodeGroundTruth, NodeReadBack, NodeLoad, NodeSolve, Open, historyVars,
         TypeOK
<1>3. \A v \in Writers \ {Node} : CleanSession(v)'
  BY <1>1, <1>2, OthersKeepSession
<1>4. \A v \in Writers : Open(v)' <=> Open(v)
  BY <1>1, <1>2 DEF Open, TypeOK
<1>5. QuietFile'
  BY <1>2, <1>4 DEF IsolationInv, QuietFile, NobodyWrites
<1>6. clean[Node] /\ InSession(Node) => NobodyWrites /\ file = committed
  BY <1>1, <1>2 DEF IsolationInv, CleanSession, QuietFile, NobodyWrites
<1>7. CASE NodeLaunch
  <2>1. stage'[Node] = "running" /\ loaded' = {} /\ clean'[Node] = NobodyWrites
    BY <1>1, <1>7 DEF NodeLaunch, TypeOK
  <2>2. CleanSession(Node)'
    BY <1>4, <2>1 DEF CleanSession, Open, NobodyWrites
  <2>3. NodeMemory'
    BY <2>1 DEF NodeMemory
  <2> QED
    BY <1>3, <1>5, <2>2, <2>3 DEF IsolationInv
<1>8. ASSUME NEW c \in Cams, NodeLoad(c) PROVE IsolationInv'
  <2>1. /\ stage'[Node] = "running" /\ UNCHANGED <<stage, clean, solved>>
        /\ InSession(Node)
    BY <1>8 DEF NodeLoad, historyVars, InSession
  <2>2. CleanSession(Node)'
    BY <1>1, <1>4, <2>1 DEF IsolationInv, CleanSession, Open
  <2>3. NodeMemory'
    <3> SUFFICES ASSUME clean[Node]
                 PROVE  /\ committed # Garbled
                        /\ \A d \in loaded' \ solved : camera_params'[d] = Entry(committed, d)
      BY <1>2, <2>1 DEF NodeMemory, Entry
    <3>1. file = committed /\ committed # Garbled
      BY <1>6, <1>8, <2>1 DEF NodeLoad, Readable
    <3>2. \A d \in loaded \ solved : camera_params[d] = Entry(committed, d)
      BY <2>1 DEF IsolationInv, NodeMemory
    <3> QED
      BY <1>8, <3>1, <3>2 DEF NodeLoad, TypeOK
  <2> QED
    BY <1>3, <1>5, <2>2, <2>3 DEF IsolationInv
<1>9. ASSUME NEW c \in Cams, NodeSolve(c) PROVE IsolationInv'
  <2>1. /\ stage'[Node] = "running" /\ UNCHANGED <<stage, clean, loaded>>
        /\ solved' = solved \cup {c} /\ InSession(Node)
        /\ \A d \in Cams \ solved' : camera_params'[d] = camera_params[d]
    BY <1>9 DEF NodeSolve, historyVars, InSession, TypeOK
  <2>2. CleanSession(Node)'
    BY <1>1, <1>4, <2>1 DEF IsolationInv, CleanSession, Open
  <2>3. NodeMemory'
    BY <1>2, <2>1 DEF IsolationInv, NodeMemory, Entry, TypeOK
  <2> QED
    BY <1>3, <1>5, <2>2, <2>3 DEF IsolationInv
<1>10. CASE NodeReadBack
  <2>1. /\ stage'[Node] = "copied" /\ UNCHANGED <<clean, solved, loaded, camera_params>>
        /\ copy'[Node] = NodeDocument /\ loaded = Cams /\ Readable
        /\ InSession(Node)
    BY <1>1, <1>10 DEF NodeReadBack, nodeVars, InSession, TypeOK
  <2>2. CleanSession(Node)'
    <3> SUFFICES ASSUME clean[Node]
                 PROVE  /\ \A v \in Writers \ {Node} : ~Open(v)
                        /\ committed # Garbled
                        /\ Present(NodeDocument) = Present(committed)
                        /\ \A c \in Cams \ solved : NodeDocument[c] = committed[c]
      BY <1>2, <1>4, <2>1 DEF CleanSession, Own, Present
    <3>1. NobodyWrites /\ file = committed /\ committed # Garbled
      BY <1>6, <2>1 DEF Readable
    <3>2. \A c \in Cams \ solved : camera_params[c] = Entry(committed, c)
      BY <2>1 DEF IsolationInv, NodeMemory
    <3> QED
      BY <3>1, <3>2, NodeDocumentEntries DEF NodeDocument, Entry, NobodyWrites
  <2>3. NodeMemory'
    BY <1>2, <2>1 DEF IsolationInv, NodeMemory, Entry
  <2> QED
    BY <1>3, <1>5, <2>2, <2>3 DEF IsolationInv
<1>11. CASE NodeGroundTruth
  <2>1. UNCHANGED <<stage, clean, copy, solved, loaded, camera_params, committed, file>>
    BY <1>11 DEF NodeGroundTruth, historyVars
  <2> QED
    BY <1>3, <1>5, <2>1
       DEF IsolationInv, CleanSession, NodeMemory, InSession, Own, Entry, Open, Empty
<1> QED
  BY <1>7, <1>8, <1>9, <1>10, <1>11

LEMMA ToolIsolation ==
  ASSUME TypeOK, IsolationInv, NEW t \in Tools, ToolOpen(t) \/ ToolAdjust(t) \/ ToolRead(t)
  PROVE  IsolationInv'
<1>1. t \in Writers /\ t # Node /\ CamOf[t] \in Cams
  BY FileAssumption DEF Writers
<1>2. /\ ~Open(t)
      /\ ~Open(t)'
      /\ UNCHANGED <<file, committed, nodeVars>>
      /\ stage' = [stage EXCEPT ![t] = stage'[t]]
      /\ clean' = [clean EXCEPT ![t] = clean'[t]]
      /\ copy' = [copy EXCEPT ![t] = copy'[t]]
  BY <1>1 DEF ToolOpen, ToolAdjust, ToolRead, Open, historyVars, TypeOK
<1>3. \A v \in Writers \ {t} : CleanSession(v)'
  BY <1>1, <1>2, OthersKeepSession DEF nodeVars
<1>4. \A v \in Writers : Open(v)' <=> Open(v)
  BY <1>1, <1>2 DEF Open, TypeOK
<1>5. QuietFile'
  BY <1>2, <1>4 DEF IsolationInv, QuietFile, NobodyWrites
<1>6. NodeMemory'
  <2>1. stage'[Node] = stage[Node] /\ clean'[Node] = clean[Node]
    BY <1>1, <1>2 DEF TypeOK, Writers
  <2> QED
    BY <1>2, <2>1 DEF IsolationInv, NodeMemory, InSession, Entry, nodeVars
<1>7. CleanSession(t)'
  <2>1. CASE ToolOpen(t) \/ ToolAdjust(t)
    <3>1. stage'[t] = "running"
      BY <1>1, <2>1 DEF ToolOpen, ToolAdjust, TypeOK
    <3> QED
      BY <1>1, <3>1 DEF CleanSession, InSession
  <2>2. CASE ToolRead(t)
    <3>1. /\ stage'[t] = "copied" /\ clean'[t] = NobodyWrites
          /\ copy'[t] = ToolDocument(t) /\ Readable
      BY <1>1, <2>2 DEF ToolRead, HasEntry, TypeOK
    <3>2. NobodyWrites => file = committed
      BY DEF IsolationInv, QuietFile
    <3>3. \A c \in Cams \ {CamOf[t]} : ToolDocument(t)[c] = file[c]
      BY <3>1 DEF ToolDocument, Readable, TypeOK, Contents
    <3>4. Own(t)' = {CamOf[t]}
      BY <1>1 DEF Own
    <3>5. Present(ToolDocument(t)) = Present(file)
      BY <2>2, ToolDocumentEntries DEF ToolRead
    <3> QED
      BY <1>2, <1>4, <3>1, <3>2, <3>3, <3>4, <3>5
         DEF CleanSession, Readable, NobodyWrites, Present
  <2> QED
    BY <2>1, <2>2
<1> QED
  BY <1>3, <1>5, <1>6, <1>7 DEF IsolationInv

(* Only one writer at a time is clean when another has the file open.       *)
LEMMA OpenSpoils ==
  ASSUME IsolationInv, NEW w \in Writers, Open(w), NEW v \in Writers \ {w}
  PROVE  ~(clean[v] /\ InSession(v))
BY DEF IsolationInv, CleanSession

LEMMA WriterIsolation ==
  ASSUME TypeOK, IsolationInv, NEW w \in Writers, Truncate(w) \/ Finish(w) \/ Die(w)
  PROVE  IsolationInv'
<1>1. Node \in Writers
  BY DEF Writers
<1>2. \A v \in Writers \ {w} : stage'[v] = stage[v] /\ copy'[v] = copy[v]
  BY DEF Truncate, Finish, Die, TypeOK
<1>3. UNCHANGED nodeVars
  BY DEF Truncate, Finish, Die
<1>4. CASE Truncate(w)
  <2>1. /\ Open(w)' /\ stage[w] = "copied" /\ file' = Empty /\ UNCHANGED <<committed, copy>>
        /\ clean'[w] = clean[w] /\ \A v \in Writers \ {w} : clean'[v] = FALSE
    BY <1>4 DEF Truncate, Open, TypeOK
  <2>2. QuietFile'
    BY <2>1 DEF QuietFile, NobodyWrites
  <2>3. InSession(w) /\ InSession(w)' /\ stage'[w] = "open"
    BY <2>1 DEF InSession, Open
  <2>4. Own(w)' = Own(w) /\ Empty' = Empty
    BY <1>3 DEF Own, Empty, nodeVars
  <2>5. CleanSession(w)'
    BY <1>2, <2>1, <2>3, <2>4 DEF IsolationInv, CleanSession, Open
  <2>6. NodeMemory'
    <3>1. CASE w = Node
      BY <1>3, <2>1, <2>3, <3>1 DEF IsolationInv, NodeMemory, Entry, nodeVars
    <3>2. CASE w # Node
      BY <1>1, <2>1, <3>2 DEF NodeMemory
    <3> QED
      BY <3>1, <3>2
  <2> QED
    BY <2>1, <2>2, <2>5, <2>6 DEF IsolationInv, CleanSession
<1>5. CASE Finish(w) \/ Die(w)
  <2>1. /\ ~InSession(w)' /\ ~Open(w)' /\ UNCHANGED clean
    BY <1>5 DEF Finish, Die, InSession, Open, TypeOK
  <2>2. CleanSession(w)'
    BY <2>1 DEF CleanSession
  <2>3. \A v \in Writers \ {w} : (Open(v)' <=> Open(v)) /\ (InSession(v)' <=> InSession(v))
    BY <1>2 DEF Open, InSession
  <2>4. CASE Open(w)
    <3>1. \A v \in Writers \ {w} : ~(clean'[v] /\ InSession(v)')
      BY <2>1, <2>3, <2>4, OpenSpoils
    <3>2. file' = committed'
      BY <1>5, <2>4 DEF Finish, Die
    <3> QED
      BY <1>1, <2>1, <2>2, <3>1, <3>2 DEF IsolationInv, QuietFile, CleanSession, NodeMemory
  <2>5. CASE ~Open(w)
    <3>1. UNCHANGED <<file, committed>>
      BY <1>5, <2>5 DEF Finish, Die
    <3>2. QuietFile'
      BY <2>3, <2>5, <3>1 DEF IsolationInv, QuietFile, NobodyWrites
    <3>3. \A v \in Writers \ {w} : Own(v)' = Own(v)
      BY <1>3 DEF Own, nodeVars
    <3>4. \A v \in Writers \ {w} : CleanSession(v)'
      BY <1>2, <2>1, <2>3, <3>1, <3>3 DEF IsolationInv, CleanSession
    <3>5. NodeMemory'
      BY <1>1, <1>3, <2>1, <2>3, <3>1 DEF IsolationInv, NodeMemory, Entry, nodeVars
    <3> QED
      BY <2>2, <3>2, <3>4, <3>5 DEF IsolationInv
  <2> QED
    BY <2>4, <2>5
<1> QED
  BY <1>4, <1>5

LEMMA IsolationStep == TypeOK /\ IsolationInv /\ [Next]_vars => IsolationInv'
<1> SUFFICES ASSUME TypeOK, IsolationInv, [Next]_vars PROVE IsolationInv'
  OBVIOUS
<1>1. CASE UNCHANGED vars
  BY <1>1 DEF IsolationInv, QuietFile, CleanSession, NodeMemory, NobodyWrites, Open,
         InSession, Own, Entry, vars, nodeVars, historyVars
<1> QED
  BY <1>1, NodeIsolation, ToolIsolation, WriterIsolation DEF Next

(* A write whose session no other write overlaps changes nobody else's      *)
(* camera, for any number of windows and a node running beside them.        *)
THEOREM Isolation == Spec => IsolatedWritesKeepOthers
<1>1. TypeOK /\ IsolationInv =>
        \A w \in Writers : Finish(w) /\ clean[w] =>
          \A c \in Cams \ Own(w) : file'[c] = committed[c]
  <2> SUFFICES ASSUME IsolationInv, NEW w \in Writers, Finish(w), clean[w],
                      NEW c \in Cams \ Own(w)
               PROVE  file'[c] = committed[c]
    OBVIOUS
  <2>1. Open(w) /\ InSession(w)
    BY DEF Finish, Open, InSession
  <2>2. file = Empty /\ copy[w][c] = committed[c]
    BY <2>1 DEF IsolationInv, CleanSession, Open
  <2> QED
    BY <2>2 DEF Finish
<1>2. Init => TypeOK /\ IsolationInv
  BY InitType, IsolationInit
<1>3. TypeOK /\ IsolationInv /\ [Next]_vars => TypeOK' /\ IsolationInv'
  BY TypeStep, IsolationStep
<1>4. TypeOK /\ IsolationInv /\ [Next]_vars =>
        [\A w \in Writers : Finish(w) /\ clean[w] =>
           \A c \in Cams \ Own(w) : file'[c] = committed[c]]_vars
  BY <1>1
<1> QED
  BY <1>2, <1>3, <1>4, PTL DEF Spec, IsolatedWritesKeepOthers

(***************************************************************************)
(* Entries survive.                                                        *)
(***************************************************************************)
LEMMA SurvivalInit == Init => SurvivalInv
BY DEF Init, SurvivalInv, Whole

LEMMA SurvivalStep == TypeOK /\ SurvivalInv /\ [Next]_vars => SurvivalInv'
<1> SUFFICES ASSUME TypeOK, SurvivalInv, [Next]_vars, ~damaged'
             PROVE  /\ Whole(file)' \/ (file' = Empty /\ ~NobodyWrites')
                    /\ \A w \in Writers :
                         stage'[w] \in {"copied", "open"} => Present(copy'[w]) = entries'
  BY DEF SurvivalInv, Empty
<1>1. ~damaged /\ UNCHANGED entries
  <2>1. UNCHANGED entries
    BY DEF Next, NodeLaunch, NodeGroundTruth, NodeReadBack, NodeLoad, NodeSolve, ToolOpen, ToolAdjust,
           ToolRead, Truncate, Finish, Die, vars, historyVars
  <2>2. CASE NodeReadBack
    BY <2>1, <2>2, Zenon DEF NodeReadBack
  <2>3. ASSUME NEW w \in Writers, Die(w) PROVE ~damaged
    BY <2>3, Zenon DEF Die
  <2>4. CASE UNCHANGED damaged
    BY <2>1, <2>4
  <2>5. NodeReadBack \/ (\E w \in Writers : Die(w)) \/ UNCHANGED damaged
    BY DEF Next, NodeLaunch, NodeGroundTruth, NodeLoad, NodeSolve, ToolOpen, ToolAdjust,
           ToolRead, Truncate, Finish, vars, historyVars
  <2> QED
    BY <2>1, <2>2, <2>3, <2>4, <2>5
<1>2. /\ Whole(file) \/ (file = Empty /\ ~NobodyWrites)
      /\ \A w \in Writers : stage[w] \in {"copied", "open"} => Present(copy[w]) = entries
  BY <1>1 DEF SurvivalInv
<1>3. Node \in Writers /\ Tools \subseteq Writers
  BY DEF Writers
<1>4. CASE UNCHANGED vars
  BY <1>1, <1>2, <1>4 DEF vars, Whole, NobodyWrites, Open
<1>5. CASE \/ NodeLaunch \/ NodeGroundTruth \/ (\E c \in Cams : NodeLoad(c) \/ NodeSolve(c))
           \/ \E t \in Tools : ToolOpen(t) \/ ToolAdjust(t)
  <2>1. /\ UNCHANGED <<file, copy>>
        /\ \A w \in Writers : \/ stage'[w] = stage[w]
                              \/ stage'[w] = "running" /\ stage[w] = "off"
    BY <1>5 DEF NodeLaunch, NodeGroundTruth, NodeLoad, NodeSolve, ToolOpen, ToolAdjust, TypeOK
  <2> QED
    BY <1>1, <1>2, <2>1 DEF Whole, NobodyWrites, Open
<1>6. CASE NodeReadBack
  <2>1. /\ NobodyWrites /\ Readable /\ UNCHANGED file
        /\ stage' = [stage EXCEPT ![Node] = "copied"]
        /\ copy' = [copy EXCEPT ![Node] = NodeDocument]
    BY <1>6 DEF NodeReadBack
  <2>2. Present(file) = entries
    BY <1>2, <2>1 DEF Whole, Readable
  <2>3. Present(NodeDocument) = Present(file)
    BY NodeDocumentEntries
  <2> QED
    BY <1>1, <1>2, <1>3, <2>1, <2>2, <2>3 DEF Whole, TypeOK
<1>7. ASSUME NEW t \in Tools, ToolRead(t)
      PROVE  /\ Whole(file)' \/ (file' = Empty /\ ~NobodyWrites')
             /\ \A w \in Writers :
                  stage'[w] \in {"copied", "open"} => Present(copy'[w]) = entries'
  <2>1. /\ HasEntry(t) /\ UNCHANGED file
        /\ stage' = [stage EXCEPT ![t] = "copied"]
        /\ copy' = [copy EXCEPT ![t] = ToolDocument(t)]
    BY <1>7 DEF ToolRead
  <2>2. CamOf[t] \in Cams /\ file # Empty /\ file # Garbled
    BY <2>1, FileAssumption DEF HasEntry, Readable, Empty
  <2>3. Present(file) = entries
    BY <1>2, <2>2 DEF Whole
  <2>4. Present(ToolDocument(t)) = Present(file)
    BY <2>1, ToolDocumentEntries
  <2> QED
    BY <1>1, <1>2, <1>3, <2>1, <2>2, <2>3, <2>4 DEF Whole, TypeOK
<1>8. ASSUME NEW w \in Writers, Truncate(w)
      PROVE  /\ Whole(file)' \/ (file' = Empty /\ ~NobodyWrites')
             /\ \A v \in Writers :
                  stage'[v] \in {"copied", "open"} => Present(copy'[v]) = entries'
  <2>1. /\ stage[w] = "copied" /\ stage' = [stage EXCEPT ![w] = "open"]
        /\ file' = Empty /\ UNCHANGED copy
    BY <1>8 DEF Truncate
  <2>2. ~NobodyWrites'
    BY <2>1 DEF NobodyWrites, Open, TypeOK
  <2> QED
    BY <1>1, <1>2, <2>1, <2>2 DEF TypeOK
<1>9. ASSUME NEW w \in Writers, Finish(w)
      PROVE  /\ Whole(file)' \/ (file' = Empty /\ ~NobodyWrites')
             /\ \A v \in Writers :
                  stage'[v] \in {"copied", "open"} => Present(copy'[v]) = entries'
  <2>1. /\ stage[w] = "open" /\ file' \in {copy[w], Garbled}
        /\ stage'[w] \notin {"copied", "open"}
        /\ \A v \in Writers \ {w} : stage'[v] = stage[v] /\ copy'[v] = copy[v]
    BY <1>9 DEF Finish, Open, TypeOK
  <2> QED
    BY <1>1, <1>2, <2>1 DEF Whole
<1>10. ASSUME NEW w \in Writers, Die(w)
       PROVE  /\ Whole(file)' \/ (file' = Empty /\ ~NobodyWrites')
              /\ \A v \in Writers :
                   stage'[v] \in {"copied", "open"} => Present(copy'[v]) = entries'
  <2>1. /\ ~Open(w) /\ UNCHANGED file /\ stage'[w] = "off"
        /\ \A v \in Writers \ {w} : stage'[v] = stage[v] /\ copy'[v] = copy[v]
    BY <1>10 DEF Die, TypeOK
  <2>2. NobodyWrites' => NobodyWrites
    BY <2>1 DEF NobodyWrites, Open
  <2> QED
    BY <1>1, <1>2, <2>1, <2>2 DEF Whole
<1> QED
  BY <1>4, <1>5, <1>6, <1>7, <1>8, <1>9, <1>10 DEF Next

(* No entry is lost but by a writer cut off in mid-write or a node that     *)
(* reads in that moment.                                                    *)
THEOREM Survival == Spec => []EntriesSurvive
<1>1. Init => TypeOK /\ SurvivalInv
  BY InitType, SurvivalInit
<1>2. TypeOK /\ SurvivalInv /\ [Next]_vars => TypeOK' /\ SurvivalInv'
  BY TypeStep, SurvivalStep
<1>3. SurvivalInv => EntriesSurvive
  BY DEF SurvivalInv, EntriesSurvive, Whole, Readable
<1> QED
  BY <1>1, <1>2, <1>3, PTL DEF Spec

(***************************************************************************)
(* Isolated writes are steps of a table.                                   *)
(***************************************************************************)

(* The commit point: what a clean session writes differs from what the last *)
(* write left behind in poses of the writer's own cameras only.             *)
LEMMA CommitStep ==
  ASSUME TypeOK, IsolationInv, NEW w \in Writers, Finish(w), clean[w]
  PROVE  /\ committed \in Contents /\ committed' \in Contents
         /\ Present(committed') = Present(committed)
         /\ \A c \in Cams \ Own(w) : committed'[c] = committed[c]
<1>1. Open(w) /\ InSession(w) /\ stage[w] = "open"
  BY DEF Finish, Open, InSession
<1>2. /\ file = Empty /\ committed # Garbled
      /\ Present(copy[w]) = Present(committed)
      /\ \A c \in Cams \ Own(w) : copy[w][c] = committed[c]
  BY <1>1 DEF IsolationInv, CleanSession
<1>3. committed' = copy[w]
  BY <1>2 DEF Finish
<1> QED
  BY <1>2, <1>3 DEF TypeOK

LEMMA RequestedStep ==
  ASSUME RequestedInv, [Next]_vars
  PROVE  RequestedInv'
BY DEF RequestedInv, Next, NodeLaunch, NodeGroundTruth, NodeReadBack, NodeLoad, NodeSolve, ToolOpen,
       ToolAdjust, ToolRead, Truncate, Finish, Die, vars, nodeVars

LEMMA CommitWrites ==
  ASSUME TypeOK, IsolationInv, RequestedInv, NEW w \in Writers, Finish(w), clean[w]
  PROVE  Table!Write(w)
<1> DEFINE Owned == [v \in Writers |-> IF v = Node THEN Requested ELSE {CamOf[v]}]
           new == [c \in Owned[w] |-> IF committed'[c] = Absent THEN ZeroPose ELSE committed'[c]]
<1>1. /\ committed' \in Contents /\ committed \in Contents
      /\ Present(committed') = Present(committed)
      /\ \A c \in Cams \ Own(w) : committed'[c] = committed[c]
  BY CommitStep
<1>2. Own(w) \subseteq Owned[w] /\ Owned[w] \subseteq Cams
  BY FileAssumption DEF Own, RequestedInv, Writers
<1>3. new \in [Owned[w] -> Poses]
  BY <1>1, <1>2, FileAssumption DEF Contents
<1>4. \A c \in Cams : committed'[c] = Absent <=> committed[c] = Absent
  BY <1>1 DEF Present
<1>5. \A c \in Cams : committed'[c] = IF c \in Owned[w] /\ committed[c] # Absent
                                      THEN new[c] ELSE committed[c]
  <2> SUFFICES ASSUME NEW c \in Cams
               PROVE  committed'[c] = IF c \in Owned[w] /\ committed[c] # Absent
                                      THEN new[c] ELSE committed[c]
    OBVIOUS
  <2>1. CASE c \in Owned[w] /\ committed[c] # Absent
    BY <1>4, <2>1
  <2>2. CASE c \in Owned[w] /\ committed[c] = Absent
    BY <1>4, <2>2
  <2>3. CASE c \notin Owned[w]
    BY <1>1, <1>2, <2>3
  <2> QED
    BY <2>1, <2>2, <2>3
<1>6. committed' = [c \in Cams |-> IF c \in Owned[w] /\ committed[c] # Absent
                                  THEN new[c] ELSE committed[c]]
  BY <1>1, <1>5 DEF Contents
<1> QED
  BY <1>3, <1>6 DEF Table!Write

(* A write whose session no other write overlaps is one step of a table, in *)
(* which the writer replaces poses of its own cameras; this holds also when *)
(* the file has lost entries, or was Garbled, before.                       *)
THEOREM AtomicWrites == Spec => IsolatedWritesAreAtomic
<1>1. TypeOK /\ IsolationInv /\ RequestedInv =>
        \A w \in Writers : Finish(w) /\ clean[w] => Table!Write(w)
  BY CommitWrites
<1>2. Init => TypeOK /\ IsolationInv /\ RequestedInv
  BY InitType, IsolationInit DEF Init, RequestedInv
<1>3. TypeOK /\ IsolationInv /\ RequestedInv /\ [Next]_vars =>
        TypeOK' /\ IsolationInv' /\ RequestedInv'
  BY TypeStep, IsolationStep, RequestedStep
<1>4. TypeOK /\ IsolationInv /\ RequestedInv /\ [Next]_vars =>
        [\A w \in Writers : Finish(w) /\ clean[w] => Table!Write(w)]_vars
  BY <1>1
<1> QED
  BY <1>2, <1>3, <1>4, PTL DEF Spec, IsolatedWritesAreAtomic

(***************************************************************************)
(* Serial use of the file is the table.                                    *)
(***************************************************************************)
LEMMA SerialStep ==
  ASSUME TypeOK, IsolationInv, RequestedInv, SerialInv, [Next /\ Serial]_vars
  PROVE  SerialInv' /\ [Table!TableNext]_committed
<1>1. CASE UNCHANGED vars
  BY <1>1 DEF SerialInv, Open, vars, historyVars
<1> SUFFICES ASSUME Next, Serial PROVE SerialInv' /\ [Table!TableNext]_committed
  BY <1>1
<1>2. SerialInv'
  <2>1. \A w \in Writers : Open(w) => clean[w]
    BY DEF SerialInv
  <2>2. Node \in Writers /\ Tools \subseteq Writers
    BY DEF Writers
  <2>3. CASE \/ NodeLaunch \/ NodeGroundTruth \/ NodeReadBack
             \/ (\E c \in Cams : NodeLoad(c) \/ NodeSolve(c))
    <3>1. ~Open(Node)'
      BY <2>2, <2>3 DEF NodeLaunch, NodeGroundTruth, NodeReadBack, NodeLoad, NodeSolve, Open, TypeOK,
             historyVars
    <3>2. \A v \in Writers \ {Node} : stage'[v] = stage[v] /\ clean'[v] = clean[v]
      BY <2>3 DEF NodeLaunch, NodeGroundTruth, NodeReadBack, NodeLoad, NodeSolve, TypeOK, historyVars
    <3> QED
      BY <2>1, <3>1, <3>2 DEF Open, SerialInv
  <2>4. ASSUME NEW t \in Tools, ToolOpen(t) \/ ToolAdjust(t) \/ ToolRead(t)
        PROVE  \A w \in Writers : Open(w)' => clean'[w]
    <3>1. ~Open(t)'
      BY <2>2, <2>4 DEF ToolOpen, ToolAdjust, ToolRead, Open, TypeOK
    <3>2. \A v \in Writers \ {t} : stage'[v] = stage[v] /\ clean'[v] = clean[v]
      BY <2>4 DEF ToolOpen, ToolAdjust, ToolRead, TypeOK, historyVars
    <3> QED
      BY <2>1, <3>1, <3>2 DEF Open
  <2>5. ASSUME NEW w \in Writers, Truncate(w) PROVE \A v \in Writers : Open(v)' => clean'[v]
    <3>1. clean[w] /\ InSession(w)
      BY <2>5 DEF Serial, Truncate, InSession
    <3>2. \A v \in Writers \ {w} : ~Open(v)'
      BY <2>5, <3>1 DEF IsolationInv, CleanSession, Truncate, Open, TypeOK
    <3> QED
      BY <2>5, <3>1, <3>2 DEF Truncate
  <2>6. ASSUME NEW w \in Writers, Finish(w) \/ Die(w) PROVE \A v \in Writers : Open(v)' => clean'[v]
    BY <2>1, <2>6 DEF Finish, Die, Open, TypeOK
  <2> QED
    BY <2>3, <2>4, <2>5, <2>6 DEF Next, SerialInv
<1>3. [Table!TableNext]_committed
  <2>1. ASSUME NEW w \in Writers, Die(w) PROVE UNCHANGED committed
    BY <2>1 DEF Die, Serial
  <2>2. ASSUME NEW w \in Writers, Finish(w) PROVE Table!TableNext
    BY <2>2, CommitWrites DEF Finish, SerialInv, Table!TableNext
  <2>3. UNCHANGED committed \/ \E w \in Writers : Finish(w)
    BY <2>1 DEF Next, NodeLaunch, NodeGroundTruth, NodeReadBack, NodeLoad, NodeSolve, ToolOpen,
           ToolAdjust, ToolRead, Truncate, historyVars
  <2> QED
    BY <2>2, <2>3
<1> QED
  BY <1>2, <1>3

(* Programs that do not overlap see the file as a table in which a write is *)
(* one step and touches the writer's own cameras only, with any number of   *)
(* windows and through any number of launches of the node.                  *)
THEOREM SerialImplementation == SerialSpec => ImplementsTable
<1> DEFINE Inv == TypeOK /\ IsolationInv /\ RequestedInv /\ SerialInv
<1>1. Init => Inv /\ Table!TableInit
  <2>1. Init => Table!TableInit
    BY DEF Init, Contents, Table!TableInit
  <2>2. Init => RequestedInv /\ SerialInv
    BY DEF Init, RequestedInv, SerialInv, Open
  <2> QED
    BY <2>1, <2>2, InitType, IsolationInit
<1>2. Inv /\ [Next /\ Serial]_vars => Inv' /\ [Table!TableNext]_committed
  <2>1. [Next /\ Serial]_vars => [Next]_vars
    OBVIOUS
  <2> QED
    BY <2>1, TypeStep, IsolationStep, RequestedStep, SerialStep
<1> QED
  BY <1>1, <1>2, PTL DEF SerialSpec, ImplementsTable, Table!TableSpec
=============================================================================
