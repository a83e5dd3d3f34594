------------------------- MODULE GatewayTransferProofs -------------------------
(***************************************************************************)
(* Proofs about GatewayTransfer: the profile's rows and lists under the    *)
(* steps of everybody who works on it, and the import task, whatever the   *)
(* archive is and the others do.  LegacyDumpProofs adds the dump.          *)
(***************************************************************************)
EXTENDS GatewayTransfer, GatewayListProofs

-------------------------------------------------------------------------------
(* The profile's rows and the lists, under the steps of everybody. *)
RowsShape ==
    \A i \in Ids("template") : DOMAIN rows["template"][i] = {"key", "suite", "text"}

RowsInv == ListInv /\ RowsShape

LEMMA IntervalsGrow ==
    ASSUME NEW m \in Nat, NEW n \in Nat, m <= n
    PROVE  0 .. m - 1 \subseteq 0 .. n - 1 /\ 1 .. m - 1 \subseteq 1 .. n - 1
OBVIOUS

(* Ids are not given twice, and a row keeps its key. *)
KeysKept ==
    /\ fresh <= fresh'
    /\ \A i \in Ids("template")' :
         \/ i >= fresh
         \/ i \in Ids("template") /\ rows'["template"][i].key = rows["template"][i].key
    /\ \A i \in Ids("suite")' :
         \/ i >= fresh
         \/ i \in Ids("suite") /\ rows'["suite"][i].key = rows["suite"][i].key

(* Everybody creates rows of this shape, ... *)
LEMMA SuiteCreated ==
    ASSUME RowsInv, NEW row, Create("suite", row)
    PROVE  /\ RowsInv' /\ KeysKept /\ UNCHANGED call
           /\ Ids("suite")' = Ids("suite") \cup {fresh} /\ rows'["suite"][fresh] = row
           /\ \A i \in Ids("suite") : rows'["suite"][i] = rows["suite"][i]
           /\ Ids("template")' = Ids("template")
           /\ \A i \in Ids("template") : rows'["template"][i] = rows["template"][i]
           /\ fresh' = fresh + 1
<1>1. /\ ListInv' /\ Ids("template")' = Ids("template") /\ UNCHANGED call
      /\ Ids("suite")' = Ids("suite") \cup {fresh} /\ rows'["suite"][fresh] = row
      /\ \A i \in Ids("suite") : rows'["suite"][i] = rows["suite"][i]
      /\ \A i \in Ids("template") : rows'["template"][i] = rows["template"][i]
  BY Kinds, CreateKeepsList DEF RowsInv
<1>2. fresh' = fresh + 1 /\ fresh <= fresh' /\ fresh >= fresh
  BY DEF Create, RowsInv, ListInv, ListTyped
<1>3. QED
  BY <1>1, <1>2 DEF RowsInv, RowsShape, KeysKept

LEMMA TemplateCreated ==
    ASSUME RowsInv, NEW row, Create("template", row), DOMAIN row = {"key", "suite", "text"}
    PROVE  /\ RowsInv' /\ KeysKept /\ UNCHANGED call
           /\ Ids("template")' = Ids("template") \cup {fresh} /\ rows'["template"][fresh] = row
           /\ fresh \notin Ids("template")
           /\ \A i \in Ids("template") : rows'["template"][i] = rows["template"][i]
           /\ Ids("suite")' = Ids("suite")
           /\ \A i \in Ids("suite") : rows'["suite"][i] = rows["suite"][i]
           /\ fresh' = fresh + 1
<1>1. /\ ListInv' /\ Ids("template")' = Ids("template") \cup {fresh} /\ UNCHANGED call
      /\ rows'["template"][fresh] = row /\ fresh \notin Ids("template")
      /\ \A i \in Ids("template") : rows'["template"][i] = rows["template"][i]
      /\ Ids("suite")' = Ids("suite")
      /\ \A i \in Ids("suite") : rows'["suite"][i] = rows["suite"][i]
  BY Kinds, CreateKeepsList DEF RowsInv
<1>2. fresh' = fresh + 1 /\ fresh <= fresh' /\ fresh >= fresh
  BY DEF Create, RowsInv, ListInv, ListTyped
<1>3. QED
  BY <1>1, <1>2 DEF RowsInv, RowsShape, KeysKept

(* ... and changes only their texts. *)
LEMMA TemplateUpdated ==
    ASSUME RowsInv, NEW id \in Ids("template"), NEW text,
           Update("template", id, [rows["template"][id] EXCEPT !.text = text])
    PROVE  /\ RowsInv' /\ KeysKept /\ UNCHANGED <<fresh, call>>
           /\ Ids("suite")' = Ids("suite")
           /\ \A i \in Ids("suite") : rows'["suite"][i] = rows["suite"][i]
           /\ Ids("template")' = Ids("template")
           /\ \A i \in Ids("template") :
                /\ rows'["template"][i].key = rows["template"][i].key
                /\ rows'["template"][i].suite = rows["template"][i].suite
                /\ i # id => rows'["template"][i] = rows["template"][i]
           /\ rows'["template"][id].text = text
<1> DEFINE row == [rows["template"][id] EXCEPT !.text = text]
<1>1. /\ DOMAIN row = {"key", "suite", "text"} /\ row.text = text
      /\ row.key = rows["template"][id].key /\ row.suite = rows["template"][id].suite
  BY DEF RowsInv, RowsShape
<1>2. /\ ListInv' /\ UNCHANGED <<fresh, call>>
      /\ \A m \in Kind : Ids(m)' = Ids(m)
      /\ rows'["template"][id] = row
      /\ \A m \in Kind : \A i \in Ids(m) :
           m # "template" \/ i # id => rows'[m][i] = rows[m][i]
  <2> HIDE DEF row
  <2>1. Update("template", id, row)
    BY DEF row
  <2>2. QED
    BY <1>1, <2>1, Kinds, UpdateKeepsList DEF RowsInv
<1>3. RowsShape'
  BY <1>1, <1>2, Kinds DEF RowsInv, RowsShape
<1>4. fresh <= fresh'
  BY <1>2, ListBounds DEF RowsInv, ListInv, ListTyped
<1>5. QED
  BY <1>1, <1>2, <1>3, <1>4, Kinds DEF RowsInv, KeysKept

(* With a suite its templates go, so that none is left in a suite that is not
   there. *)
LEMMA RowRemoved ==
    ASSUME RowsInv, NEW k \in {"suite", "template"}, NEW id \in Ids(k), Remove(k, id)
    PROVE  /\ RowsInv' /\ KeysKept /\ fresh' = fresh
           /\ Ids("suite")' \subseteq Ids("suite")
           /\ \A i \in Ids("suite")' : rows'["suite"][i] = rows["suite"][i]
           /\ Ids("template")' \subseteq Ids("template")
           /\ \A i \in Ids("template")' :
                /\ rows'["template"][i] = rows["template"][i]
                /\ rows["template"][i].suite \in Ids("suite")
                     => rows["template"][i].suite \in Ids("suite")'
           /\ call'.kind = call.kind /\ call'.on = call.on
           /\ call'.items = call.items /\ call'.start = call.start
           /\ call'.gone = call.gone \/ call.on
<1>1. /\ ListInv' /\ fresh' = fresh
      /\ \A m \in Kind : Ids(m)' = Ids(m) \ Along(k, id)[m]
      /\ \A m \in Kind : \A i \in Ids(m)' : rows'[m][i] = rows[m][i]
      /\ call'.kind = call.kind /\ call'.on = call.on
      /\ call'.items = call.items /\ call'.start = call.start
      /\ call'.gone = call.gone \/ call.on
  BY Kinds, RemoveKeepsList DEF RowsInv
<1>2. fresh <= fresh'
  BY <1>1, ListBounds DEF RowsInv, ListInv, ListTyped
<1>3. ASSUME NEW i \in Ids("template")', rows["template"][i].suite \in Ids("suite")
      PROVE  rows["template"][i].suite \in Ids("suite")'
  <2>1. i \in Ids("template") /\ i \notin Along(k, id)["template"]
    BY <1>1, <1>3, Kinds
  <2>2. k = "suite" => rows["template"][i].suite # id
    BY <2>1, Kinds DEF Along
  <2>3. \A j \in Along(k, id)["suite"] : k = "suite" /\ j = id
    BY Kinds DEF Along
  <2>4. QED
    BY <1>1, <1>3, <2>2, <2>3, Kinds
<1>4. QED
  BY <1>1, <1>2, <1>3, Kinds DEF RowsInv, RowsShape, KeysKept

LEMMA RowsUnchanged ==
    ASSUME RowsInv, UNCHANGED <<rows, fresh>> PROVE RowsShape' /\ KeysKept
<1>1. fresh <= fresh'
  BY ListBounds DEF RowsInv, ListInv, ListTyped
<1>2. QED
  BY <1>1 DEF RowsInv, RowsShape, KeysKept, Ids

LEMMA ProfileListed ==
    ASSUME RowsInv, ListPage \/ StartList("suite") \/ StartList("template")
    PROVE  RowsInv' /\ KeysKept
<1>1. ListInv' /\ UNCHANGED <<rows, fresh>>
  BY Kinds, PageKeepsList, StartKeepsList DEF RowsInv
<1>2. QED
  BY <1>1, RowsUnchanged DEF RowsInv

LEMMA ListForgotten ==
    ASSUME RowsInv, call' = NoCall, UNCHANGED <<rows, fresh>> PROVE RowsInv' /\ KeysKept
BY ForgetKeepsList, RowsUnchanged DEF RowsInv

LEMMA ListUnchanged == ASSUME RowsInv, UNCHANGED listVars PROVE RowsInv' /\ KeysKept
<1>1. ListInv'
  BY DEF listVars, RowsInv, ListInv, ListTyped, ItemsAreRows, MissedAreBehind,
         Missed, Behind, Place, Ids
<1>2. QED
  BY <1>1, RowsUnchanged DEF RowsInv, listVars

(* What the import task, import_templates and the editors do to the rows. *)
LEMMA OthersRows ==
    ASSUME Import \/ Tool \/ Edit \/ UNCHANGED vars
    PROVE  \/ UNCHANGED listVars /\ numbered' = numbered
           \/ /\ Create("suite", [key |-> NoKey])
              /\ numbered' = numbered
           \/ /\ Create("template", [key |-> NoKey, suite |-> suite, text |-> UserText])
              /\ suite \in Ids("suite")
              /\ numbered' = numbered
           \/ /\ \E key \in Counter :
                   Create("template", [key |-> key, suite |-> its, text |-> UserText])
              /\ its \in Ids("suite")
              /\ numbered' = numbered \cup {fresh}
           \/ /\ \E i \in Ids("template") :
                   Update("template", i, [rows["template"][i] EXCEPT !.text = UserText])
              /\ numbered' = numbered
           \/ /\ \E k \in {"suite", "template"} : \E i \in Ids(k) : Remove(k, i)
              /\ numbered' = numbered
<1>1. CASE Import
  <2>1. numbered' = numbered
    BY <1>1 DEF Import, toolVars
  <2>2. CASE StartImport \/ SkipBlank \/ NextFile \/ EndImport \/ ImportFails
    BY <2>1, <2>2 DEF StartImport, SkipBlank, NextFile, EndImport, ImportFails, EndTask
  <2>3. CASE CreateSuite
    BY <2>1, <2>3 DEF CreateSuite
  <2>4. CASE CreateTemplate
    BY <2>1, <2>4 DEF CreateTemplate
  <2>5. QED
    BY <1>1, <2>2, <2>3, <2>4 DEF Import, ImportNext
<1>2. CASE Tool
  <2>1. CASE StartTool \/ StopTool
    BY <2>1 DEF StartTool, StopTool
  <2>2. CASE \E i \in titled : RemovePrevious(i)
    BY <2>2 DEF RemovePrevious
  <2>3. CASE CreateReplacement
    BY <2>3 DEF CreateReplacement
  <2>4. CASE CreateNumbered
    BY <2>4 DEF CreateNumbered, NewId
  <2>5. QED
    BY <1>2, <2>1, <2>2, <2>3, <2>4 DEF Tool, ToolStep
<1>3. CASE Edit
  <2>1. numbered' = numbered
    BY <1>3 DEF Edit, EditTemplate, RemoveTemplate, RemoveSuite, toolVars
  <2>2. QED
    BY <1>3, <2>1 DEF Edit, EditTemplate, RemoveTemplate, RemoveSuite
<1>4. CASE UNCHANGED vars
  BY <1>4 DEF vars, toolVars
<1>5. QED
  BY <1>1, <1>2, <1>3, <1>4

LEMMA RowSteps == ASSUME RowsInv, [Next]_vars PROVE RowsInv' /\ KeysKept
<1>1. CASE UNCHANGED listVars
  BY <1>1, ListUnchanged
<1>2. ASSUME NEW row, Create("suite", row) PROVE RowsInv' /\ KeysKept
  BY <1>2, SuiteCreated
<1>3. ASSUME NEW row, Create("template", row), DOMAIN row = {"key", "suite", "text"}
      PROVE  RowsInv' /\ KeysKept
  BY <1>3, TemplateCreated
<1>4. ASSUME Start \/ ListTemplates \/ ListingStep PROVE RowsInv' /\ KeysKept
  <2>1. ListPage \/ StartList("suite") \/ StartList("template")
    BY <1>4 DEF Start, ListTemplates, ListingStep
  <2>2. QED
    BY <2>1, ProfileListed
<1>5. ASSUME Refuse \/ Finish \/ Stop PROVE RowsInv' /\ KeysKept
  <2>1. call' = NoCall /\ UNCHANGED <<rows, fresh>>
    BY <1>5 DEF Refuse, Finish, Stop, End
  <2>2. QED
    BY <2>1, ListForgotten
<1>6. ASSUME \/ SuitesListed \/ TemplatesListed \/ FetchDicts
             \/ \E l \in Listing : UpdateSuite(l)
             \/ \E t \in Template : SkipTemplate(t)
             \/ \E x \in Name : UploadDict(x)
      PROVE  RowsInv' /\ KeysKept
  <2>1. UNCHANGED listVars
    BY <1>6 DEF SuitesListed, TemplatesListed, FetchDicts, UpdateSuite, SkipTemplate, UploadDict
  <2>2. QED
    BY <2>1, ListUnchanged
<1>7. ASSUME NEW l \in Listing, CreateSuiteOf(l) PROVE RowsInv' /\ KeysKept
  BY <1>2, <1>7 DEF CreateSuiteOf
<1>8. ASSUME NEW t \in Template, CreateTemplateOf(t) PROVE RowsInv' /\ KeysKept
  <2>1. PICK row : Create("template", row) /\ DOMAIN row = {"key", "suite", "text"}
    BY <1>8 DEF CreateTemplateOf
  <2>2. QED
    BY <1>3, <2>1
<1>9. ASSUME NEW id \in Ids("template"), NEW text,
             Update("template", id, [rows["template"][id] EXCEPT !.text = text])
      PROVE  RowsInv' /\ KeysKept
  BY <1>9, TemplateUpdated
<1>10. ASSUME UpdateDelayed \/ \E t \in Template : UpdateTemplate(t)
       PROVE  RowsInv' /\ KeysKept
  <2>1. PICK id, text :
          /\ id \in Ids("template")
          /\ Update("template", id, [rows["template"][id] EXCEPT !.text = text])
    BY <1>10 DEF UpdateDelayed, UpdateTemplate
  <2>2. QED
    BY <1>9, <2>1
<1>11. CASE Import \/ Tool \/ Edit \/ UNCHANGED vars
  <2>1. ASSUME NEW key, NEW s, Create("template", [key |-> key, suite |-> s, text |-> UserText])
        PROVE  RowsInv' /\ KeysKept
    BY <1>3, <2>1
  <2>2. ASSUME NEW k \in {"suite", "template"}, NEW i \in Ids(k), Remove(k, i)
        PROVE  RowsInv' /\ KeysKept
    BY <2>2, RowRemoved
  <2>3. QED
    BY <1>1, <1>2, <1>9, <1>11, <2>1, <2>2, OthersRows
<1>12. CASE Dump
  BY <1>4, <1>5, <1>6, <1>7, <1>8, <1>10, <1>12 DEF Dump, DumpNext, DumpStep
<1>13. QED
  BY <1>11, <1>12 DEF Next

(* The rows and the lists are as described in every behaviour. *)
THEOREM RowsInvariant == Spec => []RowsInv
<1>1. Init => RowsInv
  <2> SUFFICES ASSUME Init PROVE RowsInv OBVIOUS
  <2>1. Ids("template") = {}
    BY Kinds DEF Init, ListInit, Ids
  <2>2. QED
    BY <2>1, ListStarts DEF Init, RowsInv, RowsShape
<1>2. RowsInv /\ [Next]_vars => RowsInv'
  BY RowSteps
<1>3. QED
  BY <1>1, <1>2, PTL DEF Spec

(* A finished list_all has missed at most as many rows as were removed. *)
THEOREM MissesAreShifts == Spec => []MissedAreShifted
<1>1. RowsInv => MissedAreShifted
  BY ListsAreComplete DEF RowsInv
<1>2. QED
  BY <1>1, RowsInvariant, PTL

-------------------------------------------------------------------------------
(* What import_templates holds are ids that were given. *)
ToolStands ==
    /\ tool \in {"idle", "files", "removed"}
    /\ its \in 0 .. fresh - 1
    /\ titled \subseteq 1 .. fresh - 1 /\ numbered \subseteq 1 .. fresh - 1

LEMMA ToolSteps == ASSUME RowsInv, ToolStands, [Next]_vars PROVE ToolStands'
<1>1. fresh \in Nat /\ fresh' \in Nat /\ fresh <= fresh' /\ Ids("suite") \subseteq 1 .. fresh - 1
  BY RowSteps, ListBounds, Kinds DEF RowsInv, ListInv, ListTyped, KeysKept
<1>2. 0 .. fresh - 1 \subseteq 0 .. fresh' - 1 /\ 1 .. fresh - 1 \subseteq 1 .. fresh' - 1
  BY <1>1, IntervalsGrow
<1>3. CASE UNCHANGED toolVars
  BY <1>2, <1>3 DEF ToolStands, toolVars
<1>4. CASE StartTool
  <2>1. tool' = "files" /\ titled' \subseteq Ids("suite") /\ its' = its /\ numbered' = numbered
    BY <1>4 DEF StartTool
  <2>2. QED
    BY <1>1, <1>2, <2>1 DEF ToolStands
<1>5. CASE \E i \in titled : RemovePrevious(i)
  <2>1. tool' = "removed" /\ titled' \subseteq titled /\ its' = its /\ numbered' = numbered
    BY <1>5 DEF RemovePrevious
  <2>2. QED
    BY <1>2, <2>1 DEF ToolStands
<1>6. CASE CreateReplacement
  <2>1. /\ tool' = "files" /\ its' = fresh /\ UNCHANGED <<titled, numbered>>
        /\ fresh' = fresh + 1
    BY <1>6 DEF CreateReplacement, Create, NewId
  <2>2. its' \in 0 .. fresh' - 1
    BY <1>1, <2>1
  <2>3. QED
    BY <1>2, <2>1, <2>2 DEF ToolStands
<1>7. CASE CreateNumbered
  <2>1. /\ UNCHANGED <<tool, titled, its>> /\ numbered' = numbered \cup {fresh}
        /\ fresh' = fresh + 1 /\ fresh \in 1 .. fresh' - 1
    <3>1. PICK row : Create("template", row)
      BY <1>7 DEF CreateNumbered
    <3>2. fresh' = fresh + 1 /\ fresh # 0
      BY <3>1, ListBounds DEF Create, RowsInv, ListInv, ListTyped
    <3>3. QED
      BY <1>1, <1>7, <3>2 DEF CreateNumbered, NewId
  <2>2. QED
    BY <1>2, <2>1 DEF ToolStands
<1>8. CASE StopTool
  <2>1. tool' = "idle" /\ titled' = {} /\ its' = 0 /\ numbered' = numbered
    BY <1>8 DEF StopTool
  <2>2. fresh' \in Nat /\ 1 <= fresh'
    <3>1. fresh \in 1 .. MaxId + 1
      BY DEF RowsInv, ListInv, ListTyped
    <3>2. fresh \in Nat /\ 1 <= fresh
      BY <3>1, ListBounds
    <3>3. QED
      BY <1>1, <3>2
  <2>3. its' \in 0 .. fresh' - 1
    <3>1. \A n \in Nat : 1 <= n => 0 \in 0 .. n - 1
      OBVIOUS
    <3>2. QED
      BY <2>1, <2>2, <3>1, Zenon
  <2>4. titled' \subseteq 1 .. fresh' - 1 /\ numbered' \subseteq 1 .. fresh' - 1
    BY <1>2, <2>1 DEF ToolStands
  <2>5. QED
    BY <2>1, <2>3, <2>4 DEF ToolStands
<1>9. CASE Import \/ Dump \/ Edit \/ UNCHANGED vars
  BY <1>3, <1>9 DEF Import, Dump, Edit, EditTemplate, RemoveTemplate, RemoveSuite, vars
<1>10. QED
  BY <1>4, <1>5, <1>6, <1>7, <1>8, <1>9 DEF Next, Tool, ToolStep

THEOREM ToolInvariant == Spec => []ToolStands
<1>1. Init => ToolStands
  <2> SUFFICES ASSUME Init PROVE ToolStands OBVIOUS
  <2>1. fresh = 1 /\ tool = "idle" /\ titled = {} /\ its = 0 /\ numbered = {}
    BY DEF Init, ListInit, ToolInit
  <2>2. QED
    BY <2>1 DEF ToolStands
<1>2. RowsInv /\ ToolStands /\ [Next]_vars => ToolStands'
  BY ToolSteps
<1>3. QED
  BY <1>1, <1>2, RowsInvariant, PTL DEF Spec

-------------------------------------------------------------------------------
(* The import task. *)
Stands ==
    /\ fresh \in Nat \ {0}
    /\ state \in {"waiting", "running", "ended", "failed"}
    /\ prev \in {"none", "blank", "text"}
    /\ archive \in Archives
    /\ file \in 1 .. Len(archive) + 1 /\ piece \in Nat \ {0}
    /\ file \in DOMAIN archive => piece <= Len(archive[file]) + 1
    /\ suite \in 0 .. fresh - 1
    /\ made \in [DOMAIN archive -> SUBSET (1 .. fresh - 1)]
    /\ placed \subseteq (DOMAIN archive) \X (Nat \ {0}) \X (1 .. fresh - 1)
    /\ refused \subseteq (DOMAIN archive) \X (Nat \ {0})

(* Files that begin later have no suite, and only at its beginning can a file
   still get one. *)
NoSuiteYet ==
    /\ state = "waiting" => file = 1 /\ piece = 1 /\ prev = "none"
    /\ state \in {"waiting", "running"} => \A f \in DOMAIN archive :
         f > file \/ (f = file /\ prev = "none") => made[f] = {}
    /\ state \in {"waiting", "running"} /\ prev = "none" => piece = 1

(* While a file is read that begins with text, its suite is the current one. *)
SuiteIsCurrent ==
    state = "running" /\ file \in DOMAIN archive /\ prev # "none"
        /\ archive[file][1] = "text" => made[file] = {suite}

PlacedWell ==
    /\ \A f \in DOMAIN archive : \A i, j \in made[f] : i = j
    /\ \A p \in placed : /\ p[1] \in DOMAIN archive
                         /\ archive[p[1]][1] = "text" => p[3] \in made[p[1]]

(* All that lies behind the reader is settled. *)
SettledBehind ==
    /\ state = "running" => \A f \in DOMAIN archive : \A p \in DOMAIN archive[f] :
         (f < file \/ (f = file /\ p < piece)) /\ archive[f][p] = "text" => Settled(f, p)
    /\ state = "ended" => \A f \in DOMAIN archive : \A p \in DOMAIN archive[f] :
         archive[f][p] = "text" => Settled(f, p)

IInv == Stands /\ NoSuiteYet /\ SuiteIsCurrent /\ PlacedWell /\ SettledBehind

-------------------------------------------------------------------------------
(* An archive is a sequence of non-empty sequences of pieces. *)
LEMMA ArchiveShape ==
    ASSUME NEW x \in Archives, NEW f \in DOMAIN x
    PROVE  /\ x \in Seq(Seq({"text", "blank"}) \ {<< >>})
           /\ Len(x) \in Nat /\ DOMAIN x = 1 .. Len(x)
           /\ Len(x[f]) \in Nat \ {0} /\ DOMAIN x[f] = 1 .. Len(x[f])
           /\ \A p \in DOMAIN x[f] : x[f][p] \in {"text", "blank"}
<1>1. x \in Seq(Seq({"text", "blank"}) \ {<< >>})
  BY ArchivesHavePieces
<1>2. x[f] \in Seq({"text", "blank"}) \ {<< >>}
  BY <1>1
<1>3. Len(x[f]) \in Nat /\ DOMAIN x[f] = 1 .. Len(x[f]) /\ x[f] # << >>
  BY <1>2
<1>4. Len(x[f]) # 0
  BY <1>2, <1>3
<1>5. QED
  BY <1>1, <1>2, <1>3, <1>4

LEMMA ArchiveFacts ==
    ASSUME Stands
    PROVE  /\ DOMAIN archive = 1 .. Len(archive) /\ Len(archive) \in Nat
           /\ \A f \in DOMAIN archive :
                /\ Len(archive[f]) \in Nat \ {0}
                /\ DOMAIN archive[f] = 1 .. Len(archive[f])
                /\ \A p \in DOMAIN archive[f] : archive[f][p] \in {"text", "blank"}
BY ArchiveShape, ArchivesHavePieces DEF Stands

-------------------------------------------------------------------------------
(* Steps of the task, one lemma for each action. *)

(* A file that begins gets its suite. *)
LEMMA CreateSuiteHolds == ASSUME IInv, CreateSuite PROVE IInv'
<1> USE DEF IInv
<1>1. Stands'
  BY ArchiveFacts DEF Stands, CreateSuite, AtPiece, OpensFile, Piece, Reading, Create, NewId
<1>2. NoSuiteYet'
  BY ArchiveFacts DEF Stands, NoSuiteYet, CreateSuite, AtPiece, OpensFile, Piece, Reading, Create, NewId
<1>3. SuiteIsCurrent'
  BY ArchiveFacts DEF Stands, NoSuiteYet, SuiteIsCurrent, CreateSuite, AtPiece, OpensFile, Piece, Reading, Create, NewId
<1>4. PlacedWell'
  BY ArchiveFacts DEF Stands, NoSuiteYet, SuiteIsCurrent, PlacedWell, CreateSuite, AtPiece, OpensFile, Piece, Reading, Create, NewId
<1>5. SettledBehind'
  BY ArchiveFacts DEF Stands, NoSuiteYet, SettledBehind, Settled, CreateSuite, AtPiece, OpensFile, Piece, Reading, Create, NewId
<1>6. QED
  BY <1>1, <1>2, <1>3, <1>4, <1>5

(* A blank piece moves the reader on. *)
LEMMA SkipBlankHolds == ASSUME IInv, SkipBlank PROVE IInv'
<1> USE DEF IInv
<1>1. Stands'
  BY ArchiveFacts DEF Stands, SkipBlank, AtPiece, Piece, Reading, placeVars, listVars
<1>2. NoSuiteYet'
  BY ArchiveFacts DEF Stands, NoSuiteYet, SkipBlank, AtPiece, Piece, Reading, placeVars, listVars
<1>3. SuiteIsCurrent'
  BY ArchiveFacts DEF Stands, NoSuiteYet, SuiteIsCurrent, SkipBlank, AtPiece, Piece, Reading, placeVars, listVars
<1>4. PlacedWell'
  BY ArchiveFacts DEF Stands, NoSuiteYet, SuiteIsCurrent, PlacedWell, SkipBlank, AtPiece, Piece, Reading, placeVars, listVars
<1>5. SettledBehind'
  BY ArchiveFacts DEF Stands, NoSuiteYet, SettledBehind, Settled, SkipBlank, AtPiece, Piece, Reading, placeVars, listVars
<1>6. QED
  BY <1>1, <1>2, <1>3, <1>4, <1>5

(* A template is placed in the current suite, or refused. *)
LEMMA CreateTemplateHolds == ASSUME RowsInv, IInv, CreateTemplate PROVE IInv'
<1> USE DEF IInv
<1>1. Stands'
  <2>0. file \in DOMAIN archive
        BY ArchiveFacts DEF Stands, CreateTemplate, AtPiece, Reading
  <2>1. fresh' \in Nat /\ fresh' >= fresh
        BY DEF Stands, CreateTemplate, Create, NewId, listVars
  <2>2. placed' \subseteq (DOMAIN archive) \X (Nat \ {0}) \X (1 .. fresh' - 1)
    <3>1. Ids("suite") \subseteq 1 .. fresh - 1
          BY Kinds DEF RowsInv, ListInv, ListTyped
    <3>2. \/ placed' = placed
          \/ placed' = placed \cup {<<file, piece, suite>>} /\ suite \in 1 .. fresh - 1
          BY <3>1, Zenon DEF CreateTemplate
    <3>3. fresh \in Nat /\ 1 .. fresh - 1 \subseteq 1 .. fresh' - 1
          BY <2>1, IntervalsGrow DEF Stands
    <3>4. piece \in Nat \ {0} /\ placed \subseteq (DOMAIN archive) \X (Nat \ {0}) \X (1 .. fresh - 1)
          BY DEF Stands
    <3>5. placed \subseteq (DOMAIN archive) \X (Nat \ {0}) \X (1 .. fresh' - 1)
          BY ONLY <3>3, <3>4
    <3>6. QED
          BY <2>0, <3>2, <3>3, <3>4, <3>5
  <2>3. refused' \subseteq (DOMAIN archive) \X (Nat \ {0})
        BY <2>0 DEF Stands, CreateTemplate
  <2>4. made' \in [DOMAIN archive -> SUBSET (1 .. fresh' - 1)] /\ suite' \in 0 .. fresh' - 1
    <3>0. fresh \in Nat
          BY DEF Stands
    <3>1. 1 .. fresh - 1 \subseteq 1 .. fresh' - 1 /\ 0 .. fresh - 1 \subseteq 0 .. fresh' - 1
          BY <2>1, <3>0, IntervalsGrow
    <3>2. made' = made /\ suite' = suite
          BY DEF CreateTemplate
    <3>3. made \in [DOMAIN archive -> SUBSET (1 .. fresh - 1)] /\ suite \in 0 .. fresh - 1
          BY DEF Stands
    <3>4. \A f \in DOMAIN archive : made[f] \subseteq 1 .. fresh' - 1
          BY ONLY <3>1, <3>3
    <3>5. QED BY ONLY <3>1, <3>2, <3>3, <3>4
  <2>5. piece' \in Nat \ {0} /\ (file \in DOMAIN archive => piece' <= Len(archive[file]) + 1)
        BY <2>0, ArchiveFacts DEF Stands, CreateTemplate, AtPiece
  <2>6. prev' \in {"none", "blank", "text"} /\ fresh' # 0
        BY <2>1 DEF Stands, CreateTemplate
  <2>7. UNCHANGED <<state, archive, file>>
        BY DEF CreateTemplate
  <2>8. QED
        BY <2>1, <2>2, <2>3, <2>4, <2>5, <2>6, <2>7 DEF Stands
<1>2. NoSuiteYet'
  BY ArchiveFacts DEF Stands, NoSuiteYet, CreateTemplate, AtPiece, OpensFile, Piece, Reading, Create, NewId, listVars
<1>3. SuiteIsCurrent'
  BY ArchiveFacts DEF Stands, NoSuiteYet, SuiteIsCurrent, CreateTemplate, AtPiece, OpensFile, Piece, Reading, Create, NewId, listVars
<1>4. PlacedWell'
  BY ArchiveFacts DEF Stands, NoSuiteYet, SuiteIsCurrent, PlacedWell, CreateTemplate, AtPiece, OpensFile, Piece, Reading, Create, NewId, listVars
<1>5. SettledBehind'
  <2> DEFINE SettledThen(f, p) ==
        <<f, p>> \in refused' \/ \E q \in placed' : q[1] = f /\ q[2] = p
  <2>1. SettledThen(file, piece)
    <3>1. CASE placed' = placed \cup {<<file, piece, suite>>}
      <4>1. <<file, piece, suite>> \in placed'
        BY <3>1
      <4>2. QED
        BY <4>1
    <3>2. CASE refused' = refused \cup {<<file, piece>>}
      BY <3>2
    <3>3. QED
      BY <3>1, <3>2 DEF CreateTemplate
  <2>2. ASSUME NEW f, NEW p, Settled(f, p) PROVE SettledThen(f, p)
    BY <2>2 DEF Settled, CreateTemplate
  <2>3. piece' = piece + 1 /\ file' = file /\ archive' = archive
        /\ state' = "running" /\ state = "running"
    BY DEF CreateTemplate, AtPiece, Reading
  <2>4. ASSUME NEW f \in DOMAIN archive, NEW p \in DOMAIN archive[f],
               f < file' \/ (f = file' /\ p < piece'), archive[f][p] = "text"
        PROVE  SettledThen(f, p)
    <3>1. f < file \/ (f = file /\ p < piece) \/ (f = file /\ p = piece)
      BY ArchiveFacts, <2>3, <2>4 DEF Stands
    <3>2. CASE f = file /\ p = piece
      BY <3>2, <2>1
    <3>3. CASE f < file \/ (f = file /\ p < piece)
      BY <3>3, <2>2, <2>3, <2>4 DEF SettledBehind
    <3>4. QED
      BY <3>1, <3>2, <3>3
  <2>5. QED
    BY <2>3, <2>4 DEF SettledBehind, Settled
<1>6. QED
  BY <1>1, <1>2, <1>3, <1>4, <1>5

(* The reader reaches a file without suite. *)
LEMMA NextFileHolds == ASSUME IInv, NextFile PROVE IInv'
<1> USE DEF IInv
<1>1. Stands'
  <2>1. file' \in 1 .. Len(archive) + 1 /\ piece' = 1
        BY ArchiveFacts DEF Stands, NextFile, Reading, Separator
  <2>2. file' \in DOMAIN archive => piece' <= Len(archive[file']) + 1
        BY ArchiveFacts, <2>1
  <2>3. QED
        BY <2>1, <2>2 DEF Stands, NextFile, Separator, placeVars, listVars
<1>2. NoSuiteYet'
  BY ArchiveFacts DEF Stands, NoSuiteYet, NextFile, AtPiece, Reading, Separator, placeVars, listVars
<1>3. SuiteIsCurrent'
  BY ArchiveFacts DEF Stands, NoSuiteYet, SuiteIsCurrent, NextFile, AtPiece, Reading, Separator, placeVars, listVars
<1>4. PlacedWell'
  BY ArchiveFacts DEF Stands, NoSuiteYet, SuiteIsCurrent, PlacedWell, NextFile, AtPiece, Reading, Separator, placeVars, listVars
<1>5. SettledBehind'
  BY ArchiveFacts DEF Stands, NoSuiteYet, SettledBehind, Settled, NextFile, AtPiece, Reading, Separator, placeVars, listVars
<1>6. QED
  BY <1>1, <1>2, <1>3, <1>4, <1>5

(* At the end every file lies behind the reader. *)
LEMMA EndImportHolds == ASSUME IInv, EndImport PROVE IInv'
<1> USE DEF IInv
<1>1. Stands'
  BY ArchiveFacts DEF Stands, EndImport, Reading, EndTask, placeVars, listVars
<1>2. NoSuiteYet'
  BY ArchiveFacts DEF Stands, NoSuiteYet, EndImport, Reading, EndTask, placeVars, listVars
<1>3. SuiteIsCurrent'
  BY ArchiveFacts DEF Stands, NoSuiteYet, SuiteIsCurrent, EndImport, Reading, EndTask, placeVars, listVars
<1>4. PlacedWell'
  BY ArchiveFacts DEF Stands, NoSuiteYet, SuiteIsCurrent, PlacedWell, EndImport, Reading, EndTask, placeVars, listVars
<1>5. SettledBehind'
  BY ArchiveFacts DEF Stands, NoSuiteYet, SettledBehind, Settled, EndImport, Reading, EndTask, placeVars, listVars
<1>6. QED
  BY <1>1, <1>2, <1>3, <1>4, <1>5

(* A failed task leaves what it has placed. *)
LEMMA ImportFailsHolds == ASSUME IInv, ImportFails PROVE IInv'
<1> USE DEF IInv
<1>1. Stands'
  <2>1. file' = 1 /\ piece' = 1 /\ suite' = 0 /\ state' = "failed" /\ prev' = "none"
        BY DEF ImportFails, EndTask
  <2>2. UNCHANGED <<archive, made, placed, refused, fresh>>
        BY DEF ImportFails, EndTask, placeVars, listVars
  <2>3. 1 \in DOMAIN archive => 1 <= Len(archive[1]) + 1
        BY ArchiveFacts
  <2>4. file' \in 1 .. Len(archive) + 1 /\ suite' \in 0 .. fresh - 1
        BY <2>1, ArchiveFacts DEF Stands
  <2>5. QED BY <2>1, <2>2, <2>3, <2>4 DEF Stands
<1>2. NoSuiteYet'
  BY ArchiveFacts DEF Stands, NoSuiteYet, ImportFails, AtPiece, Reading, EndTask, placeVars, listVars
<1>3. SuiteIsCurrent'
  BY ArchiveFacts DEF Stands, NoSuiteYet, SuiteIsCurrent, ImportFails, AtPiece, Reading, EndTask, placeVars, listVars
<1>4. PlacedWell'
  BY ArchiveFacts DEF Stands, NoSuiteYet, SuiteIsCurrent, PlacedWell, ImportFails, AtPiece, Reading, EndTask, placeVars, listVars
<1>5. SettledBehind'
  BY ArchiveFacts DEF Stands, NoSuiteYet, SettledBehind, Settled, ImportFails, AtPiece, Reading, EndTask, placeVars, listVars
<1>6. QED
  BY <1>1, <1>2, <1>3, <1>4, <1>5

(* The task begins before the first piece. *)
LEMMA StartImportHolds == ASSUME IInv, StartImport PROVE IInv'
<1> USE DEF IInv
<1>1. Stands'
  BY ArchiveFacts DEF Stands, StartImport, placeVars, listVars
<1>2. NoSuiteYet'
  BY ArchiveFacts DEF Stands, NoSuiteYet, StartImport, placeVars, listVars
<1>3. SuiteIsCurrent'
  BY ArchiveFacts DEF Stands, NoSuiteYet, SuiteIsCurrent, StartImport, placeVars, listVars
<1>4. PlacedWell'
  BY ArchiveFacts DEF Stands, NoSuiteYet, SuiteIsCurrent, PlacedWell, StartImport, placeVars, listVars
<1>5. SettledBehind'
  BY ArchiveFacts DEF Stands, NoSuiteYet, SettledBehind, Settled, StartImport, placeVars, listVars
<1>6. QED
  BY <1>1, <1>2, <1>3, <1>4, <1>5

(* Everybody else only adds and removes rows. *)
LEMMA OthersHold ==
    ASSUME IInv, UNCHANGED importVars, fresh' \in Nat, fresh <= fresh' PROVE IInv'
<1>1. Stands'
  <2>1. /\ archive' = archive /\ made' = made /\ placed' = placed /\ suite' = suite
        /\ refused' = refused /\ file' = file /\ piece' = piece /\ state' = state /\ prev' = prev
    BY DEF importVars
  <2>2. 0 .. fresh - 1 \subseteq 0 .. fresh' - 1 /\ 1 .. fresh - 1 \subseteq 1 .. fresh' - 1
    <3>1. fresh \in Nat
      BY DEF IInv, Stands
    <3>2. QED
      BY <3>1, IntervalsGrow
  <2>3. made \in [DOMAIN archive -> SUBSET (1 .. fresh' - 1)] /\ suite \in 0 .. fresh' - 1
    BY <2>2 DEF IInv, Stands
  <2>4. placed \subseteq (DOMAIN archive) \X (Nat \ {0}) \X (1 .. fresh' - 1)
    BY <2>2 DEF IInv, Stands
  <2>5. fresh' \in Nat \ {0}
    BY DEF IInv, Stands, importVars
  <2>6. Stands
    BY DEF IInv
  <2>7. QED
    BY <2>1, <2>3, <2>4, <2>5, <2>6 DEF Stands
<1>2. QED
  BY <1>1 DEF IInv, NoSuiteYet, SuiteIsCurrent, PlacedWell, SettledBehind, Settled, importVars

-------------------------------------------------------------------------------
(* The invariant holds in every behaviour. *)
THEOREM ImportInvariant == Spec => []IInv
<1>1. Init => IInv
  <2> SUFFICES ASSUME Init PROVE IInv OBVIOUS
  <2>1. archive \in Archives /\ file = 1 /\ piece = 1 /\ fresh = 1
        /\ made = [f \in DOMAIN archive |-> {}] /\ placed = {} /\ state = "waiting"
        /\ prev = "none"
    BY DEF Init, ListInit, ImportInit
  <2>2. Stands
    <3>1. Len(archive) \in Nat
      BY <2>1, ArchivesHavePieces
    <3>2. 1 \in DOMAIN archive => Len(archive[1]) \in Nat
      BY <2>1, ArchiveShape
    <3>3. QED
      BY <2>1, <3>1, <3>2 DEF Stands, Init, ImportInit
  <2>3. QED
    BY <2>1, <2>2 DEF IInv, NoSuiteYet, SuiteIsCurrent, PlacedWell, SettledBehind
<1>2. RowsInv /\ IInv /\ [Next]_vars => IInv'
  <2> SUFFICES ASSUME RowsInv, IInv, [Next]_vars PROVE IInv' OBVIOUS
  <2>0. fresh <= fresh' /\ fresh' \in Nat
    BY RowSteps, ListBounds DEF RowsInv, ListInv, ListTyped, KeysKept
  <2>1. CASE Import
    BY <2>1, StartImportHolds, CreateSuiteHolds, SkipBlankHolds, CreateTemplateHolds,
       NextFileHolds, EndImportHolds, ImportFailsHolds DEF Import, ImportNext
  <2>2. CASE Dump \/ Tool \/ Edit
    <3>1. UNCHANGED importVars
      BY <2>2 DEF Dump, Tool, Edited, Edit, EditTemplate, RemoveTemplate, RemoveSuite
    <3>2. QED
      BY <2>0, <3>1, OthersHold
  <2>3. CASE UNCHANGED vars
    BY <2>0, <2>3, OthersHold DEF vars
  <2>4. QED
    BY <2>1, <2>2, <2>3 DEF Next
<1>3. QED
  BY <1>1, <1>2, RowsInvariant, PTL DEF Spec

(* Every template gets into the one suite of its own file, or was refused. *)
THEOREM TemplatesKeepTheirFile == Spec => []OwnSuite
<1>1. IInv => OwnSuite
  BY DEF IInv, Stands, PlacedWell, SettledBehind, OwnSuite
<1>2. QED
  BY <1>1, ImportInvariant, PTL

=============================================================================
