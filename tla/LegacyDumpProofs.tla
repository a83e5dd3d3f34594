--------------------------- MODULE LegacyDumpProofs ---------------------------
(***************************************************************************)
(* Proofs about the runs of dump.py in GatewayTransfer, for every old      *)
(* database, in either mode, broken off anywhere, and beside the import    *)
(* task, import_templates and editors: a listing and a template have one   *)
(* row of the profile, a full run that ends resolves the references        *)
(* between templates, and the dictionaries are complete when the upload    *)
(* begins.                                                                 *)
(***************************************************************************)
EXTENDS GatewayTransferProofs

(* The references of a text lead to no other template than the one meant. *)
TrueText(t, text) ==
    /\ text \in [Refs[t] -> 0 .. fresh - 1]
    /\ \A r \in Refs[t] \cap Template :
         text[r] \in Ids("template") => rows["template"][text[r]].key = r

FullText(t, text) == \A r \in Refs[t] \cap Template : text[r] # 0

Written(i) == rows["template"][i].key \in Template /\ rows["template"][i].text # UserText

(* So are the texts of all rows, unless a user wrote them. *)
RowsTrue ==
    \A i \in Ids("template") :
        Written(i) => TrueText(rows["template"][i].key, rows["template"][i].text)

(* Such texts are from a fixed set, which a proof needs for sequences of them. *)
Texts == UNION {[Refs[t] -> 0 .. MaxId] : t \in Template}

(* What a run is told and where it stands. *)
ControlTyped ==
    /\ phase \in Phases
    /\ runs \in 0 .. MaxRuns /\ given \in BOOLEAN /\ incremental \in BOOLEAN
    /\ shifted \in BOOLEAN
    /\ todo \subseteq Listing \cup Template \cup Name

(* The texts that a run has put aside are true as well. *)
DelayedTrue ==
    /\ delayed \in Seq([template : Template, text : Texts])
    /\ \A n \in DOMAIN delayed : TrueText(delayed[n].template, delayed[n].text)

(* What a run knows of the profile's templates is true. *)
KnownTrue ==
    /\ suites \in [Listing -> 0 .. fresh - 1]
    /\ dumped \in [Template -> 0 .. fresh - 1]
    /\ \A t \in Template :
         dumped[t] \in Ids("template") => rows["template"][dumped[t]].key = t
    /\ DelayedTrue

(* The run knows a suite of every listing that has one.  This and the rest about
   lists only while nothing was removed between two pages. *)
SuitesKnown ==
    /\ ~shifted => \A i, j \in Ids("suite") :
         rows["suite"][i].key = rows["suite"][j].key /\ rows["suite"][i].key \in Listing => i = j
    /\ phase = "suite list" =>
         /\ call.kind = "suite"
         /\ \A i \in Ids("suite") : rows["suite"][i].key \in Listing => i \in call.start
         /\ ~shifted /\ ~call.on => call.gone = 0
    /\ phase = "suites" /\ ~shifted =>
         \A i \in Ids("suite") : rows["suite"][i].key \in Listing => suites[rows["suite"][i].key] # 0

(* The dump has written nothing before its first loop over the templates. *)
Listings == {"suite list", "suites", "template list"}

FirstRun ==
    /\ runs = 0 => phase = "idle"
    /\ runs = 0 \/ (~given /\ phase \in Listings) => \A i \in Ids("template") : ~Written(i)

(* It has made one row for an old template, ... *)
OneRow ==
    \A i, j \in Ids("template") :
        /\ rows["template"][i].key = rows["template"][j].key /\ rows["template"][i].key \in Template
        /\ i \notin numbered /\ j \notin numbered
        => i = j

(* ... and the run knows a row of the template if there is such a one, and the
   very one that it has written to. *)
TemplatesKnown ==
    /\ ~shifted => OneRow
    /\ phase = "template list" =>
         /\ call.kind = "template"
         /\ \A i \in Ids("template") :
              rows["template"][i].key \in Template /\ (i \notin numbered \/ Written(i))
                => i \in call.start
         /\ ~shifted /\ ~call.on => call.gone = 0
    /\ phase = "templates" /\ ~shifted =>
         \A i \in Ids("template") : rows["template"][i].key \in Template =>
            /\ i \notin numbered => dumped[rows["template"][i].key] # 0
            /\ Written(i) => dumped[rows["template"][i].key] = i

(* A run that updates every template has written the references of those it is
   through with, or comes back to them. *)
Answered(i) ==
    \/ FullText(rows["template"][i].key, rows["template"][i].text)
    \/ phase = "templates" /\ \E n \in DOMAIN delayed : delayed[n].template = rows["template"][i].key

AnswersFollow ==
    ~incremental =>
        /\ phase = "templates" => \A t \in Template \ todo : dumped[t] # 0
        /\ ~shifted => \A i \in Ids("template") :
             Written(i) /\ \/ phase = "templates" /\ rows["template"][i].key \notin todo
                           \/ phase \in {"dicts", "upload", "done"}
                => Answered(i)

(* The dictionaries of a run. *)
DictsTyped ==
    /\ used \subseteq Name /\ missing \subseteq Name
    /\ found \in [Name -> [inf : {"own", "common", "other", "none"}, includes : SUBSET Name]]
    /\ codes \subseteq Name
    /\ phase \notin {"dicts", "upload"} => missing = {}

DumpInv == ControlTyped /\ KnownTrue /\ RowsTrue /\ SuitesKnown /\ FirstRun
           /\ TemplatesKnown /\ AnswersFollow /\ DictsTyped /\ DictionariesClosed

-------------------------------------------------------------------------------
(* What the import task, import_templates and the editors do to the profile. *)
OthersWork ==
    /\ UNCHANGED dumpState
    /\ \A i \in Ids("suite")' :
         \/ i \in Ids("suite") /\ rows'["suite"][i] = rows["suite"][i]
         \/ rows'["suite"][i].key = NoKey
    /\ \A i \in Ids("template")' :
         \/ i \in Ids("template") /\ rows'["template"][i] = rows["template"][i]
         \/ /\ i \in Ids("template") /\ rows'["template"][i].key = rows["template"][i].key
            /\ rows'["template"][i].text = UserText
         \/ rows'["template"][i].key = NoKey
         \/ i \in numbered' /\ rows'["template"][i].text = UserText
    /\ numbered \subseteq numbered'
    /\ call'.kind = call.kind /\ call'.on = call.on
    /\ call'.items = call.items /\ call'.start = call.start
    /\ call'.gone = call.gone \/ call.on

LEMMA OthersSteps ==
    ASSUME RowsInv, Import \/ Tool \/ Edit \/ UNCHANGED vars
    PROVE  OthersWork
<1>1. UNCHANGED dumpState
  BY DEF Import, Tool, Edited, Edit, EditTemplate, RemoveTemplate, RemoveSuite, vars
<1>2. CASE UNCHANGED listVars /\ numbered' = numbered
  BY <1>1, <1>2 DEF listVars, OthersWork, Ids
<1>3. CASE Create("suite", [key |-> NoKey]) /\ numbered' = numbered
  BY <1>1, <1>3, SuiteCreated DEF OthersWork
<1>4. CASE /\ Create("template", [key |-> NoKey, suite |-> suite, text |-> UserText])
           /\ numbered' = numbered
  BY <1>1, <1>4, TemplateCreated DEF OthersWork
<1>5. CASE /\ \E key \in Counter :
                Create("template", [key |-> key, suite |-> its, text |-> UserText])
           /\ numbered' = numbered \cup {fresh}
  BY <1>1, <1>5, TemplateCreated DEF OthersWork
<1>6. CASE /\ \E i \in Ids("template") :
                Update("template", i, [rows["template"][i] EXCEPT !.text = UserText])
           /\ numbered' = numbered
  BY <1>1, <1>6, TemplateUpdated DEF OthersWork
<1>7. CASE /\ \E k \in {"suite", "template"} : \E i \in Ids(k) : Remove(k, i)
           /\ numbered' = numbered
  BY <1>1, <1>7, RowRemoved DEF OthersWork
<1>8. QED
  BY <1>2, <1>3, <1>4, <1>5, <1>6, <1>7, OthersRows

-------------------------------------------------------------------------------
(* Texts: their references stay true, ... *)
LEMMA TrueTextKept ==
    ASSUME RowsInv, KeysKept, fresh' \in Nat, NEW t, NEW text, TrueText(t, text)
    PROVE  TrueText(t, text)'
<1>1. fresh \in Nat /\ fresh <= fresh'
  BY ListBounds DEF RowsInv, ListInv, ListTyped, KeysKept
<1>2. text \in [Refs[t] -> 0 .. fresh' - 1]
  BY <1>1, IntervalsGrow DEF TrueText
<1>3. ASSUME NEW r \in Refs[t] \cap Template, text[r] \in Ids("template")'
      PROVE  rows'["template"][text[r]].key = r
  <2>1. text[r] \in 0 .. fresh - 1
    BY DEF TrueText
  <2>2. ~(text[r] >= fresh)
    BY <1>1, <2>1
  <2>3. text[r] \in Ids("template") /\ rows'["template"][text[r]].key = rows["template"][text[r]].key
    BY <1>3, <2>2 DEF KeysKept
  <2>4. QED
    BY <2>3 DEF TrueText
<1>4. QED
  BY <1>2, <1>3 DEF TrueText

(* ... those that Replace writes as well, and they are all written when every
   template has an id. *)
LEMMA RawIsTrue ==
    ASSUME RowsInv, NEW t \in Template PROVE TrueText(t, Raw(t))
<1>1. fresh \in Nat \ {0} /\ Ids("template") \subseteq 1 .. fresh - 1
  BY ListBounds, Kinds DEF RowsInv, ListInv, ListTyped
<1>2. QED
  BY <1>1 DEF TrueText, Raw

LEMMA ReplaceIsTrue ==
    ASSUME RowsInv, KnownTrue, NEW t \in Template, NEW text, TrueText(t, text)
    PROVE  /\ TrueText(t, Replace(text))
           /\ (\A r \in Template : dumped[r] # 0) => FullText(t, Replace(text))
           /\ ~HasMissing(Replace(text)) => FullText(t, Replace(text))
<1>1. fresh \in Nat \ {0} /\ Ids("template") \subseteq 1 .. fresh - 1
  BY ListBounds, Kinds DEF RowsInv, ListInv, ListTyped
<1>2. text \in [Refs[t] -> 0 .. fresh - 1] /\ DOMAIN text = Refs[t]
  BY DEF TrueText
<1>3. /\ DOMAIN Replace(text) = Refs[t]
      /\ \A r \in Refs[t] : Replace(text)[r] = IF text[r] = 0 THEN Resolved(r) ELSE text[r]
  BY <1>2 DEF Replace
<1>4. \A r : Resolved(r) \in 0 .. fresh - 1
  BY <1>1 DEF Resolved, KnownTrue
<1>5. Replace(text) \in [Refs[t] -> 0 .. fresh - 1]
  BY <1>2, <1>4 DEF Replace
<1>6. \A r \in Refs[t] \cap Template :
        Replace(text)[r] \in Ids("template") => rows["template"][Replace(text)[r]].key = r
  BY <1>3 DEF Resolved, KnownTrue, TrueText
<1>7. (\A r \in Template : dumped[r] # 0) => FullText(t, Replace(text))
  BY <1>3 DEF FullText, Resolved
<1>8. ~HasMissing(Replace(text)) => FullText(t, Replace(text))
  BY <1>3 DEF FullText, HasMissing
<1>9. QED
  BY <1>5, <1>6, <1>7, <1>8 DEF TrueText

LEMMA TrueTextTyped ==
    ASSUME RowsInv, NEW t \in Template, NEW text, TrueText(t, text) PROVE text \in Texts
<1>1. fresh \in Nat /\ fresh - 1 <= MaxId /\ MaxId \in Nat
  BY ListBounds DEF RowsInv, ListInv, ListTyped
<1>2. text \in [Refs[t] -> 0 .. MaxId]
  BY <1>1 DEF TrueText
<1>3. QED
  BY <1>2 DEF Texts

(* 0 stands for none. *)
LEMMA ZeroIsThere == ASSUME NEW n \in Nat, n # 0 PROVE 0 \in 0 .. n - 1
OBVIOUS

-------------------------------------------------------------------------------
(* The id that the run finds for a key is one that was listed with it. *)
LEMMA LatestIsOne ==
    ASSUME NEW n \in Nat, NEW S \in SUBSET (1 .. n), S # {}
    PROVE  Latest(S) \in S /\ \A i \in S : i <= Latest(S)
<1>1. IsFiniteSet(1 .. n) /\ (1 .. n) \subseteq Nat
  BY FS_Interval
<1>2. IsFiniteSet(S) /\ S \in SUBSET Nat
  BY <1>1, FS_Subset
<1>3. \E i \in S : \A j \in S : j <= i
  BY <1>2, LatestExists
<1>4. QED
  BY <1>3 DEF Latest

LEMMA ListedIsThere ==
    ASSUME RowsInv, NEW key
    PROVE  /\ Listed(key) \in 0 .. fresh - 1
           /\ Listed(key) # 0 =>
                Listed(key) \in DOMAIN call.items /\ call.items[Listed(key)] = key
           /\ \A i \in DOMAIN call.items : call.items[i] = key => Listed(key) # 0
<1> DEFINE ids == {i \in DOMAIN call.items : call.items[i] = key}
<1>1. fresh - 1 \in Nat /\ ids \in SUBSET (1 .. fresh - 1)
  BY ListBounds DEF RowsInv, ListInv, ListTyped
<1>2. CASE ids = {}
  <2>1. Listed(key) = 0
    BY <1>2 DEF Listed
  <2>2. QED
    BY <1>1, <1>2, <2>1
<1>3. CASE ids # {}
  <2>1. Listed(key) = Latest(ids)
    BY <1>3 DEF Listed
  <2>2. Latest(ids) \in ids
    BY <1>1, <1>3, LatestIsOne
  <2>3. Listed(key) \in 1 .. fresh - 1
    BY <1>1, <2>1, <2>2
  <2>4. QED
    BY <1>1, <2>1, <2>2, <2>3
<1>4. QED
  BY <1>2, <1>3

-------------------------------------------------------------------------------
(* The variables that a step of the dump leaves alone, for all lemmas below. *)
StepsKeep ==
    /\ RowsInv' /\ KeysKept
    /\ fresh \in Nat \ {0} /\ fresh' \in Nat \ {0} /\ fresh <= fresh'
    /\ 0 .. fresh - 1 \subseteq 0 .. fresh' - 1
    /\ Ids("template") \subseteq 1 .. fresh - 1
    /\ \A t, text : TrueText(t, text) => TrueText(t, text)'

LEMMA StepFacts == ASSUME RowsInv, [Next]_vars PROVE StepsKeep
<1>1. RowsInv' /\ KeysKept
  BY RowSteps
<1>2. fresh \in Nat \ {0} /\ Ids("template") \subseteq 1 .. fresh - 1
  BY ListBounds, Kinds DEF RowsInv, ListInv, ListTyped
<1>3. fresh' \in Nat \ {0}
  BY <1>1, ListBounds DEF RowsInv, ListInv, ListTyped
<1>4. fresh <= fresh'
  BY <1>1 DEF KeysKept
<1>5. \A t, text : TrueText(t, text) => TrueText(t, text)'
  BY <1>1, <1>3, TrueTextKept
<1>6. QED
  BY <1>1, <1>2, <1>3, <1>4, <1>5, IntervalsGrow DEF StepsKeep

(* An id of a row, or 0, is none of a later row. *)
LEMMA KnownKept ==
    ASSUME RowsInv, KnownTrue, StepsKeep
    PROVE  /\ suites \in [Listing -> 0 .. fresh' - 1]
           /\ dumped \in [Template -> 0 .. fresh' - 1]
           /\ \A t \in Template :
                dumped[t] \in Ids("template")' => rows'["template"][dumped[t]].key = t
<1>1. /\ suites \in [Listing -> 0 .. fresh' - 1]
      /\ dumped \in [Template -> 0 .. fresh' - 1]
  BY DEF KnownTrue, StepsKeep
<1>2. ASSUME NEW t \in Template, dumped[t] \in Ids("template")'
      PROVE  rows'["template"][dumped[t]].key = t
  <2>1. dumped[t] \in 0 .. fresh - 1 /\ ~(dumped[t] >= fresh)
    BY DEF KnownTrue, StepsKeep
  <2>2. QED
    BY <1>2, <2>1 DEF KnownTrue, StepsKeep, KeysKept
<1>3. QED
  BY <1>1, <1>2

LEMMA KnownTrueKept ==
    ASSUME RowsInv, ControlTyped, KnownTrue, TemplatesKnown, [Next]_vars PROVE KnownTrue'
<1>1. StepsKeep
  BY StepFacts
<1>2. ASSUME NEW e, e \in Seq([template : Template, text : Texts]), delayed' = e,
             \A n \in DOMAIN e : TrueText(e[n].template, e[n].text)
      PROVE  DelayedTrue'
  <2>1. \A n \in DOMAIN e : TrueText(e[n].template, e[n].text)'
    BY <1>1, <1>2 DEF StepsKeep
  <2>2. QED
    BY <1>2, <2>1 DEF DelayedTrue
<1>3. delayed' = delayed => DelayedTrue'
  <2>1. PICK e : e = delayed
    OBVIOUS
  <2>2. QED
    BY <1>2, <2>1 DEF KnownTrue, DelayedTrue
<1>4. CASE UNCHANGED dumpVars
  <2>1. suites' = suites /\ dumped' = dumped /\ delayed' = delayed
    BY <1>4 DEF dumpVars
  <2>2. QED
    BY <1>1, <1>3, <2>1, KnownKept DEF KnownTrue
<1>5. CASE SuitesListed
  <2>1. /\ suites' = [l \in Listing |-> Listed(l)] /\ dumped' = dumped /\ delayed' = delayed
        /\ fresh' = fresh
    BY <1>5 DEF SuitesListed, listVars
  <2>2. suites' \in [Listing -> 0 .. fresh' - 1]
    BY <2>1, ListedIsThere
  <2>3. QED
    BY <1>1, <1>3, <2>1, <2>2, KnownKept DEF KnownTrue
<1>6. CASE TemplatesListed
  <2>1. /\ dumped' = [t \in Template |-> Listed(t)] /\ suites' = suites /\ delayed' = delayed
        /\ fresh' = fresh /\ rows' = rows /\ Ids("template")' = Ids("template")
        /\ call.kind = "template"
    BY <1>6 DEF TemplatesListed, listVars, Ids, TemplatesKnown
  <2>2. dumped' \in [Template -> 0 .. fresh' - 1]
    BY <2>1, ListedIsThere
  <2>3. ASSUME NEW t \in Template, dumped'[t] \in Ids("template")
        PROVE  rows["template"][dumped'[t]].key = t
    <3>1. Listed(t) # 0
      BY <1>1, <2>1, <2>3 DEF StepsKeep
    <3>2. Listed(t) \in DOMAIN call.items /\ call.items[Listed(t)] = t
      BY <3>1, ListedIsThere
    <3>3. QED
      BY <2>1, <2>3, <3>2 DEF RowsInv, ListInv, ItemsAreRows
  <2>4. QED
    BY <1>1, <1>3, <2>1, <2>2, <2>3, KnownKept DEF KnownTrue
<1>7. ASSUME NEW l \in Listing, CreateSuiteOf(l) PROVE KnownTrue'
  <2>1. /\ suites' = [suites EXCEPT ![l] = fresh] /\ dumped' = dumped /\ delayed' = delayed
        /\ fresh' = fresh + 1
    BY <1>7 DEF CreateSuiteOf, Create, NewId
  <2>2. suites' \in [Listing -> 0 .. fresh' - 1]
    BY <1>1, <2>1, KnownKept DEF StepsKeep
  <2>3. QED
    BY <1>1, <1>3, <2>1, <2>2, KnownKept DEF KnownTrue
<1>8. ASSUME NEW t \in Template, Visit(t)
      PROVE  suites' = suites /\ DelayedTrue'
  <2>1. PICK text : text = Replace(Raw(t))
    OBVIOUS
  <2>2. PICK d : d = [template |-> t, text |-> text]
    OBVIOUS
  <2>3. TrueText(t, text) /\ d \in [template : Template, text : Texts]
    BY <2>1, <2>2, RawIsTrue, ReplaceIsTrue, TrueTextTyped
  <2>4. PICK e : e = delayed'
    OBVIOUS
  <2>5. e = delayed \/ e = Append(delayed, d)
    BY <1>8, <2>1, <2>2, <2>4 DEF Visit, DelayedWith
  <2>6. delayed \in Seq([template : Template, text : Texts])
    BY DEF KnownTrue, DelayedTrue
  <2>7. e \in Seq([template : Template, text : Texts])
    <3> DEFINE R == [template : Template, text : Texts]
    <3> HIDE DEF R
    <3>1. d \in R /\ delayed \in Seq(R)
      BY <2>3, <2>6 DEF R
    <3>2. e \in Seq(R)
      BY <2>5, <3>1
    <3>3. QED
      BY <3>2 DEF R
  <2>8. ASSUME NEW n \in DOMAIN e PROVE e[n] = d \/ (n \in DOMAIN delayed /\ e[n] = delayed[n])
    BY <2>5, <2>6, <2>8
  <2>9. \A n \in DOMAIN e : TrueText(e[n].template, e[n].text)
    BY <2>2, <2>3, <2>8 DEF KnownTrue, DelayedTrue
  <2>10. QED
    BY <1>8, <1>2, <2>4, <2>7, <2>9 DEF Visit
<1>9. ASSUME NEW t \in Template, SkipTemplate(t) \/ UpdateTemplate(t) PROVE KnownTrue'
  <2>1. dumped' = dumped /\ Visit(t)
    BY <1>9 DEF SkipTemplate, UpdateTemplate
  <2>2. QED
    BY <1>1, <1>8, <2>1, KnownKept DEF KnownTrue
<1>10. ASSUME NEW t \in Template, CreateTemplateOf(t) PROVE KnownTrue'
  <2>1. /\ Visit(t) /\ dumped' = [dumped EXCEPT ![t] = fresh]
        /\ \E row : Create("template", row) /\ DOMAIN row = {"key", "suite", "text"} /\ row.key = t
    BY <1>10 DEF CreateTemplateOf, NewId
  <2>2. rows'["template"][fresh].key = t /\ fresh' = fresh + 1
    BY <2>1, TemplateCreated
  <2>3. dumped' \in [Template -> 0 .. fresh' - 1]
    BY <1>1, <2>1, <2>2, KnownKept DEF StepsKeep
  <2>4. \A u \in Template : dumped'[u] \in Ids("template")' => rows'["template"][dumped'[u]].key = u
    BY <1>1, <1>3, <2>1, <2>2, KnownKept DEF KnownTrue
  <2>5. QED
    BY <1>1, <1>8, <2>1, <2>3, <2>4, KnownKept DEF KnownTrue
<1>11. CASE UpdateDelayed
  <2>1. suites' = suites /\ dumped' = dumped /\ delayed' = Tail(delayed) /\ delayed # << >>
    BY <1>11 DEF UpdateDelayed
  <2>2. PICK e : e = delayed'
    OBVIOUS
  <2>3. delayed \in Seq([template : Template, text : Texts])
    BY DEF KnownTrue, DelayedTrue
  <2>4. /\ e \in Seq([template : Template, text : Texts])
        /\ \A n \in DOMAIN e : n + 1 \in DOMAIN delayed /\ e[n] = delayed[n + 1]
    BY <2>1, <2>2, <2>3
  <2>5. \A n \in DOMAIN e : TrueText(e[n].template, e[n].text)
    BY <2>4 DEF KnownTrue, DelayedTrue
  <2>6. QED
    BY <1>1, <1>2, <2>1, <2>2, <2>4, <2>5, KnownKept DEF KnownTrue
<1>12. CASE Refuse \/ Finish \/ Stop
  <2>1. suites' = NoSuites /\ dumped' = NotDumped /\ delayed' = << >>
    BY <1>12 DEF Refuse, Finish, Stop, End
  <2>2. fresh' \in Nat /\ fresh' # 0
    BY <1>1 DEF StepsKeep
  <2>3. Ids("template")' \subseteq 1 .. fresh' - 1
    BY <1>1, Kinds DEF StepsKeep, RowsInv, ListInv, ListTyped
  <2>4. \A t \in Template : dumped'[t] = 0 /\ 0 \notin Ids("template")'
    BY <2>1, <2>2, <2>3 DEF NotDumped
  <2>5. 0 \in 0 .. fresh' - 1
    BY <2>2, ZeroIsThere
  <2>6. suites' \in [Listing -> 0 .. fresh' - 1] /\ dumped' \in [Template -> 0 .. fresh' - 1]
    BY <2>1, <2>5 DEF NoSuites, NotDumped
  <2>7. PICK e : e = << >>
    OBVIOUS
  <2>8. e \in Seq([template : Template, text : Texts]) /\ DOMAIN e = {}
    BY <2>7
  <2>9. DelayedTrue'
    BY <1>2, <2>1, <2>7, <2>8
  <2>10. QED
    BY <2>4, <2>6, <2>9 DEF KnownTrue
<1>13. ASSUME Dump PROVE \/ UNCHANGED dumpVars
                         \/ SuitesListed \/ TemplatesListed \/ UpdateDelayed
                         \/ \E l \in Listing : CreateSuiteOf(l)
                         \/ \E t \in Template : SkipTemplate(t) \/ UpdateTemplate(t) \/ CreateTemplateOf(t)
                         \/ Refuse \/ Finish \/ Stop
  BY <1>13 DEF Dump, DumpNext, DumpStep, Start, UpdateSuite, ListTemplates, FetchDicts,
               UploadDict, ListingStep
<1>14. ASSUME ~Dump PROVE UNCHANGED dumpVars
  <2>1. OthersWork
    BY <1>14, OthersSteps DEF Next
  <2>2. QED
    BY <2>1 DEF OthersWork, dumpState
<1>15. QED
  BY <1>4, <1>5, <1>6, <1>7, <1>9, <1>10, <1>11, <1>12, <1>13, <1>14

-------------------------------------------------------------------------------
(* What a run is told and where it stands. *)
LEMMA ControlTypedKept == ASSUME RowsInv, ControlTyped, [Next]_vars PROVE ControlTyped'
<1>1. CASE UNCHANGED dumpState
  BY <1>1 DEF ControlTyped, dumpState, runVars
<1>2. ASSUME Start
      PROVE  /\ phase' \in Phases /\ todo' = todo
             /\ runs' \in 0 .. MaxRuns /\ given' \in BOOLEAN /\ incremental' \in BOOLEAN
  <2>1. /\ runs < MaxRuns /\ runs' = runs + 1 /\ phase' = "suite list" /\ todo' = todo
        /\ given' = (runs > 0) /\ incremental' \in BOOLEAN
    BY <1>2 DEF Start
  <2>2. given' \in BOOLEAN
    <3>1. runs \in Nat
      BY OldDatabase DEF ControlTyped
    <3>2. (runs > 0) \in BOOLEAN
      BY <3>1
    <3>3. QED
      BY <2>1, <3>2
  <2>3. runs' \in 0 .. MaxRuns
    <3>1. MaxRuns \in Nat
      BY OldDatabase
    <3>2. runs \in 0 .. MaxRuns /\ runs < MaxRuns /\ runs' = runs + 1
      BY <2>1 DEF ControlTyped
    <3>3. QED
      BY <3>1, <3>2
  <2>4. QED
    BY <2>1, <2>2, <2>3 DEF Phases
<1>3. ASSUME Refuse \/ Finish \/ Stop
      PROVE  /\ phase' \in Phases /\ todo' = {} /\ UNCHANGED runVars
  BY <1>3 DEF Refuse, Finish, Stop, End, Phases
<1>4. ASSUME SuitesListed \/ TemplatesListed \/ ListTemplates
      PROVE  /\ phase' \in Phases /\ todo' \in {todo, Listing, Template} /\ UNCHANGED runVars
  BY <1>4 DEF SuitesListed, TemplatesListed, ListTemplates, Phases
<1>5. ASSUME \/ \E l \in Listing : UpdateSuite(l) \/ CreateSuiteOf(l)
             \/ \E t \in Template : SkipTemplate(t) \/ UpdateTemplate(t) \/ CreateTemplateOf(t)
             \/ UpdateDelayed
             \/ \E x \in Name : UploadDict(x)
             \/ ListingStep
      PROVE  phase' = phase /\ todo' \subseteq todo /\ UNCHANGED runVars
  BY <1>5 DEF UpdateSuite, CreateSuiteOf, SkipTemplate, UpdateTemplate, CreateTemplateOf, Visit,
              UpdateDelayed, UploadDict, ListingStep
<1>6. ASSUME FetchDicts
      PROVE  phase' \in Phases /\ todo' \subseteq Name /\ UNCHANGED runVars
  BY <1>6 DEF FetchDicts, Phases
<1>7. ASSUME Dump PROVE shifted' \in BOOLEAN
  BY <1>7 DEF ControlTyped, Dump, DumpNext, DumpStep, ListingStep
<1>8. ASSUME ~Dump PROVE UNCHANGED dumpState
  BY <1>8, OthersSteps DEF Next, OthersWork
<1>9. ASSUME Dump, ~Start
      PROVE  /\ phase' \in Phases /\ todo' \subseteq Listing \cup Template \cup Name
             /\ UNCHANGED runVars
  <2>1. phase \in Phases /\ todo \subseteq Listing \cup Template \cup Name
    BY DEF ControlTyped
  <2>2. QED
    BY <1>3, <1>4, <1>5, <1>6, <1>9, <2>1 DEF Dump, DumpNext, DumpStep
<1>10. CASE Dump /\ ~Start
  BY <1>7, <1>9, <1>10 DEF ControlTyped, runVars
<1>11. CASE Dump /\ Start
  BY <1>2, <1>7, <1>11 DEF ControlTyped
<1>12. QED
  BY <1>1, <1>8, <1>10, <1>11

(* The actions of a run that write rows. *)
SameRows(kind) ==
    /\ Ids(kind)' = Ids(kind)
    /\ \A i \in Ids(kind) : rows'[kind][i] = rows[kind][i]

LEMMA RowsOfSteps ==
    ASSUME RowsInv, Dump
    PROVE  /\ \/ SameRows("template")
              \/ \E t \in Template : UpdateTemplate(t) \/ CreateTemplateOf(t)
              \/ UpdateDelayed
           /\ \/ SameRows("suite")
              \/ \E l \in Listing : CreateSuiteOf(l)
<1>1. rows' = rows => SameRows("template") /\ SameRows("suite")
  BY DEF SameRows, Ids
<1>2. ASSUME Start \/ ListTemplates \/ ListingStep PROVE rows' = rows
  BY <1>2 DEF Start, ListTemplates, ListingStep, StartList, ListPage
<1>3. ASSUME Refuse \/ Finish \/ Stop PROVE rows' = rows
  BY <1>3 DEF Refuse, Finish, Stop, End
<1>4. ASSUME \/ SuitesListed \/ TemplatesListed \/ FetchDicts
             \/ \E l \in Listing : UpdateSuite(l)
             \/ \E t \in Template : SkipTemplate(t)
             \/ \E x \in Name : UploadDict(x)
      PROVE  rows' = rows
  BY <1>4 DEF SuitesListed, TemplatesListed, FetchDicts, UpdateSuite, SkipTemplate, UploadDict,
              listVars
<1>5. ASSUME NEW l \in Listing, CreateSuiteOf(l) PROVE SameRows("template")
  <2>1. Create("suite", [key |-> l])
    BY <1>5 DEF CreateSuiteOf
  <2>2. QED
    BY <2>1, SuiteCreated DEF SameRows
<1>6. ASSUME NEW t \in Template, CreateTemplateOf(t) PROVE SameRows("suite")
  <2>1. PICK row : Create("template", row) /\ DOMAIN row = {"key", "suite", "text"}
    BY <1>6 DEF CreateTemplateOf
  <2>2. QED
    BY <2>1, TemplateCreated DEF SameRows
<1>7. ASSUME UpdateDelayed \/ \E t \in Template : UpdateTemplate(t) PROVE SameRows("suite")
  <2>1. PICK id, text :
          /\ id \in Ids("template")
          /\ Update("template", id, [rows["template"][id] EXCEPT !.text = text])
    BY <1>7 DEF UpdateDelayed, UpdateTemplate
  <2>2. QED
    BY <2>1, TemplateUpdated DEF SameRows
<1>8. QED
  BY <1>1, <1>2, <1>3, <1>4, <1>5, <1>6, <1>7 DEF Dump, DumpNext, DumpStep

-------------------------------------------------------------------------------
(* What a run writes into templates is true of the references. *)
LEMMA TemplateWritten ==
    ASSUME RowsInv, KnownTrue, NEW t \in Template, UpdateTemplate(t)
    PROVE  \E id, text :
             /\ id \in Ids("template")
             /\ Update("template", id, [rows["template"][id] EXCEPT !.text = text])
             /\ id = dumped[t] /\ rows["template"][id].key = t
             /\ text = Replace(Raw(t)) /\ TrueText(t, text)
<1>1. TrueText(t, Replace(Raw(t)))
  BY RawIsTrue, ReplaceIsTrue
<1>2. QED
  BY <1>1 DEF UpdateTemplate, KnownTrue

LEMMA DelayedWritten ==
    ASSUME RowsInv, KnownTrue, UpdateDelayed
    PROVE  \E id, t, text :
             /\ id \in Ids("template") /\ t \in Template
             /\ Update("template", id, [rows["template"][id] EXCEPT !.text = text])
             /\ id = dumped[t] /\ rows["template"][id].key = t
             /\ t = delayed[1].template
             /\ TrueText(t, text)
             /\ (\A r \in Template : dumped[r] # 0) => FullText(t, text)
<1>1. PICK d : d = delayed[1] /\ d = Head(delayed)
  BY DEF KnownTrue, DelayedTrue, UpdateDelayed
<1>2. 1 \in DOMAIN delayed /\ delayed \in Seq([template : Template, text : Texts])
  BY DEF KnownTrue, DelayedTrue, UpdateDelayed
<1>3. d.template \in Template /\ TrueText(d.template, d.text)
  <2> DEFINE R == [template : Template, text : Texts]
  <2>1. d \in R
    <3> HIDE DEF R
    <3>1. delayed \in Seq(R)
      BY <1>2 DEF R
    <3>2. QED
      BY <1>1, <1>2, <3>1
  <2>2. TrueText(d.template, d.text)
    BY <1>1, <1>2 DEF KnownTrue, DelayedTrue
  <2>3. QED
    BY <2>1, <2>2
<1>4. /\ TrueText(d.template, Replace(d.text))
      /\ (\A r \in Template : dumped[r] # 0) => FullText(d.template, Replace(d.text))
  BY <1>3, ReplaceIsTrue
<1>5. QED
  BY <1>1, <1>3, <1>4 DEF UpdateDelayed, KnownTrue

LEMMA TemplateAdded ==
    ASSUME RowsInv, KnownTrue, NEW t \in Template, CreateTemplateOf(t)
    PROVE  \E row :
             /\ Create("template", row) /\ DOMAIN row = {"key", "suite", "text"}
             /\ row.key = t /\ row.text = Replace(Raw(t)) /\ TrueText(t, row.text)
<1>1. TrueText(t, Replace(Raw(t)))
  BY RawIsTrue, ReplaceIsTrue
<1>2. PICK row : /\ row = [key |-> t, suite |-> suites[ListingOf[t]], text |-> Replace(Raw(t))]
                 /\ Create("template", row)
  BY DEF CreateTemplateOf
<1>3. QED
  BY <1>1, <1>2

LEMMA RowsTrueKept ==
    ASSUME RowsInv, KnownTrue, RowsTrue, [Next]_vars PROVE RowsTrue'
<1>1. StepsKeep
  BY StepFacts
<1>2. ASSUME \A i \in Ids("template")' : \A row :
               row = rows'["template"][i] /\ row.key \in Template /\ row.text # UserText
                  => \/ TrueText(row.key, row.text)
                     \/ i \in Ids("template") /\ row = rows["template"][i]
      PROVE  RowsTrue'
  <2>1. ASSUME NEW i \in Ids("template")', NEW row, row = rows'["template"][i],
               row.key \in Template, row.text # UserText
        PROVE  TrueText(row.key, row.text)'
    <3>1. TrueText(row.key, row.text)
      BY <1>2, <2>1 DEF RowsTrue, Written
    <3>2. QED
      BY <1>1, <3>1 DEF StepsKeep
  <2>2. QED
    BY <2>1 DEF RowsTrue, Written
<1>3. CASE SameRows("template")
  BY <1>2, <1>3 DEF SameRows
<1>4. ASSUME NEW t \in Template, CreateTemplateOf(t) PROVE RowsTrue'
  <2>1. PICK row : /\ Create("template", row) /\ DOMAIN row = {"key", "suite", "text"}
                   /\ row.key = t /\ TrueText(t, row.text)
    BY <1>4, TemplateAdded
  <2>2. /\ Ids("template")' = Ids("template") \cup {fresh} /\ rows'["template"][fresh] = row
        /\ \A i \in Ids("template") : rows'["template"][i] = rows["template"][i]
    BY <2>1, TemplateCreated
  <2>3. QED
    BY <1>2, <2>1, <2>2
<1>5. ASSUME UpdateDelayed \/ \E t \in Template : UpdateTemplate(t) PROVE RowsTrue'
  <2>1. PICK id, t, text :
          /\ id \in Ids("template") /\ t \in Template
          /\ Update("template", id, [rows["template"][id] EXCEPT !.text = text])
          /\ rows["template"][id].key = t /\ TrueText(t, text)
    BY <1>5, TemplateWritten, DelayedWritten
  <2>2. /\ Ids("template")' = Ids("template")
        /\ \A i \in Ids("template") :
             /\ rows'["template"][i].key = rows["template"][i].key
             /\ i # id => rows'["template"][i] = rows["template"][i]
        /\ rows'["template"][id].text = text
    BY <2>1, TemplateUpdated
  <2>3. QED
    BY <1>2, <2>1, <2>2
<1>6. ASSUME ~Dump PROVE RowsTrue'
  <2>1. OthersWork
    BY <1>6, OthersSteps DEF Next
  <2>2. QED
    BY <1>2, <2>1, NoKeyIsNoId DEF OthersWork
<1>7. QED
  BY <1>3, <1>4, <1>5, <1>6, RowsOfSteps

-------------------------------------------------------------------------------
(* How a run gets to where it stands. *)
LEMMA PhasesOfSteps ==
    ASSUME Dump
    PROVE  /\ phase' = "suite list" => Start \/ (phase = "suite list" /\ ListingStep)
           /\ phase' = "suites" =>
                \/ SuitesListed
                \/ phase = "suites" /\ \E l \in Listing : UpdateSuite(l) \/ CreateSuiteOf(l)
           /\ phase' = "template list" => ListTemplates \/ (phase = "template list" /\ ListingStep)
           /\ phase' = "templates" =>
                \/ TemplatesListed
                \/ /\ phase = "templates"
                   /\ \/ \E t \in Template : SkipTemplate(t) \/ UpdateTemplate(t) \/ CreateTemplateOf(t)
                      \/ UpdateDelayed
           /\ phase' \in {"dicts", "upload", "done"} =>
                FetchDicts \/ (\E x \in Name : UploadDict(x)) \/ Finish
           /\ incremental' = incremental \/ phase' = "suite list"
           /\ shifted => shifted'
<1>1. ASSUME Start PROVE phase' = "suite list"
  BY <1>1 DEF Start
<1>2. ASSUME Refuse \/ Stop PROVE phase' = "stopped" /\ UNCHANGED incremental
  BY <1>2 DEF Refuse, Stop, End, runVars
<1>3. ASSUME SuitesListed PROVE phase' = "suites" /\ UNCHANGED incremental
  BY <1>3 DEF SuitesListed, runVars
<1>4. ASSUME NEW l \in Listing, UpdateSuite(l) \/ CreateSuiteOf(l)
      PROVE  phase = "suites" /\ phase' = "suites" /\ UNCHANGED incremental
  BY <1>4 DEF UpdateSuite, CreateSuiteOf, runVars
<1>5. ASSUME ListTemplates PROVE phase' = "template list" /\ UNCHANGED incremental
  BY <1>5 DEF ListTemplates, runVars
<1>6. ASSUME TemplatesListed PROVE phase' = "templates" /\ UNCHANGED incremental
  BY <1>6 DEF TemplatesListed, runVars
<1>7. ASSUME \/ \E t \in Template : SkipTemplate(t) \/ UpdateTemplate(t) \/ CreateTemplateOf(t)
             \/ UpdateDelayed
      PROVE  phase = "templates" /\ phase' = "templates" /\ UNCHANGED incremental
  BY <1>7 DEF SkipTemplate, UpdateTemplate, CreateTemplateOf, Visit, UpdateDelayed, runVars
<1>8. ASSUME FetchDicts \/ (\E x \in Name : UploadDict(x)) \/ Finish
      PROVE  phase' \in {"dicts", "upload", "done"} /\ UNCHANGED incremental
  BY <1>8 DEF FetchDicts, UploadDict, Finish, End, runVars
<1>9. ASSUME ListingStep
      PROVE  /\ phase \in {"suite list", "template list"} /\ phase' = phase
             /\ UNCHANGED incremental
  BY <1>9 DEF ListingStep, runVars
<1>10. shifted => shifted'
  BY DEF Dump, DumpNext, DumpStep, ListingStep
<1>11. QED
  BY <1>1, <1>2, <1>3, <1>4, <1>5, <1>6, <1>7, <1>8, <1>9, <1>10 DEF Dump, DumpNext, DumpStep

-------------------------------------------------------------------------------
(* A list_all that is at its end has been shifted by no removal, or this is
   remembered. *)
LEMMA ListsShift ==
    ASSUME RowsInv, ListingStep
    PROVE  /\ call'.kind = call.kind /\ call'.start = call.start
           /\ ~shifted' => call'.gone = 0
<1>1. ListPage /\ (call.gone > 0 => shifted') /\ call.gone \in Nat
  BY DEF ListingStep, RowsInv, ListInv, ListTyped
<1>2. call'.kind = call.kind /\ call'.start = call.start /\ call'.gone = call.gone
  BY <1>1, PageKeepsList DEF RowsInv
<1>3. QED
  BY <1>1, <1>2

(* A suite that a list_all finds for every listing that has one. *)
LEMMA SuitesKnownKept ==
    ASSUME RowsInv, KnownTrue, SuitesKnown, [Next]_vars PROVE SuitesKnown'
<1>1. Ids("suite") \subseteq 1 .. fresh - 1 /\ fresh \in Nat \ {0}
  BY ListBounds, Kinds DEF RowsInv, ListInv, ListTyped
<1>2. CASE ~Dump
  <2>1. OthersWork
    BY <1>2, OthersSteps DEF Next
  <2>2. phase' = phase /\ suites' = suites /\ shifted' = shifted
    BY <2>1 DEF OthersWork, dumpState, dumpVars
  <2>3. \A i \in Ids("suite")' : rows'["suite"][i].key \in Listing =>
          i \in Ids("suite") /\ rows'["suite"][i] = rows["suite"][i]
    BY <2>1, NoKeyIsNoId DEF OthersWork
  <2>4. /\ call'.kind = call.kind /\ call'.start = call.start /\ call'.on = call.on
        /\ ~call.on => call'.gone = call.gone
    BY <2>1 DEF OthersWork
  <2>5. QED
    BY <2>2, <2>3, <2>4 DEF SuitesKnown
<1>3. ASSUME Dump, NEW l \in Listing, CreateSuiteOf(l) PROVE SuitesKnown'
  <2>1. /\ Create("suite", [key |-> l]) /\ phase = "suites" /\ phase' = "suites"
        /\ suites[l] = 0 /\ suites' = [suites EXCEPT ![l] = fresh]
    BY <1>3 DEF CreateSuiteOf, NewId
  <2>2. /\ Ids("suite")' = Ids("suite") \cup {fresh} /\ rows'["suite"][fresh].key = l
        /\ \A i \in Ids("suite") : rows'["suite"][i] = rows["suite"][i]
    BY <2>1, SuiteCreated
  <2>3. ~shifted => \A i \in Ids("suite") : rows["suite"][i].key # l
    BY <2>1 DEF SuitesKnown
  <2>4. DOMAIN suites = Listing /\ suites' \in [Listing -> Nat]
    BY <1>1, <2>1 DEF KnownTrue
  <2>5. ~shifted => \A i, j \in Ids("suite")' :
          rows'["suite"][i].key = rows'["suite"][j].key /\ rows'["suite"][i].key \in Listing => i = j
    BY <2>2, <2>3 DEF SuitesKnown
  <2>6. ~shifted => \A i \in Ids("suite")' :
          rows'["suite"][i].key \in Listing => suites'[rows'["suite"][i].key] # 0
    BY <1>1, <2>1, <2>2, <2>3, <2>4 DEF SuitesKnown
  <2>7. shifted => shifted'
    BY <1>3, PhasesOfSteps
  <2>8. QED
    BY <2>1, <2>5, <2>6, <2>7 DEF SuitesKnown
<1>4. ASSUME Dump, SameRows("suite") PROVE SuitesKnown'
  <2>0. shifted => shifted'
    BY <1>4, PhasesOfSteps
  <2>1. ~shifted => \A i, j \in Ids("suite")' :
          rows'["suite"][i].key = rows'["suite"][j].key /\ rows'["suite"][i].key \in Listing => i = j
    BY <1>4 DEF SameRows, SuitesKnown
  <2>2. ASSUME phase' = "suite list"
        PROVE  /\ call'.kind = "suite"
               /\ \A i \in Ids("suite") : rows["suite"][i].key \in Listing => i \in call'.start
               /\ ~shifted' => call'.gone = 0
    <3>1. CASE Start
      <4>1. StartList("suite")
        BY <3>1 DEF Start
      <4>2. QED
        BY <4>1, Kinds, StartKeepsList DEF RowsInv
    <3>2. CASE phase = "suite list" /\ ListingStep
      BY <3>2, ListsShift DEF SuitesKnown
    <3>3. QED
      BY <1>4, <2>2, <3>1, <3>2, PhasesOfSteps
  <2>3. ASSUME phase' = "suites", ~shifted,
               NEW i \in Ids("suite"), rows["suite"][i].key \in Listing
        PROVE  suites'[rows["suite"][i].key] # 0
    <3>1. CASE SuitesListed
      <4>1. PICK l \in Listing : l = rows["suite"][i].key
        BY <2>3
      <4>2. /\ suites'[l] = Listed(l) /\ ~call.on /\ phase = "suite list"
        BY <3>1 DEF SuitesListed
      <4>3. call.kind = "suite" /\ call.gone = 0 /\ i \in call.start
        BY <2>3, <4>2 DEF SuitesKnown
      <4>4. i \in DOMAIN call.items
        BY <2>3, <4>2, <4>3, NothingMissed DEF RowsInv
      <4>5. call.items[i] = l
        BY <2>3, <4>1, <4>3, <4>4 DEF RowsInv, ListInv, ItemsAreRows
      <4>6. QED
        BY <4>1, <4>2, <4>4, <4>5, ListedIsThere
    <3>2. ASSUME phase = "suites", NEW l \in Listing, UpdateSuite(l) PROVE suites' = suites
      BY <3>2 DEF UpdateSuite, dumpVars
    <3>3. ASSUME phase = "suites", NEW l \in Listing, CreateSuiteOf(l) PROVE FALSE
      <4>1. Create("suite", [key |-> l])
        BY <3>3 DEF CreateSuiteOf
      <4>2. fresh \in Ids("suite")' /\ fresh \notin Ids("suite")
        BY <1>1, <4>1, SuiteCreated
      <4>3. QED
        BY <1>4, <4>2 DEF SameRows
    <3>4. QED
      BY <1>4, <2>3, <3>1, <3>2, <3>3, PhasesOfSteps DEF SuitesKnown
  <2>4. QED
    BY <1>4, <2>0, <2>1, <2>2, <2>3 DEF SameRows, SuitesKnown
<1>5. QED
  BY <1>2, <1>3, <1>4, RowsOfSteps

-------------------------------------------------------------------------------
(* Only a run's start changes what it is told. *)
LEMMA RunsUnchanged == ASSUME Dump, ~Start PROVE phase # "idle" /\ UNCHANGED runVars
<1>1. ASSUME Refuse \/ Finish \/ Stop PROVE phase # "idle" /\ UNCHANGED runVars
  BY <1>1 DEF Refuse, Finish, Stop, End, Resting
<1>2. ASSUME SuitesListed \/ ListTemplates \/ TemplatesListed \/ ListingStep
      PROVE  phase # "idle" /\ UNCHANGED runVars
  BY <1>2 DEF SuitesListed, ListTemplates, TemplatesListed, ListingStep
<1>3. ASSUME \/ \E l \in Listing : UpdateSuite(l) \/ CreateSuiteOf(l)
             \/ \E t \in Template : SkipTemplate(t) \/ UpdateTemplate(t) \/ CreateTemplateOf(t)
      PROVE  phase # "idle" /\ UNCHANGED runVars
  BY <1>3 DEF UpdateSuite, CreateSuiteOf, SkipTemplate, UpdateTemplate, CreateTemplateOf, Visit
<1>4. ASSUME UpdateDelayed \/ FetchDicts \/ \E x \in Name : UploadDict(x)
      PROVE  phase # "idle" /\ UNCHANGED runVars
  BY <1>4 DEF UpdateDelayed, FetchDicts, UploadDict
<1>5. QED
  BY <1>1, <1>2, <1>3, <1>4 DEF Dump, DumpNext, DumpStep

(* The first run finds no template that the dump has written. *)
LEMMA FirstRunKept ==
    ASSUME RowsInv, ControlTyped, FirstRun, [Next]_vars PROVE FirstRun'
<1>1. ASSUME SameRows("template") PROVE \A i \in Ids("template")' : Written(i)' => Written(i)
  BY <1>1 DEF SameRows, Written
<1>2. CASE ~Dump
  <2>1. OthersWork
    BY <1>2, OthersSteps DEF Next
  <2>2. runs' = runs /\ given' = given /\ phase' = phase
    BY <2>1 DEF OthersWork, dumpState, runVars
  <2>3. \A i \in Ids("template")' : Written(i)' => i \in Ids("template") /\ Written(i)
    BY <2>1, NoKeyIsNoId DEF OthersWork, Written
  <2>4. QED
    BY <2>2, <2>3 DEF FirstRun
<1>3. CASE Start
  <2>1. runs' = runs + 1 /\ given' = (runs > 0) /\ StartList("suite")
    BY <1>3, Zenon DEF Start
  <2>2. SameRows("template")
    BY <2>1 DEF StartList, SameRows, Ids
  <2>3. runs' # 0 /\ (~given' => runs = 0)
    <3>1. runs \in Nat
      BY OldDatabase DEF ControlTyped
    <3>2. runs' # 0 /\ (runs > 0 \/ runs = 0)
      BY <2>1, <3>1
    <3>3. QED
      BY <2>1, <3>2, Zenon
  <2>4. QED
    BY <1>1, <2>2, <2>3 DEF FirstRun, SameRows
<1>4. ASSUME Dump, ~Start PROVE FirstRun'
  <2>1. phase # "idle" /\ UNCHANGED runVars
    BY <1>4, RunsUnchanged
  <2>2. runs # 0
    BY <2>1 DEF FirstRun
  <2>3. ASSUME phase' \in Listings PROVE phase \in Listings /\ SameRows("template")
    <3>1. phase \in Listings
      BY <1>4, <2>3, PhasesOfSteps DEF Listings, SuitesListed, ListTemplates
    <3>2. ASSUME \/ \E t \in Template : UpdateTemplate(t) \/ CreateTemplateOf(t)
                 \/ UpdateDelayed
          PROVE  phase' = "templates"
      BY <3>2 DEF UpdateTemplate, CreateTemplateOf, UpdateDelayed, Visit
    <3>3. QED
      BY <1>4, <2>3, <3>1, <3>2, RowsOfSteps DEF Listings
  <2>4. QED
    BY <1>1, <2>1, <2>2, <2>3 DEF FirstRun, SameRows, runVars
<1>5. QED
  BY <1>2, <1>3, <1>4

-------------------------------------------------------------------------------
(* While nothing was removed between two pages, the run knows the rows of the
   templates. *)
LEMMA TemplatesKnownKept ==
    ASSUME RowsInv, ToolStands, KnownTrue, FirstRun, TemplatesKnown, [Next]_vars
    PROVE  TemplatesKnown'
<1>1. Ids("template") \subseteq 1 .. fresh - 1 /\ fresh \in Nat \ {0}
  BY ListBounds, Kinds DEF RowsInv, ListInv, ListTyped
<1>2. CASE ~Dump
  <2>1. OthersWork
    BY <1>2, OthersSteps DEF Next
  <2>2. phase' = phase /\ dumped' = dumped /\ shifted' = shifted
    BY <2>1 DEF OthersWork, dumpState, dumpVars
  <2>3. \A i \in Ids("template")' : rows'["template"][i].key \in Template =>
          \/ /\ i \in Ids("template") /\ rows'["template"][i].key = rows["template"][i].key
             /\ Written(i)' => Written(i)
             /\ i \notin numbered' => i \notin numbered
          \/ i \in numbered' /\ ~Written(i)'
    BY <2>1, NoKeyIsNoId DEF OthersWork, Written
  <2>4. ~shifted => OneRow'
    BY <2>3 DEF TemplatesKnown, OneRow
  <2>5. /\ call'.kind = call.kind /\ call'.on = call.on /\ call'.start = call.start
        /\ ~call.on => call'.gone = call.gone
    BY <2>1 DEF OthersWork
  <2>6. phase = "template list" => \A i \in Ids("template")' :
          rows'["template"][i].key \in Template /\ (i \notin numbered' \/ Written(i)')
             => i \in call.start
    BY <2>3 DEF TemplatesKnown
  <2>7. phase = "templates" /\ ~shifted =>
          \A i \in Ids("template")' : rows'["template"][i].key \in Template =>
             /\ i \notin numbered' => dumped[rows'["template"][i].key] # 0
             /\ Written(i)' => dumped[rows'["template"][i].key] = i
    BY <2>3 DEF TemplatesKnown
  <2>8. QED
    BY <2>2, <2>4, <2>5, <2>6, <2>7 DEF TemplatesKnown
<1>3. ASSUME Dump PROVE numbered' = numbered /\ (shifted => shifted')
  BY <1>3, PhasesOfSteps DEF Dump, toolVars
<1>4. ASSUME Dump, NEW t \in Template, CreateTemplateOf(t) PROVE TemplatesKnown'
  <2>1. PICK row : Create("template", row) /\ DOMAIN row = {"key", "suite", "text"} /\ row.key = t
    BY <1>4, TemplateAdded
  <2>2. /\ Ids("template")' = Ids("template") \cup {fresh} /\ rows'["template"][fresh].key = t
        /\ \A i \in Ids("template") : rows'["template"][i] = rows["template"][i]
    BY <2>1, TemplateCreated
  <2>3. /\ phase = "templates" /\ phase' = "templates"
        /\ dumped[t] = 0 /\ dumped' = [dumped EXCEPT ![t] = fresh]
    BY <1>4 DEF CreateTemplateOf, Visit, NewId
  <2>4. ~shifted => \A i \in Ids("template") :
          rows["template"][i].key = t => i \in numbered /\ ~Written(i)
    BY <1>1, <2>3 DEF TemplatesKnown
  <2>5. ~shifted => OneRow'
    BY <1>3, <1>4, <2>2, <2>4 DEF TemplatesKnown, OneRow
  <2>6. DOMAIN dumped = Template /\ fresh # 0
    BY <1>1 DEF KnownTrue
  <2>7. \A i \in Ids("template") : Written(i)' <=> Written(i)
    BY <2>2 DEF Written
  <2>8. \A u \in Template : dumped'[u] = IF u = t THEN fresh ELSE dumped[u]
    BY <2>3, <2>6
  <2>9. ASSUME ~shifted, NEW i \in Ids("template")', NEW u \in Template,
               u = rows'["template"][i].key
        PROVE  /\ i \notin numbered => dumped'[u] # 0
               /\ Written(i)' => dumped'[u] = i
    <3>1. CASE i = fresh
      BY <2>2, <2>6, <2>8, <2>9, <3>1
    <3>2. CASE i \in Ids("template") /\ u = t
      BY <2>2, <2>4, <2>6, <2>7, <2>8, <2>9, <3>2
    <3>3. CASE i \in Ids("template") /\ u # t
      BY <2>2, <2>3, <2>7, <2>8, <2>9, <3>3 DEF TemplatesKnown
    <3>4. QED
      BY <2>2, <3>1, <3>2, <3>3
  <2>10. QED
    BY <1>3, <1>4, <2>3, <2>5, <2>9 DEF TemplatesKnown
<1>5. ASSUME Dump, UpdateDelayed \/ \E t \in Template : UpdateTemplate(t) PROVE TemplatesKnown'
  <2>1. PICK id, t, text :
          /\ id \in Ids("template") /\ t \in Template
          /\ Update("template", id, [rows["template"][id] EXCEPT !.text = text])
          /\ id = dumped[t] /\ rows["template"][id].key = t
    BY <1>5, TemplateWritten, DelayedWritten
  <2>2. /\ Ids("template")' = Ids("template")
        /\ \A i \in Ids("template") :
             /\ rows'["template"][i].key = rows["template"][i].key
             /\ i # id => rows'["template"][i] = rows["template"][i]
    BY <2>1, TemplateUpdated
  <2>3. phase = "templates" /\ phase' = "templates" /\ dumped' = dumped
    BY <1>5 DEF UpdateTemplate, Visit, UpdateDelayed
  <2>4. \A i \in Ids("template") : i # id /\ Written(i)' => Written(i)
    BY <2>2 DEF Written
  <2>5. ~shifted => OneRow'
    BY <1>3, <1>5, <2>2 DEF TemplatesKnown, OneRow
  <2>6. ~shifted => \A i \in Ids("template") : rows["template"][i].key \in Template =>
            /\ i \notin numbered => dumped[rows["template"][i].key] # 0
            /\ Written(i)' => dumped[rows["template"][i].key] = i
    BY <2>1, <2>3, <2>4 DEF TemplatesKnown
  <2>7. QED
    BY <1>3, <1>5, <2>2, <2>3, <2>5, <2>6 DEF TemplatesKnown
<1>6. ASSUME Dump, SameRows("template") PROVE TemplatesKnown'
  <2>1. ~shifted => OneRow'
    BY <1>3, <1>6 DEF SameRows, TemplatesKnown, OneRow
  <2>2. \A i \in Ids("template") : Written(i)' <=> Written(i)
    BY <1>6 DEF SameRows, Written
  <2>3. ASSUME phase' = "template list"
        PROVE  /\ call'.kind = "template"
               /\ \A i \in Ids("template") :
                    rows["template"][i].key \in Template /\ (i \notin numbered \/ Written(i))
                       => i \in call'.start
               /\ ~shifted' => call'.gone = 0
    <3>1. CASE ListTemplates
      <4>1. StartList("template")
        BY <3>1 DEF ListTemplates
      <4>2. /\ call'.kind = "template" /\ call'.start = Ids("template") /\ call'.gone = 0
        BY <4>1, Kinds, StartKeepsList DEF RowsInv
      <4>3. QED
        BY <4>2
    <3>2. CASE phase = "template list" /\ ListingStep
      BY <3>2, ListsShift DEF TemplatesKnown
    <3>3. QED
      BY <1>6, <2>3, <3>1, <3>2, PhasesOfSteps
  <2>4. ASSUME phase' = "templates", ~shifted,
               NEW i \in Ids("template"), rows["template"][i].key \in Template
        PROVE  /\ i \notin numbered => dumped'[rows["template"][i].key] # 0
               /\ Written(i) => dumped'[rows["template"][i].key] = i
    <3>1. CASE TemplatesListed
      <4> SUFFICES ASSUME i \notin numbered \/ Written(i)
                   PROVE  /\ dumped'[rows["template"][i].key] # 0
                          /\ Written(i) => dumped'[rows["template"][i].key] = i
        OBVIOUS
      <4>1. PICK t \in Template : t = rows["template"][i].key
        BY <2>4
      <4>2. /\ dumped'[t] = Listed(t) /\ ~call.on /\ phase = "template list"
            /\ given => KeysAreUnique
        BY <3>1 DEF TemplatesListed
      <4>3. call.kind = "template" /\ call.gone = 0 /\ i \in call.start
        BY <2>4, <4>2 DEF TemplatesKnown
      <4>4. i \in DOMAIN call.items
        BY <2>4, <4>2, <4>3, NothingMissed DEF RowsInv
      <4>5. call.items[i] = t
        BY <2>4, <4>1, <4>3, <4>4 DEF RowsInv, ListInv, ItemsAreRows
      <4>6. Listed(t) # 0 /\ Listed(t) \in DOMAIN call.items /\ call.items[Listed(t)] = t
        BY <4>4, <4>5, ListedIsThere
      <4>7. Written(i) => Listed(t) = i
        <5>1. Written(i) => given
          BY <4>2 DEF FirstRun, Listings
        <5>2. QED
          BY <4>2, <4>4, <4>5, <4>6, <5>1 DEF KeysAreUnique
      <4>8. QED
        BY <4>1, <4>2, <4>6, <4>7
    <3>2. ASSUME \/ \E t \in Template : SkipTemplate(t) \/ UpdateTemplate(t)
                 \/ UpdateDelayed
          PROVE  dumped' = dumped
      BY <3>2 DEF SkipTemplate, UpdateTemplate, UpdateDelayed
    <3>3. ASSUME NEW t \in Template, CreateTemplateOf(t) PROVE FALSE
      <4>1. PICK row : Create("template", row) /\ DOMAIN row = {"key", "suite", "text"}
        BY <3>3, TemplateAdded
      <4>2. fresh \in Ids("template")' /\ fresh \notin Ids("template")
        BY <4>1, TemplateCreated
      <4>3. QED
        BY <1>6, <4>2 DEF SameRows
    <3>4. QED
      BY <1>6, <2>4, <3>1, <3>2, <3>3, PhasesOfSteps DEF TemplatesKnown
  <2>5. QED
    BY <1>3, <1>6, <2>1, <2>2, <2>3, <2>4 DEF SameRows, TemplatesKnown
<1>7. QED
  BY <1>2, <1>4, <1>5, <1>6, RowsOfSteps

-------------------------------------------------------------------------------
(* What is left of a template's references when the loop has passed it. *)
LEMMA ToBeDone ==
    ASSUME NEW t \in Template, Visit(t), KnownTrue
    PROVE  /\ todo' = todo \ {t} /\ phase = "templates" /\ phase' = "templates"
           /\ \A n \in DOMAIN delayed :
                \E m \in DOMAIN delayed' : delayed'[m].template = delayed[n].template
           /\ HasMissing(Replace(Raw(t))) =>
                \E m \in DOMAIN delayed' : delayed'[m].template = t
<1>1. PICK text : text = Replace(Raw(t))
  OBVIOUS
<1>2. PICK d : d = [template |-> t, text |-> text]
  OBVIOUS
<1>3. PICK e : e = delayed'
  OBVIOUS
<1>4. IF HasMissing(text) THEN e = Append(delayed, d) ELSE e = delayed
  BY <1>1, <1>2, <1>3 DEF Visit, DelayedWith
<1>5. delayed \in Seq([template : Template, text : Texts])
  BY DEF KnownTrue, DelayedTrue
<1>6. \A n \in DOMAIN delayed : n \in DOMAIN e /\ e[n] = delayed[n]
  BY <1>4, <1>5
<1>7. HasMissing(text) => \E m \in DOMAIN e : e[m] = d
  <2>1. HasMissing(text) => Len(delayed) + 1 \in DOMAIN e /\ e[Len(delayed) + 1] = d
    BY <1>4, <1>5
  <2>2. QED
    BY <2>1
<1>8. d.template = t
  BY <1>2
<1>9. QED
  BY <1>1, <1>3, <1>6, <1>7, <1>8 DEF Visit

(* They are all written, or the run comes back to them. *)
LEMMA AnswersFollowKept ==
    ASSUME RowsInv, ControlTyped, KnownTrue, TemplatesKnown, AnswersFollow, [Next]_vars
    PROVE  AnswersFollow'
<1>1. Ids("template") \subseteq 1 .. fresh - 1 /\ fresh \in Nat \ {0}
  BY ListBounds, Kinds DEF RowsInv, ListInv, ListTyped
<1>2. CASE ~Dump
  <2>1. OthersWork
    BY <1>2, OthersSteps DEF Next
  <2>2. /\ phase' = phase /\ dumped' = dumped /\ shifted' = shifted /\ todo' = todo
        /\ delayed' = delayed /\ incremental' = incremental
    BY <2>1 DEF OthersWork, dumpState, dumpVars, runVars
  <2>3. \A i \in Ids("template")' :
          rows'["template"][i].key \in Template /\ rows'["template"][i].text # UserText =>
            i \in Ids("template") /\ rows'["template"][i] = rows["template"][i]
    BY <2>1, NoKeyIsNoId DEF OthersWork
  <2>4. QED
    BY <2>2, <2>3 DEF AnswersFollow, Written, Answered, FullText
<1>3. CASE Dump /\ phase' \notin {"templates", "dicts", "upload", "done"}
  BY <1>3 DEF AnswersFollow
<1>4. CASE TemplatesListed
  <2>1. phase' = "templates" /\ todo' = Template
    BY <1>4 DEF TemplatesListed
  <2>2. QED
    BY <2>1 DEF AnswersFollow, Written
<1>5. ASSUME NEW t \in Template, SkipTemplate(t) PROVE AnswersFollow'
  <2>1. incremental /\ incremental' = incremental
    BY <1>5 DEF SkipTemplate, Visit, runVars
  <2>2. QED
    BY <2>1 DEF AnswersFollow
<1>6. ASSUME Dump, NEW t \in Template, UpdateTemplate(t) PROVE AnswersFollow'
  <2>1. PICK id, text :
          /\ id \in Ids("template")
          /\ Update("template", id, [rows["template"][id] EXCEPT !.text = text])
          /\ id = dumped[t] /\ rows["template"][id].key = t
          /\ text = Replace(Raw(t))
    BY <1>6, TemplateWritten
  <2>2. /\ Ids("template")' = Ids("template")
        /\ \A i \in Ids("template") :
             /\ rows'["template"][i].key = rows["template"][i].key
             /\ i # id => rows'["template"][i] = rows["template"][i]
        /\ rows'["template"][id].text = text
    BY <2>1, TemplateUpdated
  <2>3. /\ todo' = todo \ {t} /\ phase = "templates" /\ phase' = "templates"
        /\ \A n \in DOMAIN delayed :
             \E m \in DOMAIN delayed' : delayed'[m].template = delayed[n].template
        /\ HasMissing(text) => \E m \in DOMAIN delayed' : delayed'[m].template = t
    BY <1>6, <2>1, ToBeDone DEF UpdateTemplate
  <2>4. ~incremental /\ incremental' = incremental /\ dumped' = dumped /\ (shifted => shifted')
    BY <1>6, PhasesOfSteps DEF UpdateTemplate, Visit, runVars
  <2>5. \A u \in Template \ todo' : dumped'[u] # 0
    BY <1>1, <2>1, <2>3, <2>4 DEF AnswersFollow
  <2>6. ~HasMissing(text) => FullText(t, text)
    BY <2>1, RawIsTrue, ReplaceIsTrue
  <2>7. ASSUME ~shifted, NEW i \in Ids("template"),
               rows["template"][i].key \in Template, rows["template"][i].key \notin todo',
               rows'["template"][i].text # UserText
        PROVE  Answered(i)'
    <3>1. CASE i = id
      BY <2>1, <2>2, <2>3, <2>6, <3>1 DEF Answered
    <3>2. CASE i # id
      <4>1. rows["template"][i].key # t
        BY <2>1, <2>2, <2>3, <2>7, <3>2 DEF TemplatesKnown, Written
      <4>2. Answered(i)
        BY <2>2, <2>3, <2>4, <2>7, <3>2, <4>1 DEF AnswersFollow, Written
      <4>3. QED
        BY <2>2, <2>3, <3>2, <4>2 DEF Answered, FullText
    <3>3. QED
      BY <3>1, <3>2
  <2>8. QED
    BY <2>2, <2>3, <2>4, <2>5, <2>7 DEF AnswersFollow, Written
<1>7. ASSUME Dump, NEW t \in Template, CreateTemplateOf(t) PROVE AnswersFollow'
  <2>1. PICK row : /\ Create("template", row) /\ DOMAIN row = {"key", "suite", "text"}
                   /\ row.key = t /\ row.text = Replace(Raw(t))
    BY <1>7, TemplateAdded
  <2>2. /\ Ids("template")' = Ids("template") \cup {fresh} /\ rows'["template"][fresh] = row
        /\ \A i \in Ids("template") : rows'["template"][i] = rows["template"][i]
    BY <2>1, TemplateCreated
  <2>3. /\ todo' = todo \ {t} /\ phase = "templates" /\ phase' = "templates"
        /\ \A n \in DOMAIN delayed :
             \E m \in DOMAIN delayed' : delayed'[m].template = delayed[n].template
        /\ HasMissing(row.text) => \E m \in DOMAIN delayed' : delayed'[m].template = t
    BY <1>7, <2>1, ToBeDone DEF CreateTemplateOf
  <2>4. /\ incremental' = incremental /\ (shifted => shifted')
        /\ dumped[t] = 0 /\ dumped' = [dumped EXCEPT ![t] = fresh]
    BY <1>7, PhasesOfSteps DEF CreateTemplateOf, Visit, runVars, NewId
  <2>5. ~incremental => \A u \in Template \ todo' : dumped'[u] # 0
    <3>1. DOMAIN dumped = Template
      BY DEF KnownTrue
    <3>2. QED
      BY <1>1, <2>3, <2>4, <3>1 DEF AnswersFollow
  <2>6. ~HasMissing(row.text) => FullText(t, row.text)
    BY <2>1, RawIsTrue, ReplaceIsTrue
  <2>7. ASSUME ~incremental, ~shifted, NEW i \in Ids("template")',
               rows'["template"][i].key \in Template, rows'["template"][i].key \notin todo',
               rows'["template"][i].text # UserText
        PROVE  Answered(i)'
    <3>1. CASE i = fresh
      BY <2>1, <2>2, <2>3, <2>6, <3>1 DEF Answered
    <3>2. CASE i # fresh
      <4>1. i \in Ids("template") /\ rows'["template"][i] = rows["template"][i]
        BY <2>2, <3>2
      <4>2. rows["template"][i].key # t
        BY <1>1, <2>3, <2>4, <2>7, <4>1 DEF TemplatesKnown, Written
      <4>3. Answered(i)
        BY <2>3, <2>7, <4>1, <4>2 DEF AnswersFollow, Written
      <4>4. QED
        BY <2>3, <4>1, <4>3 DEF Answered, FullText
    <3>3. QED
      BY <3>1, <3>2
  <2>8. QED
    BY <2>3, <2>4, <2>5, <2>7 DEF AnswersFollow, Written
<1>8. ASSUME Dump, UpdateDelayed PROVE AnswersFollow'
  <2>1. /\ phase = "templates" /\ phase' = "templates" /\ todo = {} /\ todo' = {}
        /\ dumped' = dumped /\ incremental' = incremental /\ (shifted => shifted')
        /\ delayed' = Tail(delayed) /\ delayed # << >>
    BY <1>8, PhasesOfSteps DEF UpdateDelayed, runVars
  <2>2. PICK id, t, text :
          /\ id \in Ids("template") /\ t \in Template
          /\ Update("template", id, [rows["template"][id] EXCEPT !.text = text])
          /\ id = dumped[t] /\ rows["template"][id].key = t
          /\ t = delayed[1].template
          /\ (\A r \in Template : dumped[r] # 0) => FullText(t, text)
    BY <1>8, DelayedWritten
  <2>3. /\ Ids("template")' = Ids("template")
        /\ \A i \in Ids("template") :
             /\ rows'["template"][i].key = rows["template"][i].key
             /\ i # id => rows'["template"][i] = rows["template"][i]
        /\ rows'["template"][id].text = text
    BY <2>2, TemplateUpdated
  <2>4. \A n \in DOMAIN delayed : n = 1 \/ (n - 1 \in DOMAIN delayed' /\ delayed'[n - 1] = delayed[n])
    <3>1. PICK e : e = delayed'
      OBVIOUS
    <3>2. delayed \in Seq([template : Template, text : Texts])
      BY DEF KnownTrue, DelayedTrue
    <3>3. \A n \in DOMAIN delayed : n = 1 \/ (n - 1 \in DOMAIN e /\ e[n - 1] = delayed[n])
      BY <2>1, <3>1, <3>2
    <3>4. QED
      BY <3>1, <3>3
  <2>5. ASSUME ~incremental, ~shifted, NEW i \in Ids("template"),
               rows["template"][i].key \in Template,
               rows'["template"][i].text # UserText
        PROVE  Answered(i)'
    <3>1. CASE i = id
      <4>1. FullText(t, text)
        BY <2>1, <2>2, <2>5 DEF AnswersFollow
      <4>2. QED
        BY <2>2, <2>3, <3>1, <4>1 DEF Answered
    <3>2. CASE i # id
      <4>1. rows["template"][i].key # t
        BY <2>1, <2>2, <2>3, <2>5, <3>2 DEF TemplatesKnown, Written
      <4>2. Answered(i)
        BY <2>1, <2>3, <2>5, <3>2 DEF AnswersFollow, Written
      <4>3. CASE FullText(rows["template"][i].key, rows["template"][i].text)
        BY <2>3, <3>2, <4>3 DEF Answered, FullText
      <4>4. ASSUME NEW n \in DOMAIN delayed, delayed[n].template = rows["template"][i].key
            PROVE  Answered(i)'
        <5>1. n - 1 \in DOMAIN delayed' /\ delayed'[n - 1].template = rows["template"][i].key
          BY <2>2, <2>4, <4>1, <4>4
        <5>2. QED
          BY <2>1, <2>3, <5>1 DEF Answered
      <4>5. QED
        BY <4>2, <4>3, <4>4 DEF Answered
    <3>3. QED
      BY <3>1, <3>2
  <2>6. QED
    BY <2>1, <2>3, <2>5 DEF AnswersFollow, Written
<1>9. ASSUME Dump, FetchDicts \/ (\E x \in Name : UploadDict(x)) \/ Finish PROVE AnswersFollow'
  <2>1. /\ phase' \in {"dicts", "upload", "done"} /\ incremental' = incremental
        /\ rows' = rows /\ (shifted => shifted')
        /\ \/ phase \in {"dicts", "upload"}
           \/ phase = "templates" /\ todo = {} /\ delayed = << >>
    <3>1. CASE FetchDicts
      BY <1>9, <3>1, PhasesOfSteps DEF FetchDicts, listVars, runVars
    <3>2. CASE \E x \in Name : UploadDict(x)
      BY <1>9, <3>2, PhasesOfSteps DEF UploadDict, listVars, runVars
    <3>3. CASE Finish
      BY <1>9, <3>3, PhasesOfSteps DEF Finish, End, runVars
    <3>4. QED
      BY <1>9, <3>1, <3>2, <3>3
  <2>2. phase = "templates" => DOMAIN delayed = {}
    BY <2>1
  <2>3. ASSUME ~incremental, ~shifted, NEW i \in Ids("template"), Written(i)
        PROVE  FullText(rows["template"][i].key, rows["template"][i].text)
    BY <2>1, <2>2, <2>3 DEF AnswersFollow, Answered
  <2>4. QED
    BY <2>1, <2>3 DEF AnswersFollow, Answered, Written, Ids, FullText
<1>10. QED
  <2>1. ASSUME Dump, phase' = "templates" PROVE AnswersFollow'
    BY <1>4, <1>5, <1>6, <1>7, <1>8, <2>1, PhasesOfSteps
  <2>2. ASSUME Dump, phase' \in {"dicts", "upload", "done"} PROVE AnswersFollow'
    BY <1>9, <2>2, PhasesOfSteps
  <2>3. QED
    BY <1>2, <1>3, <2>1, <2>2

-------------------------------------------------------------------------------
(* The rows that a query asks for come all, in some order. *)
LEMMA AnswersAreComplete ==
    ASSUME NEW answer \in Bijection(1 .. Cardinality(AskedDicts), AskedDicts)
    PROVE  /\ Cardinality(AskedDicts) \in Nat
           /\ answer \in [1 .. Cardinality(AskedDicts) -> AskedDicts]
           /\ \A d \in AskedDicts : \E i \in DOMAIN answer : answer[i] = d
<1>1. IsFiniteSet(AskedDicts)
  BY OldDatabase, FS_Subset DEF AskedDicts
<1>2. Cardinality(AskedDicts) \in Nat
  BY <1>1, FS_CardinalityType
<1>3. QED
  BY <1>2 DEF Bijection, Surjection, Injection

(* What the run knows of the dictionaries after a query. *)
LEMMA FetchedDicts ==
    ASSUME DictsTyped, NEW answer \in Bijection(1 .. Cardinality(AskedDicts), AskedDicts)
    PROVE  /\ Fetch(answer) \in
                [Name -> [inf : {"own", "common", "other", "none"}, includes : SUBSET Name]]
           /\ \A d \in AskedDicts : Fetch(answer)[d.name].inf # "none"
<1> DEFINE n == Cardinality(AskedDicts)
           Infs == {"own", "common", "other"}
           Entry == [inf : {"own", "common", "other", "none"}, includes : SUBSET Name]
           named(x) == {i \in DOMAIN answer : answer[i].name = x}
           including(x) == {i \in named(x) : answer[i].includes # {}}
<1>1. /\ n \in Nat /\ answer \in [1 .. n -> AskedDicts]
      /\ \A d \in AskedDicts : \E i \in DOMAIN answer : answer[i] = d
  BY AnswersAreComplete
<1>2. \A i \in DOMAIN answer : answer[i].inf \in Infs /\ answer[i].includes \subseteq Name
  BY <1>1, OldDatabase DEF AskedDicts
<1>3. ASSUME NEW x \in Name PROVE named(x) \in SUBSET (1 .. n) /\ including(x) \in SUBSET (1 .. n)
  BY <1>1
<1>4. ASSUME NEW x \in Name, named(x) # {} PROVE answer[Latest(named(x))].inf \in Infs
  <2>1. Latest(named(x)) \in named(x)
    BY <1>1, <1>3, <1>4, LatestIsOne
  <2>2. QED
    BY <1>2, <2>1
<1>5. ASSUME NEW x \in Name, including(x) # {}
      PROVE  answer[Latest(including(x))].includes \subseteq Name
  <2>1. Latest(including(x)) \in including(x)
    BY <1>1, <1>3, <1>5, LatestIsOne
  <2>2. QED
    BY <1>2, <2>1
<1>6. \A x \in Name : found[x] \in Entry
  BY DEF DictsTyped
<1>7. ASSUME NEW x \in Name
      PROVE  Fetch(answer)[x] =
               IF named(x) = {} THEN found[x]
               ELSE [inf |-> answer[Latest(named(x))].inf,
                     includes |-> IF including(x) = {} THEN found[x].includes
                                  ELSE answer[Latest(including(x))].includes]
  BY DEF Fetch
<1> HIDE DEF named, including
<1>8. ASSUME NEW x \in Name
      PROVE  Fetch(answer)[x] \in Entry /\ (named(x) # {} => Fetch(answer)[x].inf \in Infs)
  <2>1. CASE named(x) = {}
    BY <1>6, <1>7, <2>1
  <2>2. CASE named(x) # {}
    <3>1. PICK inf : inf = answer[Latest(named(x))].inf
      OBVIOUS
    <3>2. PICK includes : includes = IF including(x) = {} THEN found[x].includes
                                     ELSE answer[Latest(including(x))].includes
      OBVIOUS
    <3>3. inf \in Infs
      BY <1>4, <2>2, <3>1
    <3>4. includes \in SUBSET Name
      BY <1>5, <1>6, <3>2
    <3>5. Fetch(answer)[x] = [inf |-> inf, includes |-> includes]
      BY <1>7, <2>2, <3>1, <3>2
    <3>6. QED
      BY <3>3, <3>4, <3>5
  <2>3. QED
    BY <2>1, <2>2
<1>9. ASSUME NEW d \in AskedDicts PROVE Fetch(answer)[d.name].inf # "none"
  <2>1. d.name \in Name
    BY OldDatabase DEF AskedDicts
  <2>2. named(d.name) # {}
    BY <1>1 DEF named
  <2>3. Fetch(answer)[d.name].inf \in Infs
    BY <1>8, <2>1, <2>2
  <2>4. QED
    BY <2>3
<1>10. Fetch(answer) \in [Name -> Entry]
  <2>1. DOMAIN Fetch(answer) = Name /\ Fetch(answer) = [x \in Name |-> Fetch(answer)[x]]
    BY DEF Fetch
  <2>2. QED
    BY <1>8, <2>1
<1>11. QED
  BY <1>9, <1>10

LEMMA DictsTypedKept ==
    ASSUME RowsInv, DictsTyped, [Next]_vars PROVE DictsTyped'
<1>1. ASSUME UNCHANGED dictVars, phase' \notin {"dicts", "upload"} => phase \notin {"dicts", "upload"}
      PROVE  DictsTyped'
  BY <1>1 DEF DictsTyped, dictVars
<1>2. CASE ~Dump
  <2>1. OthersWork
    BY <1>2, OthersSteps DEF Next
  <2>2. QED
    BY <1>1, <2>1 DEF OthersWork, dumpState
<1>3. ASSUME \/ Start \/ SuitesListed \/ ListTemplates \/ TemplatesListed
             \/ UpdateDelayed \/ ListingStep
             \/ \E l \in Listing : UpdateSuite(l) \/ CreateSuiteOf(l)
      PROVE  UNCHANGED dictVars /\ phase \notin {"dicts", "upload"}
  BY <1>3 DEF Start, Resting, SuitesListed, ListTemplates, TemplatesListed, UpdateDelayed,
              ListingStep, UpdateSuite, CreateSuiteOf
<1>4. ASSUME NEW t \in Template, SkipTemplate(t) \/ UpdateTemplate(t) \/ CreateTemplateOf(t)
      PROVE  DictsTyped'
  <2>1. /\ used' = used \cup Uses[t] /\ UNCHANGED <<found, missing, codes>>
        /\ phase = "templates"
    BY <1>4 DEF SkipTemplate, UpdateTemplate, CreateTemplateOf, Visit
  <2>2. Uses[t] \subseteq Name
    BY OldDatabase
  <2>3. QED
    BY <2>1, <2>2 DEF DictsTyped
<1>5. CASE FetchDicts
  <2>1. PICK answer \in Bijection(1 .. Cardinality(AskedDicts), AskedDicts) :
          /\ found' = Fetch(answer) /\ used' = Reached(Fetch(answer))
          /\ missing' = Missing(Fetch(answer)) /\ phase' \in {"dicts", "upload"}
          /\ codes' = codes
    BY <1>5 DEF FetchDicts
  <2>2. used' \subseteq Name /\ missing' \subseteq Name
    BY <2>1 DEF Reached, Missing
  <2>3. found' \in [Name -> [inf : {"own", "common", "other", "none"}, includes : SUBSET Name]]
    BY <2>1, FetchedDicts
  <2>4. QED
    BY <2>1, <2>2, <2>3 DEF DictsTyped
<1>6. ASSUME NEW x \in Name, UploadDict(x) PROVE DictsTyped'
  <2>1. /\ UNCHANGED <<used, found, missing>> /\ phase' = "upload"
        /\ codes' \subseteq codes \cup {x}
    BY <1>6 DEF UploadDict
  <2>2. QED
    BY <2>1 DEF DictsTyped
<1>7. CASE Refuse \/ Finish \/ Stop
  <2>1. used' = {} /\ found' = Unknown /\ missing' = {} /\ codes' = codes
    BY <1>7 DEF Refuse, Finish, Stop, End
  <2>2. QED
    BY <2>1 DEF DictsTyped, Unknown
<1>8. QED
  <2>1. ASSUME UNCHANGED dictVars, phase \notin {"dicts", "upload"} PROVE DictsTyped'
    BY <2>1, <1>1
  <2>2. QED
    BY <1>2, <1>3, <1>4, <1>5, <1>6, <1>7, <2>1 DEF Dump, DumpNext, DumpStep

(* The search for dictionaries ends when there is nothing more to find. *)
LEMMA DictionariesClosedKept ==
    ASSUME RowsInv, DictsTyped, DictionariesClosed, [Next]_vars PROVE DictionariesClosed'
<1>1. ASSUME UNCHANGED <<used, found>>, todo' \subseteq todo, phase' = phase
      PROVE  DictionariesClosed'
  BY <1>1 DEF DictionariesClosed
<1>2. CASE ~Dump
  <2>1. OthersWork
    BY <1>2, OthersSteps DEF Next
  <2>2. QED
    BY <1>1, <2>1 DEF OthersWork, dumpState, dictVars
<1>3. ASSUME NEW x \in Name, UploadDict(x) PROVE DictionariesClosed'
  BY <1>1, <1>3 DEF UploadDict
<1>4. ASSUME FetchDicts, phase' = "upload" PROVE DictionariesClosed'
  <2>1. PICK answer, f :
          /\ answer \in Bijection(1 .. Cardinality(AskedDicts), AskedDicts)
          /\ f = Fetch(answer) /\ found' = f /\ used' = Reached(f)
          /\ StopsLooking(Missing(f))
          /\ todo' = {x \in Name : f[x].inf # "none" /\ (Reached(f) = {} \/ x \in Reached(f))}
          /\ phase \in {"templates", "dicts"}
    BY <1>4 DEF FetchDicts
  <2>2. /\ f \in [Name -> [inf : {"own", "common", "other", "none"}, includes : SUBSET Name]]
        /\ \A d \in AskedDicts : f[d.name].inf # "none"
    BY <2>1, FetchedDicts
  <2>3. ASSUME NEW x \in Reached(f), f[x].inf = "none",
               NEW d \in OldDict, d.name = x, ~d.upper
        PROVE  FALSE
    <3>1. x \in Missing(f)
      BY <2>3 DEF Missing
    <3>2. x \in missing
      BY <2>1, <3>1 DEF StopsLooking
    <3>3. phase # "templates"
      BY <3>2 DEF DictsTyped
    <3>4. d \in AskedDicts
      BY <2>3, <3>2, <3>3 DEF AskedDicts, Asked
    <3>5. QED
      BY <2>2, <2>3, <3>4
  <2>4. ASSUME NEW x \in Reached(f), NEW y \in f[x].includes PROVE y \in Reached(f)
    <3>1. x \in Name /\ y \in Name
      BY <2>2, <2>4 DEF Reached
    <3>2. ASSUME NEW S \in SUBSET Name,
                 used \subseteq S /\ \A z \in S : Included(f, z) \subseteq S
          PROVE  y \in S
      <4>1. x \in S
        BY <3>2 DEF Reached
      <4>2. QED
        BY <3>2, <4>1 DEF Included
    <3>3. QED
      BY <3>1, <3>2 DEF Reached
  <2>5. Reached(f) # {} => todo' \subseteq Reached(f)
    BY <2>1
  <2>6. QED
    BY <2>1, <2>3, <2>4, <2>5 DEF DictionariesClosed
<1>5. ASSUME Dump, phase' = "upload" PROVE FetchDicts \/ \E x \in Name : UploadDict(x)
  <2>1. Finish => phase' = "done"
    BY DEF Finish, End
  <2>2. QED
    BY <1>5, <2>1, PhasesOfSteps
<1>6. phase' # "upload" => DictionariesClosed'
  BY DEF DictionariesClosed
<1>7. QED
  BY <1>2, <1>3, <1>4, <1>5, <1>6

-------------------------------------------------------------------------------
(* Every run, and everybody beside it, keeps what is true of the dump. *)
THEOREM DumpInvariant == Spec => []DumpInv
<1>1. Init => DumpInv
  <2> SUFFICES ASSUME Init PROVE DumpInv OBVIOUS
  <2>1. /\ fresh = 1 /\ Ids("template") = {} /\ Ids("suite") = {} /\ phase = "idle"
    BY Kinds DEF Init, ListInit, DumpInit, Ids
  <2>2. ControlTyped
    <3>1. MaxRuns \in Nat /\ runs = 0 /\ todo = {}
      BY OldDatabase DEF Init, DumpInit
    <3>2. given \in BOOLEAN /\ incremental \in BOOLEAN /\ shifted \in BOOLEAN
      BY DEF Init, DumpInit
    <3>3. runs \in 0 .. MaxRuns
      BY <3>1
    <3>4. QED
      BY <2>1, <3>1, <3>2, <3>3 DEF ControlTyped, Phases
  <2>3. KnownTrue
    <3>1. PICK e : e = << >> /\ e = delayed
      BY DEF Init, DumpInit
    <3>2. e \in Seq([template : Template, text : Texts]) /\ DOMAIN e = {}
      BY <3>1
    <3>3. DelayedTrue
      BY <3>1, <3>2 DEF DelayedTrue
    <3>4. QED
      BY <2>1, <3>3 DEF Init, DumpInit, NoSuites, NotDumped, KnownTrue
  <2>4. RowsTrue /\ SuitesKnown /\ TemplatesKnown /\ AnswersFollow /\ DictionariesClosed
        /\ FirstRun
    BY <2>1 DEF RowsTrue, SuitesKnown, TemplatesKnown, OneRow, AnswersFollow, DictionariesClosed,
                FirstRun
  <2>5. DictsTyped
    BY <2>1 DEF Init, DumpInit, DictsTyped, Unknown
  <2>6. QED
    BY <2>2, <2>3, <2>4, <2>5 DEF DumpInv
<1>2. RowsInv /\ ToolStands /\ DumpInv /\ [Next]_vars => DumpInv'
  <2> SUFFICES ASSUME RowsInv, ToolStands, DumpInv, [Next]_vars PROVE DumpInv' OBVIOUS
  <2> USE DEF DumpInv
  <2>1. ControlTyped' /\ KnownTrue' /\ RowsTrue'
    BY ControlTypedKept, KnownTrueKept, RowsTrueKept
  <2>2. SuitesKnown' /\ FirstRun' /\ TemplatesKnown' /\ AnswersFollow'
    BY SuitesKnownKept, FirstRunKept, TemplatesKnownKept, AnswersFollowKept
  <2>3. DictsTyped' /\ DictionariesClosed'
    BY DictsTypedKept, DictionariesClosedKept
  <2>4. QED
    BY <2>1, <2>2, <2>3
<1>3. QED
  BY <1>1, <1>2, RowsInvariant, ToolInvariant, PTL DEF Spec

(* However often runs break off and are repeated, in either mode, and whatever
   import_templates and the editors remove and create beside them: there is one
   suite for a listing, and the dump has made one row of a template of the old
   database, as long as no removal came between two pages of a list_all. *)
THEOREM RowsAreUnique == Spec => []OneOfEach
<1>1. RowsInv /\ DumpInv => OneOfEach
  <2> SUFFICES ASSUME RowsInv, DumpInv, ~shifted PROVE OneOfEach
    BY DEF OneOfEach
  <2>1. ASSUME NEW t \in Template PROVE Cardinality(IdsOf(t) \ numbered) <= 1
    <3> DEFINE own == IdsOf(t) \ numbered
    <3>1. \A i, j \in own : i = j
      BY <2>1 DEF DumpInv, TemplatesKnown, OneRow, IdsOf
    <3>2. CASE own = {}
      BY <3>2, FS_EmptySet
    <3>3. CASE own # {}
      <4>1. PICK i : own = {i}
        BY <3>1, <3>3
      <4>2. Cardinality({i}) = 1
        BY FS_Singleton
      <4>3. QED
        BY <4>1, <4>2
    <3>4. QED
      BY <3>2, <3>3
  <2>2. QED
    BY <2>1 DEF DumpInv, SuitesKnown, OneOfEach
<1>2. QED
  BY <1>1, RowsInvariant, DumpInvariant, PTL

(* A run without --incremental that comes to its end leaves no reference to
   another template open, and none that leads to a wrong one. *)
THEOREM ReferencesAreResolved == Spec => []AnswersResolved
<1>1. DumpInv => AnswersResolved
  <2> SUFFICES ASSUME DumpInv, phase = "done", ~incremental, ~shifted,
                      NEW t \in Template, NEW i \in IdsOf(t),
                      rows["template"][i].text # UserText,
                      NEW r \in Refs[t] \cap Template
               PROVE  /\ rows["template"][i].text[r] # 0
                      /\ rows["template"][i].text[r] \in Ids("template") =>
                           rows["template"][i].text[r] \in IdsOf(r)
    BY DEF AnswersResolved
  <2>1. i \in Ids("template") /\ rows["template"][i].key = t /\ Written(i)
    BY DEF IdsOf, Written
  <2>2. FullText(t, rows["template"][i].text)
    BY <2>1 DEF DumpInv, AnswersFollow, Answered
  <2>3. TrueText(t, rows["template"][i].text)
    BY <2>1 DEF DumpInv, RowsTrue
  <2>4. QED
    BY <2>2, <2>3 DEF FullText, TrueText, IdsOf
<1>2. QED
  BY <1>1, DumpInvariant, PTL

(* When the upload begins, no dictionary that could still be found is missing,
   and what is uploaded includes nothing else. *)
THEOREM DictionariesAreComplete == Spec => []DictionariesClosed
<1>1. DumpInv => DictionariesClosed
  BY DEF DumpInv
<1>2. QED
  BY <1>1, DumpInvariant, PTL

(* All variables of the profile's writers have their types. *)
THEOREM TransferTyped == Spec => []TypeOK
<1>1. RowsInv /\ ToolStands /\ IInv /\ DumpInv => TypeOK
  <2> SUFFICES ASSUME RowsInv, ToolStands, IInv, DumpInv PROVE TypeOK OBVIOUS
  <2>1. fresh \in Nat /\ MaxId \in Nat /\ fresh - 1 <= MaxId
    BY ListBounds DEF RowsInv, ListInv, ListTyped
  <2>2. 0 .. fresh - 1 \subseteq 0 .. MaxId /\ 1 .. fresh - 1 \subseteq 1 .. MaxId
    BY <2>1
  <2>3. ImportTypeOK
    <3>1. suite \in 0 .. MaxId /\ made \in [DOMAIN archive -> SUBSET (1 .. MaxId)]
      BY <2>2 DEF IInv, Stands
    <3>2. placed \subseteq (DOMAIN archive) \X (Nat \ {0}) \X (1 .. MaxId)
      BY <2>2 DEF IInv, Stands
    <3>3. QED
      BY <3>1, <3>2 DEF IInv, Stands, ImportTypeOK
  <2>4. suites \in [Listing -> 0 .. MaxId] /\ dumped \in [Template -> 0 .. MaxId]
    BY <2>2 DEF DumpInv, KnownTrue
  <2>5. \A i \in DOMAIN delayed : delayed[i].template \in Template
    <3>1. PICK e : e = delayed
      OBVIOUS
    <3> DEFINE R == [template : Template, text : Texts]
    <3>2. ASSUME NEW i \in DOMAIN e PROVE e[i] \in R
      <4> HIDE DEF R
      <4>1. e \in Seq(R)
        BY <3>1 DEF DumpInv, KnownTrue, DelayedTrue, R
      <4>2. QED
        BY <3>2, <4>1
    <3>3. QED
      BY <3>1, <3>2
  <2>6. \A i \in Ids("template") :
          rows["template"][i].key \in Template /\ rows["template"][i].text # UserText
             => DOMAIN rows["template"][i].text = Refs[rows["template"][i].key]
    BY DEF DumpInv, RowsTrue, Written, TrueText
  <2>7. DumpTypeOK
    BY <2>4, <2>5, <2>6
       DEF DumpInv, ControlTyped, DictsTyped, RowsInv, ListInv, ListTyped, DumpTypeOK
  <2>8. ToolTypeOK
    BY <2>2 DEF ToolStands, ToolTypeOK
  <2>9. QED
    BY <2>3, <2>7, <2>8 DEF TypeOK
<1>2. QED
  BY <1>1, RowsInvariant, ToolInvariant, ImportInvariant, DumpInvariant, PTL

-------------------------------------------------------------------------------
(* What the run, the import and import_templates know of their suites is true as
   long as these are there. *)
SuitesHeld ==
    \A l \in Listing : suites[l] \in Ids("suite") => rows["suite"][suites[l]].key = l

OwnHeld ==
    \A s \in {suite, its} : s \in Ids("suite") => rows["suite"][s].key = NoKey

ApartInv == SuitesHeld /\ OwnHeld /\ SuitesApart

(* A suite keeps its key, and its id is not given again. *)
SuiteKeysStay ==
    \A i \in 0 .. fresh - 1 : i \in Ids("suite")' =>
        i \in Ids("suite") /\ rows'["suite"][i].key = rows["suite"][i].key

LEMMA SuitesStay == ASSUME RowsInv, [Next]_vars PROVE SuiteKeysStay
<1>1. KeysKept /\ fresh \in Nat
  BY RowSteps, ListBounds DEF RowsInv, ListInv, ListTyped
<1>2. ASSUME NEW i \in 0 .. fresh - 1 PROVE ~(i >= fresh)
  BY <1>1
<1>3. QED
  BY <1>1, <1>2 DEF KeysKept, SuiteKeysStay

(* Where a row of a template comes from, and which suite it is in. *)
Origin(i) ==
    \/ /\ i \in Ids("template")
       /\ rows'["template"][i].key = rows["template"][i].key
       /\ rows'["template"][i].suite = rows["template"][i].suite
       /\ rows["template"][i].suite \in Ids("suite") => rows["template"][i].suite \in Ids("suite")'
       /\ i \in numbered' <=> i \in numbered
    \/ /\ \/ i = fresh /\ i \in numbered'
          \/ rows'["template"][i].key = NoKey
       /\ rows'["template"][i].suite \in {suite, its}
       /\ rows'["template"][i].suite \in Ids("suite") /\ rows'["template"][i].suite \in Ids("suite")'
    \/ /\ i = fresh /\ numbered' = numbered
       /\ \E l \in Listing :
            /\ rows'["template"][i].key \in Template /\ l = ListingOf[rows'["template"][i].key]
            /\ rows'["template"][i].suite = suites[l]
            /\ suites[l] \in Ids("suite") /\ suites[l] \in Ids("suite")'

LEMMA TemplateOrigin ==
    ASSUME RowsInv, ToolStands, KnownTrue, [Next]_vars, NEW i \in Ids("template")'
    PROVE  Origin(i)
<1> DEFINE Kept == /\ i \in Ids("template")
                   /\ rows'["template"][i].key = rows["template"][i].key
                   /\ rows'["template"][i].suite = rows["template"][i].suite
                   /\ rows["template"][i].suite \in Ids("suite")
                        => rows["template"][i].suite \in Ids("suite")'
<1>1. ASSUME UNCHANGED listVars PROVE Kept
  BY <1>1 DEF listVars, Ids
<1>2. ASSUME NEW row, Create("suite", row) PROVE Kept
  BY <1>2, SuiteCreated
<1>3. ASSUME NEW row, Create("template", row), DOMAIN row = {"key", "suite", "text"}
      PROVE  Kept \/ (i = fresh /\ rows'["template"][i] = row /\ Ids("suite")' = Ids("suite"))
  BY <1>3, TemplateCreated
<1>4. ASSUME NEW id \in Ids("template"), NEW text,
             Update("template", id, [rows["template"][id] EXCEPT !.text = text])
      PROVE  Kept
  BY <1>4, TemplateUpdated
<1>5. ASSUME NEW k \in {"suite", "template"}, NEW id \in Ids(k), Remove(k, id) PROVE Kept
  BY <1>5, RowRemoved
<1>6. ASSUME numbered' = numbered, Kept PROVE Origin(i)
  BY <1>6 DEF Origin
<1>7. ASSUME NEW key \in Counter,
             Create("template", [key |-> key, suite |-> its, text |-> UserText]),
             its \in Ids("suite"), numbered' = numbered \cup {fresh}
      PROVE  Origin(i)
  <2>1. PICK row : row = [key |-> key, suite |-> its, text |-> UserText]
    OBVIOUS
  <2>2. CASE Kept
    <3>1. Ids("template") \subseteq 1 .. fresh - 1 /\ fresh \in Nat
      BY ListBounds, Kinds DEF RowsInv, ListInv, ListTyped
    <3>2. i # fresh
      BY <2>2, <3>1
    <3>3. i \in numbered' <=> i \in numbered
      BY <1>7, <3>2
    <3>4. QED
      BY <2>2, <3>3 DEF Origin
  <2>3. CASE i = fresh /\ rows'["template"][i] = row /\ Ids("suite")' = Ids("suite")
    BY <1>7, <2>1, <2>3 DEF Origin
  <2>4. QED
    BY <1>3, <1>7, <2>1, <2>2, <2>3
<1>8. ASSUME Create("template", [key |-> NoKey, suite |-> suite, text |-> UserText]),
             suite \in Ids("suite"), numbered' = numbered
      PROVE  Origin(i)
  <2>1. PICK row : row = [key |-> NoKey, suite |-> suite, text |-> UserText]
    OBVIOUS
  <2>2. CASE i = fresh /\ rows'["template"][i] = row /\ Ids("suite")' = Ids("suite")
    BY <1>8, <2>1, <2>2 DEF Origin
  <2>3. QED
    BY <1>3, <1>6, <1>8, <2>1, <2>2
<1>9. CASE Import \/ Tool \/ Edit \/ UNCHANGED vars
  BY <1>1, <1>2, <1>4, <1>5, <1>6, <1>7, <1>8, <1>9, OthersRows
<1>10. ASSUME Dump, NEW t \in Template, CreateTemplateOf(t) PROVE Origin(i)
  <2>1. PICK l \in Listing : l = ListingOf[t]
    BY OldDatabase
  <2>2. PICK row : /\ row = [key |-> t, suite |-> suites[l], text |-> Replace(Raw(t))]
                   /\ Create("template", row)
    BY <1>10, <2>1 DEF CreateTemplateOf
  <2>3. numbered' = numbered /\ suites[l] \in Ids("suite")
    BY <1>10, <2>1 DEF Dump, toolVars, CreateTemplateOf
  <2>4. CASE i = fresh /\ rows'["template"][i] = row /\ Ids("suite")' = Ids("suite")
    BY <2>1, <2>2, <2>3, <2>4 DEF Origin
  <2>5. QED
    BY <1>3, <1>6, <2>2, <2>3, <2>4
<1>11. ASSUME Dump, ~(\E t \in Template : CreateTemplateOf(t)) PROVE Origin(i)
  <2>1. numbered' = numbered
    BY <1>11 DEF Dump, toolVars
  <2>2. ASSUME UpdateDelayed \/ (\E t \in Template : UpdateTemplate(t)) PROVE Kept
    BY <1>4, <2>2, TemplateWritten, DelayedWritten
  <2>3. ASSUME SameRows("template"), SameRows("suite") PROVE Kept
    BY <2>3 DEF SameRows
  <2>4. ASSUME NEW l \in Listing, CreateSuiteOf(l) PROVE Kept
    BY <1>2, <2>4 DEF CreateSuiteOf
  <2>5. QED
    BY <1>6, <1>11, <2>1, <2>2, <2>3, <2>4, RowsOfSteps
<1>12. QED
  BY <1>9, <1>10, <1>11 DEF Next

LEMMA SuitesHeldKept ==
    ASSUME RowsInv, KnownTrue, SuitesKnown, SuitesHeld, [Next]_vars PROVE SuitesHeld'
<1>1. SuiteKeysStay /\ fresh \in Nat \ {0} /\ suites \in [Listing -> 0 .. fresh - 1]
  BY SuitesStay, ListBounds DEF RowsInv, ListInv, ListTyped, KnownTrue
<1>2. suites' = suites => SuitesHeld'
  BY <1>1 DEF SuitesHeld, SuiteKeysStay
<1>3. CASE SuitesListed
  <2>1. /\ \A l \in Listing : suites'[l] = Listed(l)
        /\ rows' = rows /\ call.kind = "suite"
    BY <1>3 DEF SuitesListed, SuitesKnown, listVars
  <2>2. ASSUME NEW l \in Listing, Listed(l) \in Ids("suite")
        PROVE  rows["suite"][Listed(l)].key = l
    <3>1. Listed(l) # 0
      BY <2>2, Kinds, ListBounds DEF RowsInv, ListInv, ListTyped
    <3>2. Listed(l) \in DOMAIN call.items /\ call.items[Listed(l)] = l
      BY <3>1, ListedIsThere
    <3>3. QED
      BY <2>1, <2>2, <3>2 DEF RowsInv, ListInv, ItemsAreRows
  <2>3. QED
    BY <2>1, <2>2 DEF SuitesHeld, Ids
<1>4. ASSUME NEW l \in Listing, CreateSuiteOf(l) PROVE SuitesHeld'
  <2>1. Create("suite", [key |-> l]) /\ suites' = [suites EXCEPT ![l] = fresh]
    BY <1>4 DEF CreateSuiteOf, NewId
  <2>2. rows'["suite"][fresh].key = l
    BY <2>1, SuiteCreated
  <2>3. \A k \in Listing : suites'[k] = IF k = l THEN fresh ELSE suites[k]
    BY <1>1, <2>1
  <2>4. QED
    BY <1>1, <2>2, <2>3 DEF SuitesHeld, SuiteKeysStay
<1>5. CASE Refuse \/ Finish \/ Stop
  <2>1. suites' = NoSuites
    BY <1>5 DEF Refuse, Finish, Stop, End
  <2>2. 0 \notin Ids("suite")'
    BY RowSteps, ListBounds, Kinds DEF RowsInv, ListInv, ListTyped
  <2>3. QED
    BY <2>1, <2>2 DEF SuitesHeld, NoSuites
<1>6. ASSUME Dump, ~SuitesListed, ~(\E l \in Listing : CreateSuiteOf(l)), ~(Refuse \/ Finish \/ Stop)
      PROVE  suites' = suites
  <2>1. ASSUME Start \/ ListTemplates \/ FetchDicts \/ ListingStep
               \/ (\E l \in Listing : UpdateSuite(l)) \/ (\E x \in Name : UploadDict(x))
        PROVE  suites' = suites
    BY <2>1 DEF Start, ListTemplates, FetchDicts, ListingStep, UpdateSuite, UploadDict, dumpVars
  <2>2. ASSUME TemplatesListed \/ UpdateDelayed
               \/ \E t \in Template : SkipTemplate(t) \/ UpdateTemplate(t) \/ CreateTemplateOf(t)
        PROVE  suites' = suites
    BY <2>2 DEF TemplatesListed, UpdateDelayed, SkipTemplate, UpdateTemplate, CreateTemplateOf, Visit
  <2>3. QED
    BY <1>6, <2>1, <2>2 DEF Dump, DumpNext, DumpStep
<1>7. ASSUME ~Dump PROVE suites' = suites
  BY <1>7, OthersSteps DEF Next, OthersWork, dumpState, dumpVars
<1>8. QED
  BY <1>2, <1>3, <1>4, <1>5, <1>6, <1>7

LEMMA OwnHeldKept ==
    ASSUME RowsInv, IInv, ToolStands, OwnHeld, [Next]_vars PROVE OwnHeld'
<1>1. SuiteKeysStay /\ suite \in 0 .. fresh - 1 /\ its \in 0 .. fresh - 1
  BY SuitesStay DEF IInv, Stands, ToolStands
<1>2. 0 \notin Ids("suite")'
  BY RowSteps, ListBounds, Kinds DEF RowsInv, ListInv, ListTyped
<1> DEFINE Own(s) == s \in Ids("suite")' => rows'["suite"][s].key = NoKey
<1>3. Own(suite) /\ Own(its) /\ Own(0)
  BY <1>1, <1>2 DEF OwnHeld, SuiteKeysStay
<1>4. ASSUME Create("suite", [key |-> NoKey]) PROVE Own(fresh)
  BY <1>4, SuiteCreated
<1> HIDE DEF Own
<1>5. Own(suite')
  <2>1. ASSUME CreateSuite PROVE Own(suite')
    BY <1>4, <2>1 DEF CreateSuite, NewId
  <2>2. ASSUME EndImport \/ ImportFails PROVE suite' = 0
    BY <2>2 DEF EndImport, ImportFails, EndTask
  <2>3. ASSUME StartImport \/ SkipBlank \/ CreateTemplate \/ NextFile PROVE suite' = suite
    BY <2>3 DEF StartImport, SkipBlank, CreateTemplate, NextFile
  <2>4. ASSUME Dump \/ Tool \/ Edit \/ UNCHANGED vars PROVE suite' = suite
    BY <2>4 DEF Dump, Tool, Edited, Edit, EditTemplate, RemoveTemplate, RemoveSuite, vars, importVars
  <2>5. QED
    BY <1>3, <2>1, <2>2, <2>3, <2>4 DEF Next, Import, ImportNext
<1>6. Own(its')
  <2>1. ASSUME CreateReplacement PROVE Own(its')
    BY <1>4, <2>1 DEF CreateReplacement, NewId
  <2>2. ASSUME StopTool PROVE its' = 0
    BY <2>2 DEF StopTool
  <2>3. ASSUME StartTool \/ CreateNumbered \/ \E i \in titled : RemovePrevious(i) PROVE its' = its
    BY <2>3 DEF StartTool, CreateNumbered, RemovePrevious
  <2>4. ASSUME Dump \/ Import \/ Edit \/ UNCHANGED vars PROVE its' = its
    BY <2>4 DEF Dump, Import, Edit, EditTemplate, RemoveTemplate, RemoveSuite, vars, toolVars
  <2>5. QED
    BY <1>3, <2>1, <2>2, <2>3, <2>4 DEF Next, Tool, ToolStep
<1>7. QED
  BY <1>5, <1>6 DEF OwnHeld, Own

(* Dump, import and import_templates work on the same profile, whoever removes
   suites and templates under them, and however often runs are repeated: no
   template gets into a suite of another writer or of another listing, and none
   is left in a suite that is gone. *)
THEOREM SuitesStayApart == Spec => []SuitesApart
<1>1. Init => ApartInv
  <2> SUFFICES ASSUME Init PROVE ApartInv OBVIOUS
  <2>1. Ids("template") = {} /\ Ids("suite") = {}
    BY Kinds DEF Init, ListInit, Ids
  <2>2. QED
    BY <2>1 DEF ApartInv, SuitesHeld, OwnHeld, SuitesApart
<1>2. RowsInv /\ ToolStands /\ IInv /\ DumpInv /\ ApartInv /\ [Next]_vars => ApartInv'
  <2> SUFFICES ASSUME RowsInv, ToolStands, IInv, DumpInv, ApartInv, [Next]_vars PROVE ApartInv'
    OBVIOUS
  <2> USE DEF DumpInv, ApartInv
  <2>1. SuitesHeld' /\ OwnHeld' /\ SuiteKeysStay
    BY SuitesHeldKept, OwnHeldKept, SuitesStay
  <2>2. /\ Ids("suite") \subseteq 0 .. fresh - 1
        /\ \A s \in Ids("suite") : s \in Ids("suite")' => rows'["suite"][s].key = rows["suite"][s].key
    BY <2>1, ListBounds, Kinds DEF SuiteKeysStay, RowsInv, ListInv, ListTyped
  <2>3. fresh \notin numbered
    BY ListBounds DEF ToolStands, RowsInv, ListInv, ListTyped
  <2>4. ASSUME NEW i \in Ids("template")'
        PROVE  /\ rows'["template"][i].suite \in Ids("suite")'
               /\ rows'["suite"][rows'["template"][i].suite].key =
                    IF rows'["template"][i].key \in Template /\ i \notin numbered'
                    THEN ListingOf[rows'["template"][i].key] ELSE NoKey
    <3> DEFINE s == rows'["template"][i].suite
    <3>1. CASE /\ i \in Ids("template")
               /\ rows'["template"][i].key = rows["template"][i].key
               /\ s = rows["template"][i].suite
               /\ s \in Ids("suite") => s \in Ids("suite")'
               /\ i \in numbered' <=> i \in numbered
      BY <2>2, <3>1 DEF SuitesApart
    <3>2. CASE /\ i \in numbered' \/ rows'["template"][i].key = NoKey
               /\ s \in {suite, its} /\ s \in Ids("suite") /\ s \in Ids("suite")'
      BY <2>2, <3>2, NoKeyIsNoId DEF OwnHeld
    <3>3. CASE /\ i = fresh /\ numbered' = numbered
               /\ \E l \in Listing :
                    /\ rows'["template"][i].key \in Template /\ l = ListingOf[rows'["template"][i].key]
                    /\ s = suites[l]
                    /\ suites[l] \in Ids("suite") /\ suites[l] \in Ids("suite")'
      BY <2>2, <2>3, <3>3 DEF SuitesHeld
    <3>4. QED
      BY <3>1, <3>2, <3>3, TemplateOrigin DEF Origin
  <2>5. QED
    BY <2>1, <2>4 DEF SuitesApart
<1>3. ApartInv => SuitesApart
  BY DEF ApartInv
<1>4. QED
  BY <1>1, <1>2, <1>3, RowsInvariant, ToolInvariant, ImportInvariant, DumpInvariant, PTL DEF Spec

===============================================================================
