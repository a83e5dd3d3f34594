------------------------------- MODULE LegacyDump -------------------------------
(***************************************************************************)
(* tools/dump.py copies a profile of the old database to the gateway: its  *)
(* listings become suites, its templates templates, and references of the  *)
(* templates to each other, [ExtendAnswer("123")], get the new ids.  Then  *)
(* the dictionaries follow that the templates use.  A run that breaks off  *)
(* is repeated with --profile-id, and with or without --incremental.       *)
(***************************************************************************)
EXTENDS GatewayList, Sequences

CONSTANTS
    Template, Listing,  \* ids in the old database
    ListingOf,
    Refs,       \* ids in the ExtendAnswers of a template, known ones or not
    Uses,       \* the dictionaries a template names, in lower case
    Name,       \* names of dictionaries
    OldDict,    \* rows of dicts: [name, upper, inf, includes]
    MaxRuns     \* bound: runs of the tool

ASSUME OldDatabase ==
    /\ ListingOf \in [Template -> Listing]
    /\ Uses \in [Template -> SUBSET Name]
    /\ IsFiniteSet(OldDict)
    /\ \A d \in OldDict : /\ d.name \in Name /\ d.includes \subseteq Name
                          /\ d.inf \in {"own", "common", "other"}
                          /\ d.upper \in BOOLEAN
    /\ MaxRuns \in Nat

VARIABLES
    phase,
    runs, given, incremental,   \* runs so far; to_profile_id, --incremental
    todo,           \* listings, templates or dictionaries of the current loop
    suites,         \* ids of the listings' suites, 0 if there is none
    dumped,         \* dumped_templates: ids of the templates, 0 if none
    delayed,        \* delayed_update
    used, found, missing,       \* used_dicts, dict_infs, previous_missing_dicts
    codes,          \* of the gateway's dictionaries
    shifted         \* whether a removal ever came between two pages

runVars  == <<runs, given, incremental>>
dumpVars == <<suites, dumped, delayed>>
dictVars == <<used, found, missing, codes>>
dumpState == <<phase, runVars, todo, dumpVars, dictVars, shifted>>

Unknown == [x \in Name |-> [inf |-> "none", includes |-> {}]]

NoSuites == [l \in Listing |-> 0]
NotDumped == [t \in Template |-> 0]

DumpInit ==
    /\ phase = "idle"
    /\ runs = 0 /\ given = FALSE /\ incremental = FALSE
    /\ todo = {}
    /\ suites = NoSuites /\ dumped = NotDumped /\ delayed = << >>
    /\ used = {} /\ found = Unknown /\ missing = {}
    /\ codes = {}
    /\ shifted = FALSE

-------------------------------------------------------------------------------
(* What a dict keeps of items with one key: the last of them. *)
Latest(S) == CHOOSE i \in S : \A j \in S : j <= i

-------------------------------------------------------------------------------
(* Faulty variants of the definitions below: the properties fail on them. *)

Forgotten(t, text) == delayed               \* no second look at a template
OneRound(lost) == lost # {}                 \* the first query is the last
NothingListed(key) == 0                     \* existing rows are not found
AnyListed(key) == Latest(DOMAIN call.items \cup {0})    \* whatever the key is

-------------------------------------------------------------------------------
(* The id that {meta[key]: id for items} has for a key. *)
Listed(key) ==
    LET ids == {i \in DOMAIN call.items : call.items[i] = key}
    IN  IF ids = {} THEN 0 ELSE Latest(ids)

KeysAreUnique == \A i, j \in DOMAIN call.items : call.items[i] = call.items[j] => i = j

Raw(t) == [r \in Refs[t] |-> 0]

Resolved(r) == IF r \in Template THEN dumped[r] ELSE 0

(* replace_extend_answer: the text, and whether references are missing. *)
Replace(text) == [r \in DOMAIN text |-> IF text[r] = 0 THEN Resolved(r) ELSE text[r]]
HasMissing(text) == \E r \in DOMAIN text : text[r] = 0

DelayedWith(t, text) == Append(delayed, [template |-> t, text |-> text])

(* The process ends, and with it everything but the gateway's rows. *)
End(how) ==
    /\ phase' = how
    /\ todo' = {}
    /\ suites' = NoSuites /\ dumped' = NotDumped /\ delayed' = << >>
    /\ used' = {} /\ found' = Unknown /\ missing' = {}
    /\ call' = NoCall
    /\ UNCHANGED <<runVars, codes, rows, fresh>>

Resting == phase \in {"idle", "done", "stopped"}

(* The first run creates the profile, the others get its id. *)
Start ==
    /\ Resting /\ runs < MaxRuns
    /\ runs' = runs + 1
    /\ given' = (runs > 0)
    /\ incremental' \in BOOLEAN
    /\ StartList("suite")
    /\ phase' = "suite list"
    /\ UNCHANGED <<todo, dumpVars, dictVars>>

(* RuntimeError, "Can't recognize unique listing_ids": only with --profile-id. *)
Refuse ==
    /\ phase \in {"suite list", "template list"} /\ ~call.on
    /\ given /\ ~KeysAreUnique
    /\ End("stopped")

SuitesListed ==
    /\ phase = "suite list" /\ ~call.on
    /\ given => KeysAreUnique
    /\ suites' = [l \in Listing |-> Listed(l)]
    /\ phase' = "suites"
    /\ todo' = Listing
    /\ UNCHANGED <<runVars, dumped, delayed, dictVars, listVars>>

(* An id that is not in the gateway any more makes suite.update fail. *)
UpdateSuite(l) ==
    /\ phase = "suites" /\ l \in todo
    /\ suites[l] \in Ids("suite")
    /\ todo' = todo \ {l}
    /\ UNCHANGED <<phase, runVars, dumpVars, dictVars, listVars>>

CreateSuiteOf(l) ==
    /\ phase = "suites" /\ l \in todo
    /\ suites[l] = 0
    /\ Create("suite", [key |-> l])
    /\ suites' = [suites EXCEPT ![l] = NewId]
    /\ todo' = todo \ {l}
    /\ UNCHANGED <<phase, runVars, dumped, delayed, dictVars>>

ListTemplates ==
    /\ phase = "suites" /\ todo = {}
    /\ StartList("template")
    /\ phase' = "template list"
    /\ UNCHANGED <<runVars, todo, dumpVars, dictVars>>

TemplatesListed ==
    /\ phase = "template list" /\ ~call.on
    /\ given => KeysAreUnique
    /\ dumped' = [t \in Template |-> Listed(t)]
    /\ phase' = "templates"
    /\ todo' = Template
    /\ UNCHANGED <<runVars, suites, delayed, dictVars, listVars>>

-------------------------------------------------------------------------------
(* The loop over the templates.  What is missing is remembered for the end of
   the loop, also if the template is skipped then. *)
Visit(t) ==
    /\ phase = "templates" /\ t \in todo
    /\ todo' = todo \ {t}
    /\ used' = used \cup Uses[t]
    /\ delayed' = IF HasMissing(Replace(Raw(t)))
                  THEN DelayedWith(t, Replace(Raw(t))) ELSE delayed
    /\ UNCHANGED <<phase, runVars, suites, found, missing, codes>>

SkipTemplate(t) ==
    /\ incremental /\ dumped[t] # 0
    /\ Visit(t)
    /\ UNCHANGED <<dumped, listVars>>

(* So it does with template.update. *)
UpdateTemplate(t) ==
    /\ ~incremental /\ dumped[t] \in Ids("template")
    /\ Visit(t)
    /\ Update("template", dumped[t],
              [rows["template"][dumped[t]] EXCEPT !.text = Replace(Raw(t))])
    /\ UNCHANGED dumped

(* And template.create for a suite that is gone. *)
CreateTemplateOf(t) ==
    /\ dumped[t] = 0 /\ suites[ListingOf[t]] \in Ids("suite")
    /\ Visit(t)
    /\ Create("template", [key |-> t, suite |-> suites[ListingOf[t]],
                           text |-> Replace(Raw(t))])
    /\ dumped' = [dumped EXCEPT ![t] = NewId]

(* "Return to missed templates": these are updated in every mode. *)
UpdateDelayed ==
    /\ phase = "templates" /\ todo = {} /\ delayed # << >>
    /\ LET d  == Head(delayed)
           id == dumped[d.template]
       IN  /\ id \in Ids("template")
           /\ Update("template", id, [rows["template"][id] EXCEPT !.text = Replace(d.text)])
    /\ delayed' = Tail(delayed)
    /\ UNCHANGED <<phase, runVars, todo, suites, dumped, dictVars>>

-------------------------------------------------------------------------------
(* process_inf_dicts.  A query's rows come in any order.  Of the rows with one
   name the last one counts, but a row that includes nothing leaves the
   references of an earlier one in place. *)

Fetch(answer) ==
    [x \in Name |->
        LET named     == {i \in DOMAIN answer : answer[i].name = x}
            including == {i \in named : answer[i].includes # {}}
        IN  IF named = {} THEN found[x]
            ELSE [inf |-> answer[Latest(named)].inf,
                  includes |-> IF including = {} THEN found[x].includes
                               ELSE answer[Latest(including)].includes]]

Included(f, x) == f[x].includes

(* _add_dict over all of used_dicts, depth first: what can be reached. *)
Reached(f) ==
    {x \in Name : \A S \in SUBSET Name :
        used \subseteq S /\ (\A y \in S : Included(f, y) \subseteq S) => x \in S}

Missing(f) == {x \in Reached(f) : f[x].inf = "none"}

StopsLooking(lost) == lost = missing \/ lost = {}

(* The query's condition: the first one asks for the infs, the others for the
   missing names; the column is compared as it is, in upper case too. *)
Asked(d) ==
    IF phase = "templates" THEN d.inf \in {"own", "common"}
    ELSE d.name \in missing /\ ~d.upper

AskedDicts == {d \in OldDict : Asked(d)}

FetchDicts ==
    /\ \/ phase = "templates" /\ todo = {} /\ delayed = << >>
       \/ phase = "dicts"
    /\ \E answer \in Bijection(1 .. Cardinality(AskedDicts), AskedDicts) :
         LET f == Fetch(answer)
         IN  /\ found'   = f
             /\ used'    = Reached(f)
             /\ missing' = Missing(f)
             /\ IF StopsLooking(Missing(f))
                THEN /\ phase' = "upload"
                     /\ todo' = {x \in Name : /\ f[x].inf # "none"
                                              /\ Reached(f) = {} \/ x \in Reached(f)}
                ELSE phase' = "dicts" /\ todo' = {}
    /\ UNCHANGED <<runVars, dumpVars, codes, listVars>>

(* _upload_dict: list by code, then update or create; exceptions are printed. *)
UploadDict(x) ==
    /\ phase = "upload" /\ x \in todo
    /\ todo' = todo \ {x}
    /\ codes' \in {codes, codes \cup {x}}
    /\ UNCHANGED <<phase, runVars, dumpVars, used, found, missing, listVars>>

Finish ==
    /\ phase = "upload" /\ todo = {}
    /\ End("done")

(* An exception, or the operator.  A create whose answer is lost is a create
   and then this. *)
Stop == ~Resting /\ End("stopped")

DumpStep ==
    /\ \/ Start \/ Refuse \/ SuitesListed \/ ListTemplates \/ TemplatesListed
       \/ \E l \in Listing : UpdateSuite(l) \/ CreateSuiteOf(l)
       \/ \E t \in Template : SkipTemplate(t) \/ UpdateTemplate(t) \/ CreateTemplateOf(t)
       \/ UpdateDelayed \/ FetchDicts
       \/ \E x \in Name : UploadDict(x)
       \/ Finish \/ Stop
    /\ UNCHANGED shifted

ListingStep ==
    /\ phase \in {"suite list", "template list"}
    /\ ListPage
    /\ shifted' = (shifted \/ call.gone > 0)
    /\ UNCHANGED <<phase, runVars, todo, dumpVars, dictVars>>

DumpNext == DumpStep \/ ListingStep

-------------------------------------------------------------------------------
Phases == {"idle", "suite list", "suites", "template list", "templates", "dicts",
           "upload", "done", "stopped"}

DumpTypeOK ==
    /\ phase \in Phases
    /\ runs \in 0 .. MaxRuns /\ given \in BOOLEAN /\ incremental \in BOOLEAN
    /\ todo \subseteq Listing \cup Template \cup Name
    /\ suites \in [Listing -> 0 .. MaxId] /\ dumped \in [Template -> 0 .. MaxId]
    /\ \A i \in DOMAIN delayed : delayed[i].template \in Template
    /\ used \subseteq Name /\ missing \subseteq Name
    /\ DOMAIN found = Name /\ codes \subseteq Name
    /\ \A k \in Kind : Ids(k) \subseteq 1 .. fresh - 1
    /\ \A i \in Ids("template") : LET row == rows["template"][i] IN
         row.key \in Template /\ row.text # UserText => DOMAIN row.text = Refs[row.key]

IdsOf(t) == {i \in Ids("template") : rows["template"][i].key = t}

(* After a run without --incremental the references of a template to templates
   of the same profile are all resolved, in cycles too, and also those that an
   earlier run has left when it broke off; a new id that is still there is the
   template's that was meant (dump.py, 281-288, 320-331). *)
AnswersResolved ==
    phase = "done" /\ ~incremental /\ ~shifted =>
        \A t \in Template : \A i \in IdsOf(t) :
            LET text == rows["template"][i].text
            IN  text # UserText =>
                    \A r \in Refs[t] \cap Template :
                        text[r] # 0 /\ (text[r] \in Ids("template") => text[r] \in IdsOf(r))

(* When the upload begins, no used dictionary that the old database can still
   deliver is missing, and what is uploaded includes nothing else
   (dump.py, 77-112). *)
DictionariesClosed ==
    phase = "upload" =>
        /\ \A x \in used : found[x].inf = "none" => ~\E d \in OldDict : d.name = x /\ ~d.upper
        /\ \A x \in used : found[x].includes \subseteq used
        /\ used # {} => todo \subseteq used

=============================================================================
