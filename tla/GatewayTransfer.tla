---------------------------- MODULE GatewayTransfer ----------------------------
(***************************************************************************)
(* One profile of the gateway and everybody who writes to it: runs of      *)
(* tools/dump.py and tools/import_templates.py, the import task of         *)
(* scripts/suite.py, and the editors, who edit templates and remove        *)
(* templates and suites at any time.                                       *)
(***************************************************************************)
EXTENDS SuiteImport, TemplateImport, LegacyDump

CONSTANT MaxEdits       \* bound: what the editors do, and runs of import_templates

ASSUME EditsBound == MaxEdits \in Nat
ASSUME NoKeyIsNoId == NoKey \notin Template \cup Listing
ASSUME CountersAreKeys == Counter \subseteq Template \cup {NoKey}

VARIABLE edits

vars == <<listVars, importVars, toolVars, dumpState, edits>>

Init ==
    /\ ListInit /\ ImportInit /\ ToolInit /\ DumpInit
    /\ edits = 0

Edited ==
    /\ edits < MaxEdits
    /\ edits' = edits + 1
    /\ UNCHANGED <<importVars, dumpState>>

EditTemplate(i) ==
    /\ i \in Ids("template")
    /\ Update("template", i, [rows["template"][i] EXCEPT !.text = UserText])
    /\ Edited /\ UNCHANGED toolVars

RemoveTemplate(i) ==
    /\ i \in Ids("template")
    /\ Remove("template", i)
    /\ Edited /\ UNCHANGED toolVars

RemoveSuite(i) ==
    /\ i \in Ids("suite")
    /\ Remove("suite", i)
    /\ Edited /\ UNCHANGED toolVars

Edit ==
    \E i \in 1 .. MaxId : EditTemplate(i) \/ RemoveTemplate(i) \/ RemoveSuite(i)

(* The profile is there once the first run has begun. *)
Import == runs > 0 /\ ImportNext /\ UNCHANGED <<toolVars, dumpState, edits>>

Tool ==
    \/ runs > 0 /\ StartTool /\ Edited
    \/ ToolStep /\ UNCHANGED <<importVars, dumpState, edits>>

Dump == DumpNext /\ UNCHANGED <<importVars, toolVars, edits>>

Next == Import \/ Tool \/ Dump \/ Edit

Spec == Init /\ [][Next]_vars

-------------------------------------------------------------------------------
(* The types of the components. *)
TypeOK == ImportTypeOK /\ ToolTypeOK /\ DumpTypeOK

(* However often runs break off and are repeated, in either mode, the profile
   gets one suite for a listing, and the dump makes one template for an old one.
   One comes twice only if rows were removed while a list_all was under way and
   the list missed it, as import_templates does with whole suites (dump.py,
   205-208, 245-249, 290-316; import_templates.py, 37). *)
OneOfEach ==
    ~shifted =>
        /\ \A i, j \in Ids("suite") :
             rows["suite"][i].key = rows["suite"][j].key /\ rows["suite"][i].key \in Listing
                => i = j
        /\ \A t \in Template : Cardinality(IdsOf(t) \ numbered) <= 1

(* The writers work on the same profile and never mix, also if suites are removed
   under them: a template that the dump makes of an old one is in the suite of
   its own listing, also if an earlier run that broke off has created that suite,
   the others are in suites of an archive or of import_templates; no template
   hangs on a suite that is not there (dump.py, 210-243, 259, 303; suite.py,
   90-107; import_templates.py, 37-71). *)
SuitesApart ==
    \A i \in Ids("template") :
        LET row == rows["template"][i]
        IN  /\ row.suite \in Ids("suite")
            /\ rows["suite"][row.suite].key =
                 IF row.key \in Template /\ i \notin numbered
                 THEN ListingOf[row.key] ELSE NoKey

(* --incremental, whose help says "Do not update existed templates" (dump.py,
   395-396): what a user wrote into a template that the run has listed stays. *)
EditsSurvive ==
    [][\A i \in Ids("template") \cap Ids("template")' :
        incremental /\ phase = "templates" /\ i \in DOMAIN call.items
        /\ rows["template"][i].text = UserText
            => rows'["template"][i].text = UserText]_vars

=============================================================================
