----------------------------- MODULE TemplateImport -----------------------------
(***************************************************************************)
(* tools/import_templates.py brings files of templates into a profile: the *)
(* suite with a file's title is removed, a new one is created, and its     *)
(* templates get the number of their place in the file as template_id, the *)
(* very field that tools/dump.py takes for the id of an old template.      *)
(***************************************************************************)
EXTENDS GatewayList

CONSTANT Counter    \* what these numbers are for the dump: ids of old
                    \* templates, or NoKey for the ones no old template has

VARIABLES
    tool,       \* "idle", "files", "removed"
    titled,     \* profile_suites_title_ids: the suites that have a file's title
    its,        \* suite["id"], 0 before the first file
    numbered    \* the templates that the tool has ever created

toolVars == <<tool, titled, its, numbered>>

ToolInit ==
    /\ tool = "idle"
    /\ titled = {}
    /\ its = 0
    /\ numbered = {}

-------------------------------------------------------------------------------
(* The tool begins and has listed the suites (suite.list_all).  Which of them
   have a file's title is open, so that only those of the last page's time count:
   the ones that went before cannot be removed any more. *)
StartTool ==
    /\ tool = "idle"
    /\ tool' = "files"
    /\ titled' \in SUBSET Ids("suite")
    /\ UNCHANGED <<its, numbered, listVars>>

(* A file whose title is known: the suite with the previous version goes.  One
   that is not there any more makes suite.remove fail. *)
RemovePrevious(i) ==
    /\ tool = "files"
    /\ i \in titled \cap Ids("suite")
    /\ Remove("suite", i)
    /\ titled' = titled \ {i}
    /\ tool' = "removed"
    /\ UNCHANGED <<its, numbered>>

CreateReplacement ==
    /\ tool \in {"files", "removed"}
    /\ Create("suite", [key |-> NoKey])
    /\ its' = NewId
    /\ tool' = "files"
    /\ UNCHANGED <<titled, numbered>>

(* The next piece of the file, with its number. *)
CreateNumbered ==
    /\ tool = "files" /\ its \in Ids("suite")
    /\ \E key \in Counter :
         Create("template", [key |-> key, suite |-> its, text |-> UserText])
    /\ numbered' = numbered \cup {NewId}
    /\ UNCHANGED <<tool, titled, its>>

(* The end, or an exception. *)
StopTool ==
    /\ tool # "idle"
    /\ tool' = "idle"
    /\ titled' = {} /\ its' = 0
    /\ UNCHANGED <<numbered, listVars>>

ToolStep ==
    \/ \E i \in titled : RemovePrevious(i)
    \/ CreateReplacement \/ CreateNumbered \/ StopTool

-------------------------------------------------------------------------------
ToolTypeOK ==
    /\ tool \in {"idle", "files", "removed"}
    /\ titled \subseteq 1 .. MaxId /\ numbered \subseteq 1 .. MaxId
    /\ its \in 0 .. MaxId

=================================================================================
