--------------------------- MODULE DictionaryExport ---------------------------
(***************************************************************************)
(* What the preprocessor does after the perl tool (engine/preprocessors/   *)
(* arm1): it collects the dictionaries that the templates name, reads all  *)
(* dictionaries from the gateway, exports the common ones, then the private*)
(* ones that are needed: named by a template or included by an exported    *)
(* dictionary.  An exception over one dictionary is logged and ignored.    *)
(***************************************************************************)
EXTENDS Naturals, Sequences

CONSTANTS
    Code,           \* codes of dictionaries and names in texts
    Lower,          \* str.lower
    NameOf,         \* process_dictionary_name: lower case, "_" for " ", no "'()"
    Template,       \* inf_base.templates files
    Named,          \* what a template can name, as it is written there
    Gateway,        \* the lists that dictionary.list_all can return
    NoDictionary, NoText, EmptyText

(* A dictionary of the gateway: the codes its text includes, in lower case, and
   what becomes of its text: it is no text at all ("unreadable"), it makes
   transform_template_text or the write fail ("unwritable"), or it is fine. *)
Dictionary == [code : Code, common : BOOLEAN, includes : SUBSET Code,
               text : {"fine", "unreadable", "unwritable"}]

ASSUME NameTables ==
    /\ Lower \in [Code -> Code] /\ NameOf \in [Code -> Code]
    /\ \A c \in Code : NameOf[NameOf[c]] = NameOf[c]
    /\ Named \subseteq Code
    /\ NoText \notin Code /\ EmptyText \notin Code
ASSUME GatewayLists ==
    /\ Gateway \subseteq Seq(Dictionary)
    /\ NoDictionary \notin Dictionary
    /\ \A g \in Gateway : \A i, j \in DOMAIN g : g[i].code = g[j].code => g[i] = g[j]

VARIABLES
    phase,
    templates,      \* template files not read yet
    used,           \* the codes the templates named; never changed later
    unsaved,        \* the set used_dicts, of which the export makes its worklist
    gateway, at,    \* what the gateway returned, and the next item of the loop
    private,        \* private_dictionaries
    saved,
    dicts,          \* the names in dict.lst
    files,          \* of each name: the code whose text its file holds
    lost            \* the codes over which an exception was ignored

textVars   == <<templates, used>>
listVars   == <<gateway, at, private>>
savedVars  == <<saved, dicts, files, lost>>
exportVars == <<phase, textVars, unsaved, listVars, savedVars>>

ExportInit ==
    /\ phase     = "perl"
    /\ templates = Template
    /\ used      = {}
    /\ unsaved   = {}
    /\ gateway   = << >>
    /\ at        = 1
    /\ private   = [c \in Code |-> NoDictionary]
    /\ saved     = {}
    /\ dicts     = {}
    /\ files     = [c \in Code |-> NoText]
    /\ lost      = {}

-------------------------------------------------------------------------------
(* Faulty variants of the definitions below: the properties fail on them. *)

RawCode(d) == d.code                \* the file is named by the code
NoIncludes(d) == {}                 \* includes of dictionaries are forgotten
AnyName(d) == Code                  \* the pattern loses its "--include"
NeverSkipped(c) == FALSE            \* no look at what is saved

-------------------------------------------------------------------------------
(* The name of a dictionary's file, and its name in dict.lst. *)
FileName(d) == NameOf[d.code]

(* What extract_include_dicts finds in the text of a dictionary. *)
Includes(d) == d.includes

Skipped(c) == c \in saved

(* `"ERROR" not in out`: only then are dictionaries exported. *)
Perl(error) ==
    /\ phase = "perl"
    /\ phase' = IF error THEN "skipped" ELSE "templates"
    /\ UNCHANGED <<textVars, unsaved, listVars, savedVars>>

ReadTemplate(t) ==
    /\ phase = "templates"
    /\ t \in templates
    /\ templates' = templates \ {t}
    /\ \E found \in SUBSET Named :
         LET codes == {Lower[c] : c \in found}
         IN  used' = used \cup codes /\ unsaved' = unsaved \cup codes
    /\ UNCHANGED <<phase, listVars, savedVars>>

ListAll ==
    /\ phase = "templates"
    /\ templates = {}
    /\ gateway' \in Gateway
    /\ phase' = "common"
    /\ UNCHANGED <<textVars, unsaved, at, private, savedVars>>

(* Reading a template, defvars.lst, mkdir or the gateway, or dict.lst: these
   exceptions nobody ignores, the task fails. *)
ExportFails ==
    /\ \/ phase = "templates"
       \/ phase = "private" /\ unsaved = {}
    /\ phase' = "failed"
    /\ UNCHANGED <<textVars, unsaved, listVars, savedVars>>

-------------------------------------------------------------------------------
(* _dictionary_export_process: the worklist grows first, then the file is
   written, and only then is the code saved. *)

Unreadable(d, rest) ==
    /\ d.text = "unreadable"
    /\ unsaved' = rest
    /\ lost' = lost \cup {d.code}
    /\ UNCHANGED <<saved, dicts, files>>

(* open() has emptied the file, or has failed itself. *)
Unwritable(d, rest) ==
    /\ d.text = "unwritable" /\ d.code \notin dicts
    /\ unsaved' = rest \cup Includes(d)
    /\ lost' = lost \cup {d.code}
    /\ \E text \in {EmptyText, files[FileName(d)]} :
         files' = [files EXCEPT ![FileName(d)] = text]
    /\ UNCHANGED <<saved, dicts>>

Written(d, rest) ==
    /\ d.text = "fine" /\ d.code \notin dicts
    /\ unsaved' = rest \cup Includes(d)
    /\ files' = [files EXCEPT ![FileName(d)] = d.code]
    /\ dicts' = dicts \cup {FileName(d)}
    /\ saved' = saved \cup {d.code}
    /\ UNCHANGED lost

(* The list has the code as the name of another dictionary: nothing is
   written, and the code counts as saved. *)
TakenName(d, rest) ==
    /\ d.text # "unreadable" /\ d.code \in dicts
    /\ unsaved' = rest \cup Includes(d)
    /\ saved' = saved \cup {d.code}
    /\ UNCHANGED <<dicts, files, lost>>

Export(d, rest) ==
    Unreadable(d, rest) \/ Unwritable(d, rest) \/ Written(d, rest) \/ TakenName(d, rest)

-------------------------------------------------------------------------------
(* The first loop: common dictionaries are exported, private ones kept. *)

Looping == phase = "common" /\ at <= Len(gateway)

ExportCommon ==
    /\ Looping
    /\ ~Skipped(gateway[at].code) /\ gateway[at].common
    /\ Export(gateway[at], unsaved)
    /\ at' = at + 1
    /\ UNCHANGED <<phase, textVars, gateway, private>>

KeepPrivate ==
    /\ Looping
    /\ ~Skipped(gateway[at].code) /\ ~gateway[at].common
    /\ private' = [private EXCEPT ![gateway[at].code] = gateway[at]]
    /\ at' = at + 1
    /\ UNCHANGED <<phase, textVars, unsaved, gateway, savedVars>>

SkipListed ==
    /\ Looping
    /\ Skipped(gateway[at].code)
    /\ at' = at + 1
    /\ UNCHANGED <<phase, textVars, unsaved, gateway, private, savedVars>>

CommonDone ==
    /\ phase = "common" /\ ~Looping
    /\ phase' = "private"
    /\ UNCHANGED <<textVars, unsaved, listVars, savedVars>>

(* The second loop; set.pop takes any element. *)

ExportPrivate(c) ==
    /\ phase = "private" /\ c \in unsaved
    /\ ~Skipped(c) /\ private[c] # NoDictionary
    /\ Export(private[c], unsaved \ {c})
    /\ UNCHANGED <<phase, textVars, listVars>>

SkipUnsaved(c) ==
    /\ phase = "private" /\ c \in unsaved
    /\ Skipped(c) \/ private[c] = NoDictionary
    /\ unsaved' = unsaved \ {c}
    /\ UNCHANGED <<phase, textVars, listVars, savedVars>>

WriteList ==
    /\ phase = "private" /\ unsaved = {}
    /\ phase' = "listed"
    /\ UNCHANGED <<textVars, unsaved, listVars, savedVars>>

ExportStep ==
    \/ \E t \in Template : ReadTemplate(t)
    \/ ListAll \/ ExportCommon \/ KeepPrivate \/ SkipListed \/ CommonDone
    \/ \E c \in Code : ExportPrivate(c) \/ SkipUnsaved(c)
    \/ WriteList \/ ExportFails

ExportNext == (\E error \in BOOLEAN : Perl(error)) \/ ExportStep

ExportSpec == ExportInit /\ [][ExportNext]_exportVars

-------------------------------------------------------------------------------
(* The variables have their types. *)
Phases == {"perl", "skipped", "templates", "common", "private", "listed", "failed"}

ExportTypeOK ==
    /\ phase \in Phases
    /\ templates \subseteq Template
    /\ used \subseteq Code /\ unsaved \subseteq Code
    /\ gateway \in Seq(Dictionary) /\ at \in Nat \ {0}
    /\ private \in [Code -> Dictionary \cup {NoDictionary}]
    /\ saved \subseteq Code /\ lost \subseteq Code /\ dicts \subseteq Code
    /\ files \in [Code -> Code \cup {NoText, EmptyText}]

(* What the engine needs, stated without the loops: the least set of codes that
   has the names of the templates, the common dictionaries and what every
   readable dictionary in it includes. *)
Listed == {gateway[i] : i \in DOMAIN gateway}
Needs(S) ==
    /\ used \subseteq S
    /\ \A d \in Listed : d.common => d.code \in S
    /\ \A d \in Listed : d.code \in S /\ d.text # "unreadable" => d.includes \subseteq S
Needed == {c \in Code : \A S \in SUBSET Code : Needs(S) => c \in S}

(* Nothing is exported that the complect does not need: a private dictionary
   gets into the sources only through a template or an include
   (dictionaries.py, 107-189). *)
SavedIsNeeded == saved \subseteq Needed

(* When dict.lst is written, every needed dictionary that the gateway has is
   saved, through chains and cycles of includes, except the ones over which an
   exception was ignored. *)
NeededIsSaved ==
    phase = "listed" =>
        \A d \in Listed : d.code \in Needed => d.code \in saved \cup lost

(* The name of a saved dictionary is in dict.lst and its file holds its own
   text, unless another dictionary has the same name: the file is keyed by the
   processed name and the test before it by the code (dictionaries.py, 74-87). *)
OwnTexts ==
    \A c \in saved :
        /\ NameOf[c] \in dicts
        /\ \/ files[NameOf[c]] = c
           \/ \E d \in Listed : d.code # c /\ NameOf[d.code] = NameOf[c]

(* The second loop comes to its end through every cycle of includes, unless the
   cycle is one of dictionaries that cannot be written: those are popped,
   included again and never saved (dictionaries.py, 144-169). *)
Futile ==
    \E S \in SUBSET Code : S # {} /\ \A c \in S :
        /\ private[c] # NoDictionary /\ private[c].text = "unwritable"
        /\ private[c].includes \cap S # {}
LoopEnds == phase = "private" /\ ~Futile ~> phase \in {"listed", "failed"}

=============================================================================
