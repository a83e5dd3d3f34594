----------------------------- MODULE CompileTexts -----------------------------
(***************************************************************************)
(* The texts of a compile task: the perl tool's output decides whether     *)
(* dictionaries are exported, and at the report the outputs of all tools   *)
(* are joined and parsed for messages (preprocessor.py, compiler.py).      *)
(***************************************************************************)
EXTENDS DictionaryExport, EngineOutputParser

CONSTANTS
    MaxLines,       \* bound: the lines of all outputs
    MaxListedLines  \* bound: the same, after an export with dictionaries

ASSUME LineBounds == MaxLines \in Nat /\ MaxListedLines \in Nat

VARIABLES
    error,          \* "ERROR" in the perl tool's output
    tool,           \* whose lines are parsed next
    perlLines       \* the lines of the perl tool's output

reportVars == <<error, tool, perlLines>>
textsVars  == <<exportVars, parserVars, reportVars>>

LinesLeft ==
    Len(output) < IF gateway = << >> THEN MaxLines ELSE MaxListedLines

TextsInit ==
    /\ ExportInit /\ ParserInit
    /\ error \in BOOLEAN
    /\ tool = "php"
    /\ perlLines = {}

(* The test is for the letters ERROR anywhere in the output. *)
CountsAsError(line) == "upper" \in line

(* Download has succeeded; preprocess() with the perl tool's output. *)
Preprocess ==
    /\ Perl(error) \/ ExportStep
    /\ UNCHANGED <<parserVars, reportVars>>

(* format_output_result joins what the tools printed; perl_process_result is
   not there if preprocess() has raised. *)
Report(line) ==
    /\ phase \in {"skipped", "listed"}
    /\ tool # "end" /\ LinesLeft
    /\ tool = "perl" => (CountsAsError(line) => error)
    /\ ParseLine(line)
    /\ perlLines' = IF tool = "perl" THEN perlLines \cup {Len(output) + 1} ELSE perlLines
    /\ UNCHANGED <<exportVars, error, tool>>

(* The end of php's, the perl tool's and the engine compiler's output. *)
NextTool ==
    /\ phase \in {"skipped", "listed"}
    /\ \/ tool = "php" /\ tool' = "perl"
       \/ /\ tool = "perl" /\ tool' = "compile"
          /\ error => \E i \in perlLines : CountsAsError(output[i])
       \/ tool = "compile" /\ tool' = "end"
    /\ UNCHANGED <<exportVars, parserVars, error, perlLines>>

TextsNext == Preprocess \/ (\E line \in Line : Report(line)) \/ NextTool

(* preprocess() is a loop of one thread, it goes on while it can. *)
TextsSpec == TextsInit /\ [][TextsNext]_textsVars /\ WF_textsVars(Preprocess)

-------------------------------------------------------------------------------
(* The types of both components. *)
TypeOK == ExportTypeOK /\ ParserTypeOK

=============================================================================
