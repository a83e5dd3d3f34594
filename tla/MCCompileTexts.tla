---------------------------- MODULE MCCompileTexts ----------------------------
(* Private dictionaries a and b that include each other in every way, a common
   one whose name is b's with a quote, and an A that no text can name. *)
EXTENDS CompileTexts, TLC

CONSTANTS a, b, quoted, A

MCLower  == [c \in Code |-> IF c = A THEN a ELSE c]
MCNameOf == [c \in Code |-> CASE c = A -> a [] c = quoted -> b [] OTHER -> c]

MCDictionary ==
    {d \in Dictionary :
        /\ d.includes \subseteq {a, b}
        /\ d.text = "unreadable" => d.includes = {}
        /\ d.code = quoted => d.common
        /\ d.code = A => d.includes = {} /\ d.text = "fine"}

MCGateway ==
    {<< >>} \cup {<<d>> : d \in MCDictionary} \cup {<<d, d>> : d \in MCDictionary}
    \cup {<<p[1], p[2]>> : p \in {q \in MCDictionary \X MCDictionary : q[1].code # q[2].code}}

MCLine ==
    {{"file"}, {"error", "upper"}, {"error"}, {"upper"}, {"id"}, {"string"},
     {"string", "error"}, {"blank"}, {"mark"}}

=============================================================================
