-------------------------- MODULE CompileTextsProofs --------------------------
(***************************************************************************)
(* Proofs about the texts of a compile task: first about DictionaryExport, *)
(* for all texts and every list that the gateway can return; then about    *)
(* EngineOutputParser, for every set of lines and outputs of every length; *)
(* and about CompileTexts, which implements the specifications of the two, *)
(* so what is proved of them holds of it.                                  *)
(***************************************************************************)
EXTENDS CompileTexts, TLAPS

-------------------------------------------------------------------------------
(* The export of the dictionaries. *)

(* Before the list is there, nothing has happened but the collection of names. *)
NothingYet ==
    phase \in {"perl", "skipped", "templates"} =>
        /\ unsaved = used /\ saved = {} /\ lost = {} /\ dicts = {}
        /\ gateway = << >> /\ at = 1
        /\ private = [c \in Code |-> NoDictionary]

(* The items that the first loop has looked at are exported or kept. *)
LookedAt ==
    /\ gateway = << >> \/ gateway \in Gateway
    /\ phase = "common" => at \in 1 .. Len(gateway) + 1
    /\ \A i \in DOMAIN gateway : i < at \/ phase \in {"private", "listed"} =>
          \/ gateway[i].code \in saved \cup lost
          \/ ~gateway[i].common /\ private[gateway[i].code] = gateway[i]
    /\ \A c \in Code : private[c] # NoDictionary =>
          private[c] \in Listed /\ private[c].code = c /\ ~private[c].common
    /\ phase = "listed" => unsaved = {}

(* A code that is out of the worklist for good. *)
Settled(c) == c \in saved \cup lost \/ (phase # "common" /\ private[c] = NoDictionary)

(* What the engine needs is saved, lost, not there, or still in the worklist. *)
WorkLeft ==
    phase \in {"common", "private", "listed"} =>
        /\ \A c \in used : c \in unsaved \/ Settled(c)
        /\ \A d \in Listed : d.code \in saved \cup lost /\ d.text # "unreadable" =>
              \A c \in d.includes : c \in unsaved \/ Settled(c)

(* Whatever is saved or in the worklist is needed. *)
OnlyNeeded ==
    /\ \A S \in SUBSET Code : Needs(S) => unsaved \cup saved \subseteq S
    /\ saved \cup lost \subseteq {d.code : d \in Listed}

(* A name in dict.lst is that of a saved dictionary. *)
NamesAreSaved == \A n \in dicts : \E c \in saved : NameOf[c] = n

EInv == ExportTypeOK /\ NothingYet /\ LookedAt /\ WorkLeft /\ OnlyNeeded
        /\ NamesAreSaved /\ OwnTexts

-------------------------------------------------------------------------------

(* The dictionaries of the list are dictionaries, one per code. *)
LEMMA ListedAreDictionaries ==
    ASSUME EInv
    PROVE  /\ \A d \in Listed : d \in Dictionary
           /\ \A d, e \in Listed : d.code = e.code => d = e
<1>1. gateway \in Seq(Dictionary) /\ (gateway = << >> \/ gateway \in Gateway)
      BY DEF EInv, ExportTypeOK, LookedAt
<1>2. \A d \in Listed : d \in Dictionary
      BY <1>1 DEF Listed
<1>3. \A i, j \in DOMAIN gateway :
         gateway[i].code = gateway[j].code => gateway[i] = gateway[j]
      BY <1>1, GatewayLists
<1>4. QED BY <1>2, <1>3 DEF Listed

(* What the export of one dictionary does, whichever way it ends. *)
LEMMA ExportEffect ==
    ASSUME EInv, NEW d \in Dictionary, NEW rest \in SUBSET Code, Export(d, rest)
    PROVE  /\ unsaved' = rest \cup (IF d.text = "unreadable" THEN {} ELSE d.includes)
           /\ saved \subseteq saved' /\ saved' \subseteq saved \cup {d.code}
           /\ saved' \cup lost' = saved \cup lost \cup {d.code}
           /\ unsaved' \in SUBSET Code /\ saved' \in SUBSET Code
           /\ lost' \in SUBSET Code /\ dicts' \in SUBSET Code
           /\ files' \in [Code -> Code \cup {NoText, EmptyText}]
<1> USE NameTables DEF EInv, ExportTypeOK, Includes, FileName, Dictionary
<1>1. CASE Unreadable(d, rest)
      BY <1>1 DEF Unreadable
<1>2. CASE Unwritable(d, rest)
  <2>1. NameOf[d.code] \in Code /\ files[NameOf[d.code]] \in Code \cup {NoText, EmptyText}
        OBVIOUS
  <2>2. QED BY <1>2, <2>1 DEF Unwritable
<1>3. CASE Written(d, rest)
      BY <1>3 DEF Written
<1>4. CASE TakenName(d, rest)
      BY <1>4 DEF TakenName
<1>5. QED BY <1>1, <1>2, <1>3, <1>4 DEF Export

(* The export of one dictionary keeps names and texts together. *)
LEMMA ExportKeepsTexts ==
    ASSUME EInv, NEW d \in Listed, NEW rest \in SUBSET Code, Export(d, rest),
           d.code \notin saved, gateway' = gateway
    PROVE  NamesAreSaved' /\ OwnTexts'
<1> DEFINE Twin(c) == \E e \in Listed : e.code # c /\ NameOf[e.code] = NameOf[c]
<1>1. /\ d \in Dictionary /\ d.code \in Code /\ NameOf[d.code] \in Code
      /\ Listed' = Listed
      /\ files \in [Code -> Code \cup {NoText, EmptyText}]
      BY ListedAreDictionaries, NameTables DEF Dictionary, Listed, EInv, ExportTypeOK
<1>2. /\ \A c \in saved : NameOf[c] \in dicts /\ (files[NameOf[c]] = c \/ Twin(c))
      /\ saved \subseteq Code
      BY DEF EInv, ExportTypeOK, OwnTexts
<1>3. SUFFICES /\ \A n \in dicts' : \E c \in saved' : NameOf[c] = n
               /\ \A c \in saved' :
                     NameOf[c] \in dicts' /\ (files'[NameOf[c]] = c \/ Twin(c))
      BY <1>1 DEF NamesAreSaved, OwnTexts
<1>4. \A n \in dicts : \E c \in saved : NameOf[c] = n
      BY DEF EInv, NamesAreSaved
<1>5. ASSUME NEW c \in saved, NameOf[c] = NameOf[d.code]
      PROVE  Twin(c)
      BY <1>1, <1>5
<1> HIDE DEF Twin
<1>6. CASE Unreadable(d, rest)
      BY <1>2, <1>4, <1>6 DEF Unreadable
<1>7. CASE Unwritable(d, rest)
  <2>1. \A c \in saved : files'[NameOf[c]] = files[NameOf[c]] \/ Twin(c)
        BY <1>1, <1>2, <1>5, <1>7, NameTables DEF Unwritable, FileName
  <2>2. QED BY <1>2, <1>4, <1>7, <2>1 DEF Unwritable
<1>8. CASE Written(d, rest)
  <2>1. \A c \in saved : files'[NameOf[c]] = files[NameOf[c]] \/ Twin(c)
        BY <1>1, <1>2, <1>5, <1>8, NameTables DEF Written, FileName
  <2>2. files'[NameOf[d.code]] = d.code
        BY <1>1, <1>8 DEF Written, FileName
  <2>3. QED BY <1>2, <1>4, <1>8, <2>1, <2>2 DEF Written, FileName
<1>9. CASE TakenName(d, rest)
  <2>1. PICK e \in saved : NameOf[e] = d.code
        BY <1>4, <1>9 DEF TakenName
  <2>2. NameOf[d.code] = d.code
        BY <1>2, <2>1, NameTables
  <2>3. Twin(d.code)
    <3>1. PICK x \in Listed : x.code = e
          BY DEF EInv, OnlyNeeded
    <3>2. QED BY <2>1, <2>2, <3>1 DEF Twin
  <2>4. QED BY <1>2, <1>4, <1>9, <2>2, <2>3 DEF TakenName
<1>10. QED BY <1>6, <1>7, <1>8, <1>9 DEF Export

(* It keeps the worklist complete and free of what nobody needs. *)
LEMMA ExportKeepsWork ==
    ASSUME EInv, NEW d \in Listed, NEW rest \in SUBSET Code, Export(d, rest),
           phase \in {"common", "private"}, d.common \/ d.code \in unsaved,
           rest \subseteq unsaved, unsaved \subseteq rest \cup {d.code},
           UNCHANGED <<phase, used, gateway, private>>
    PROVE  WorkLeft' /\ OnlyNeeded'
<1>1. d \in Dictionary /\ Listed' = Listed
      BY ListedAreDictionaries DEF Listed
<1>2. /\ unsaved' = rest \cup (IF d.text = "unreadable" THEN {} ELSE d.includes)
      /\ saved \subseteq saved' /\ saved' \subseteq saved \cup {d.code}
      /\ saved' \cup lost' = saved \cup lost \cup {d.code}
      BY <1>1, ExportEffect
<1>3. \A c : (c \in unsaved \/ Settled(c)) => (c \in unsaved' \/ Settled(c)')
      BY <1>2 DEF Settled
<1>4. WorkLeft'
  <2>1. \A c \in used' : c \in unsaved' \/ Settled(c)'
        BY <1>3 DEF EInv, WorkLeft
  <2>2. ASSUME NEW e \in Listed, e.code \in saved' \cup lost', e.text # "unreadable",
               NEW c \in e.includes
        PROVE  c \in unsaved' \/ Settled(c)'
    <3>1. CASE e.code \in saved \cup lost
          BY <1>3, <2>2, <3>1 DEF EInv, WorkLeft
    <3>2. CASE e.code \notin saved \cup lost
          BY <1>2, <2>2, <3>2, ListedAreDictionaries
    <3>3. QED BY <3>1, <3>2
  <2>3. QED BY <1>1, <2>1, <2>2 DEF WorkLeft
<1>5. OnlyNeeded'
  <2>1. ASSUME NEW S \in SUBSET Code, Needs(S)'
        PROVE  unsaved' \cup saved' \subseteq S
    <3>1. Needs(S)
          BY <1>1, <2>1 DEF Needs
    <3>2. unsaved \cup saved \subseteq S
          BY <3>1 DEF EInv, OnlyNeeded
    <3>3. d.code \in S
          BY <3>1, <3>2 DEF Needs
    <3>4. d.text # "unreadable" => d.includes \subseteq S
          BY <3>1, <3>3 DEF Needs
    <3>5. QED BY <1>2, <3>2, <3>3, <3>4
  <2>2. saved' \cup lost' \subseteq {e.code : e \in Listed'}
        BY <1>1, <1>2 DEF EInv, OnlyNeeded
  <2>3. QED BY <2>1, <2>2 DEF OnlyNeeded
<1>6. QED BY <1>4, <1>5

-------------------------------------------------------------------------------
(* The steps.  Each leaves most parts of the invariant as they were. *)

(* The test of the perl tool's output comes first. *)
LEMMA PerlKeeps ==
    ASSUME EInv, NEW bad \in BOOLEAN, Perl(bad)
    PROVE  EInv'
<1> USE DEF Perl, EInv, textVars, listVars, savedVars
<1>1. ExportTypeOK' /\ NothingYet'
      BY DEF ExportTypeOK, Phases, NothingYet
<1>2. LookedAt' /\ WorkLeft'
      BY DEF LookedAt, Listed, WorkLeft, NothingYet
<1>3. OnlyNeeded' /\ NamesAreSaved' /\ OwnTexts'
      BY DEF OnlyNeeded, Listed, Needs, NamesAreSaved, OwnTexts
<1>4. QED BY <1>1, <1>2, <1>3

(* The names of a template are needed, and in the worklist. *)
LEMMA ReadTemplateKeeps ==
    ASSUME EInv, NEW t \in Template, ReadTemplate(t)
    PROVE  EInv'
<1> USE DEF ReadTemplate, EInv, listVars, savedVars
<1>1. PICK found \in SUBSET Named :
         /\ used' = used \cup {Lower[c] : c \in found}
         /\ unsaved' = unsaved \cup {Lower[c] : c \in found}
      OBVIOUS
<1>2. {Lower[c] : c \in found} \subseteq Code
      BY NameTables
<1>3. ExportTypeOK' /\ NothingYet'
      BY <1>1, <1>2 DEF ExportTypeOK, Phases, NothingYet
<1>4. LookedAt' /\ WorkLeft'
      BY DEF LookedAt, Listed, WorkLeft
<1>5. OnlyNeeded'
      BY <1>1 DEF OnlyNeeded, Needs, NothingYet, Listed
<1>6. NamesAreSaved' /\ OwnTexts'
      BY DEF NamesAreSaved, OwnTexts, Listed
<1>7. QED BY <1>3, <1>4, <1>5, <1>6

(* The list arrives, and nothing of it is looked at yet. *)
LEMMA ListAllKeeps ==
    ASSUME EInv, ListAll
    PROVE  EInv'
<1> USE DEF ListAll, EInv, textVars, savedVars
<1>1. /\ unsaved = used /\ saved = {} /\ lost = {} /\ dicts = {}
      /\ at = 1 /\ \A c \in Code : private[c] = NoDictionary
      BY DEF NothingYet
<1>2. gateway' \in Seq(Dictionary) /\ Len(gateway') \in Nat
      BY GatewayLists
<1>3. ExportTypeOK' /\ NothingYet'
      BY <1>2 DEF ExportTypeOK, Phases, NothingYet
<1>4. LookedAt'
      BY <1>1, <1>2 DEF LookedAt
<1>5. WorkLeft' /\ OnlyNeeded'
      BY <1>1 DEF WorkLeft, OnlyNeeded, Needs
<1>6. NamesAreSaved' /\ OwnTexts'
      BY <1>1 DEF NamesAreSaved, OwnTexts
<1>7. QED BY <1>3, <1>4, <1>5, <1>6

(* A failed export leaves what it had done. *)
LEMMA ExportFailsKeeps ==
    ASSUME EInv, ExportFails
    PROVE  EInv'
<1> USE DEF ExportFails, EInv, textVars, listVars, savedVars
<1>1. ExportTypeOK' /\ NothingYet'
      BY DEF ExportTypeOK, Phases, NothingYet
<1>2. LookedAt' /\ WorkLeft'
      BY DEF LookedAt, Listed, WorkLeft, NothingYet
<1>3. OnlyNeeded' /\ NamesAreSaved' /\ OwnTexts'
      BY DEF OnlyNeeded, Listed, Needs, NamesAreSaved, OwnTexts
<1>4. QED BY <1>1, <1>2, <1>3

(* The item under the loop's hand is one of the list. *)
LEMMA ItemListed ==
    ASSUME EInv, Looping
    PROVE  /\ at \in DOMAIN gateway /\ gateway[at] \in Listed
           /\ gateway[at] \in Dictionary /\ gateway[at].code \in Code
           /\ at + 1 \in 1 .. Len(gateway) + 1 /\ Len(gateway) \in Nat
<1>1. gateway \in Seq(Dictionary) /\ at \in Nat \ {0} /\ Len(gateway) \in Nat
      BY DEF EInv, ExportTypeOK
<1>2. at \in DOMAIN gateway
      BY <1>1 DEF Looping
<1>3. gateway[at] \in Dictionary
      BY <1>1, <1>2
<1>4. gateway[at].code \in Code
      BY <1>3 DEF Dictionary
<1>5. at + 1 \in 1 .. Len(gateway) + 1
      BY <1>1 DEF Looping
<1>6. QED BY <1>1, <1>2, <1>3, <1>4, <1>5 DEF Listed

(* A common dictionary is exported, or lost. *)
LEMMA ExportCommonKeeps ==
    ASSUME EInv, ExportCommon
    PROVE  EInv'
<1> USE DEF ExportCommon, textVars
<1>1. /\ gateway[at] \in Listed /\ gateway[at] \in Dictionary
      /\ at \in DOMAIN gateway /\ at + 1 \in 1 .. Len(gateway) + 1
      /\ gateway[at].code \notin saved /\ gateway[at].common
      /\ unsaved \in SUBSET Code /\ phase = "common"
      BY ItemListed DEF EInv, ExportTypeOK, Skipped, Looping
<1>2. NamesAreSaved' /\ OwnTexts'
      BY <1>1, ExportKeepsTexts
<1>3. WorkLeft' /\ OnlyNeeded'
      BY <1>1, ExportKeepsWork
<1>4. /\ saved' \cup lost' = saved \cup lost \cup {gateway[at].code}
      /\ ExportTypeOK'
      BY <1>1, ExportEffect DEF EInv, ExportTypeOK
<1>5. LookedAt'
  <2>1. ASSUME NEW i \in DOMAIN gateway, i < at + 1
        PROVE  \/ gateway[i].code \in saved' \cup lost'
               \/ ~gateway[i].common /\ private[gateway[i].code] = gateway[i]
    <3>1. i < at \/ i = at
          BY <1>1, <2>1 DEF EInv, ExportTypeOK
    <3>2. QED BY <1>4, <3>1 DEF EInv, LookedAt
  <2>2. QED BY <1>1, <2>1 DEF EInv, LookedAt, Listed
<1>6. NothingYet'
      BY <1>1 DEF NothingYet
<1>7. QED BY <1>2, <1>3, <1>4, <1>5, <1>6 DEF EInv

(* A private dictionary is kept under its code. *)
LEMMA KeepPrivateKeeps ==
    ASSUME EInv, KeepPrivate
    PROVE  EInv'
<1> USE DEF KeepPrivate, textVars, savedVars
<1>1. /\ gateway[at] \in Listed /\ gateway[at] \in Dictionary
      /\ at \in DOMAIN gateway /\ at + 1 \in 1 .. Len(gateway) + 1
      /\ gateway[at].code \in Code /\ ~gateway[at].common /\ phase = "common"
      BY ItemListed DEF Looping
<1>2. private' = [private EXCEPT ![gateway[at].code] = gateway[at]]
      OBVIOUS
<1>3. private \in [Code -> Dictionary \cup {NoDictionary}]
      BY DEF EInv, ExportTypeOK
<1>4. ExportTypeOK' /\ NothingYet'
      BY <1>1, <1>2, <1>3 DEF EInv, ExportTypeOK, NothingYet
<1>5. LookedAt'
  <2>1. ASSUME NEW i \in DOMAIN gateway, i < at + 1
        PROVE  \/ gateway[i].code \in saved \cup lost
               \/ ~gateway[i].common /\ private'[gateway[i].code] = gateway[i]
    <3>1. gateway[i] \in Listed /\ gateway[i].code \in Code
          BY ListedAreDictionaries DEF Listed, Dictionary
    <3>2. CASE gateway[i].code = gateway[at].code
          BY <1>1, <1>2, <1>3, <3>1, <3>2, ListedAreDictionaries
    <3>3. CASE gateway[i].code # gateway[at].code
      <4>1. i < at
            BY <1>1, <2>1, <3>3 DEF EInv, ExportTypeOK
      <4>2. QED BY <1>2, <1>3, <3>1, <3>3, <4>1 DEF EInv, LookedAt
    <3>4. QED BY <3>2, <3>3
  <2>2. \A c \in Code : private'[c] # NoDictionary =>
           private'[c] \in Listed /\ private'[c].code = c /\ ~private'[c].common
        BY <1>1, <1>2, <1>3 DEF EInv, LookedAt
  <2>3. QED BY <1>1, <2>1, <2>2 DEF EInv, LookedAt, Listed
<1>6. WorkLeft'
      BY <1>1 DEF EInv, WorkLeft, Settled, Listed
<1>7. OnlyNeeded' /\ NamesAreSaved' /\ OwnTexts'
      BY DEF EInv, OnlyNeeded, Needs, Listed, NamesAreSaved, OwnTexts
<1>8. QED BY <1>4, <1>5, <1>6, <1>7 DEF EInv

(* An item that is saved already is passed over. *)
LEMMA SkipListedKeeps ==
    ASSUME EInv, SkipListed
    PROVE  EInv'
<1> USE DEF SkipListed, textVars, savedVars
<1>1. /\ at \in DOMAIN gateway /\ at + 1 \in 1 .. Len(gateway) + 1
      /\ gateway[at].code \in saved /\ phase = "common"
      BY ItemListed DEF Looping, Skipped
<1>2. ExportTypeOK' /\ NothingYet'
      BY <1>1 DEF EInv, ExportTypeOK, NothingYet
<1>3. LookedAt'
  <2>1. ASSUME NEW i \in DOMAIN gateway, i < at + 1
        PROVE  \/ gateway[i].code \in saved \cup lost
               \/ ~gateway[i].common /\ private[gateway[i].code] = gateway[i]
    <3>1. i < at \/ i = at
          BY <1>1, <2>1 DEF EInv, ExportTypeOK
    <3>2. QED BY <1>1, <3>1 DEF EInv, LookedAt
  <2>2. QED BY <1>1, <2>1 DEF EInv, LookedAt, Listed
<1>4. WorkLeft' /\ OnlyNeeded'
      BY <1>1 DEF EInv, WorkLeft, Settled, OnlyNeeded, Needs, Listed
<1>5. NamesAreSaved' /\ OwnTexts'
      BY DEF EInv, NamesAreSaved, OwnTexts, Listed
<1>6. QED BY <1>2, <1>3, <1>4, <1>5 DEF EInv

(* At the end of the first loop every item has been looked at. *)
LEMMA CommonDoneKeeps ==
    ASSUME EInv, CommonDone
    PROVE  EInv'
<1> USE DEF CommonDone, textVars, listVars, savedVars
<1>1. phase = "common" /\ phase' = "private" /\ Len(gateway) \in Nat
      /\ \A i \in DOMAIN gateway : i < at
      BY DEF EInv, ExportTypeOK, Looping
<1>2. ExportTypeOK' /\ NothingYet'
      BY <1>1 DEF EInv, ExportTypeOK, Phases, NothingYet
<1>3. LookedAt'
      BY <1>1 DEF EInv, LookedAt, Listed
<1>4. WorkLeft'
      BY <1>1 DEF EInv, WorkLeft, Settled, Listed
<1>5. OnlyNeeded' /\ NamesAreSaved' /\ OwnTexts'
      BY DEF EInv, OnlyNeeded, Needs, Listed, NamesAreSaved, OwnTexts
<1>6. QED BY <1>2, <1>3, <1>4, <1>5 DEF EInv

(* A popped private dictionary is exported, or lost. *)
LEMMA ExportPrivateKeeps ==
    ASSUME EInv, NEW c \in Code, ExportPrivate(c)
    PROVE  EInv'
<1> USE DEF ExportPrivate, textVars, listVars
<1>1. /\ private[c] \in Listed /\ private[c].code = c /\ private[c] \in Dictionary
      /\ c \notin saved /\ c \in unsaved /\ phase = "private"
      /\ unsaved \in SUBSET Code
      BY ListedAreDictionaries DEF EInv, LookedAt, Skipped, ExportTypeOK
<1>2. NamesAreSaved' /\ OwnTexts'
      BY <1>1, ExportKeepsTexts
<1>3. WorkLeft' /\ OnlyNeeded'
      BY <1>1, ExportKeepsWork
<1>4. /\ saved' \cup lost' = saved \cup lost \cup {c}
      /\ ExportTypeOK'
      BY <1>1, ExportEffect DEF EInv, ExportTypeOK
<1>5. LookedAt' /\ NothingYet'
      BY <1>1, <1>4 DEF EInv, LookedAt, Listed, NothingYet
<1>6. QED BY <1>2, <1>3, <1>4, <1>5 DEF EInv

(* A popped code that is saved or not in the list is settled. *)
LEMMA SkipUnsavedKeeps ==
    ASSUME EInv, NEW c \in Code, SkipUnsaved(c)
    PROVE  EInv'
<1> USE DEF SkipUnsaved, textVars, listVars, savedVars
<1>1. phase = "private" /\ Settled(c) /\ unsaved' = unsaved \ {c}
      BY DEF Skipped, Settled
<1>2. ExportTypeOK' /\ NothingYet'
      BY <1>1 DEF EInv, ExportTypeOK, NothingYet
<1>3. LookedAt'
      BY <1>1 DEF EInv, LookedAt, Listed
<1>4. \A x : (x \in unsaved \/ Settled(x)) => (x \in unsaved' \/ Settled(x)')
      BY <1>1 DEF Settled
<1>5. WorkLeft'
      BY <1>4 DEF EInv, WorkLeft, Listed
<1>6. OnlyNeeded' /\ NamesAreSaved' /\ OwnTexts'
      BY <1>1 DEF EInv, OnlyNeeded, Needs, Listed, NamesAreSaved, OwnTexts
<1>7. QED BY <1>2, <1>3, <1>5, <1>6 DEF EInv

(* dict.lst is written when the worklist is empty. *)
LEMMA WriteListKeeps ==
    ASSUME EInv, WriteList
    PROVE  EInv'
<1> USE DEF WriteList, textVars, listVars, savedVars
<1>1. ExportTypeOK' /\ NothingYet'
      BY DEF EInv, ExportTypeOK, Phases, NothingYet
<1>2. LookedAt' /\ WorkLeft'
      BY DEF EInv, LookedAt, Listed, WorkLeft, Settled
<1>3. OnlyNeeded' /\ NamesAreSaved' /\ OwnTexts'
      BY DEF EInv, OnlyNeeded, Needs, Listed, NamesAreSaved, OwnTexts
<1>4. QED BY <1>1, <1>2, <1>3 DEF EInv

(* Nothing is named, listed or saved at first. *)
LEMMA ExportInitHolds == ExportInit => EInv
<1> SUFFICES ASSUME ExportInit PROVE EInv
    OBVIOUS
<1> USE NameTables DEF ExportInit
<1>1. ExportTypeOK
      BY DEF ExportTypeOK, Phases
<1>2. NothingYet /\ LookedAt /\ WorkLeft
      BY DEF NothingYet, LookedAt, WorkLeft
<1>3. OnlyNeeded /\ NamesAreSaved /\ OwnTexts
      BY DEF OnlyNeeded, NamesAreSaved, OwnTexts
<1>4. QED BY <1>1, <1>2, <1>3 DEF EInv

(* A step of another part of the compile task changes nothing here. *)
LEMMA ExportStutterKeeps == EInv /\ UNCHANGED exportVars => EInv'
<1> SUFFICES ASSUME EInv, UNCHANGED exportVars PROVE EInv'
    OBVIOUS
<1> USE DEF EInv, exportVars, textVars, listVars, savedVars
<1>1. ExportTypeOK' /\ NothingYet'
      BY DEF ExportTypeOK, NothingYet
<1>2. LookedAt' /\ WorkLeft'
      BY DEF LookedAt, Listed, WorkLeft, Settled
<1>3. OnlyNeeded' /\ NamesAreSaved' /\ OwnTexts'
      BY DEF OnlyNeeded, Needs, Listed, NamesAreSaved, OwnTexts
<1>4. QED BY <1>1, <1>2, <1>3

(* The inductive step. *)
LEMMA ExportStepKeeps == EInv /\ [ExportNext]_exportVars => EInv'
<1> SUFFICES ASSUME EInv, [ExportNext]_exportVars PROVE EInv'
    OBVIOUS
<1>1. CASE UNCHANGED exportVars
      BY <1>1, ExportStutterKeeps
<1>2. CASE \E bad \in BOOLEAN : Perl(bad)
      BY <1>2, PerlKeeps
<1>3. CASE ExportStep
      BY <1>3, ReadTemplateKeeps, ListAllKeeps, ExportCommonKeeps, KeepPrivateKeeps,
         SkipListedKeeps, CommonDoneKeeps, ExportPrivateKeeps, SkipUnsavedKeeps,
         WriteListKeeps, ExportFailsKeeps DEF ExportStep
<1>4. QED BY <1>1, <1>2, <1>3 DEF ExportNext

-------------------------------------------------------------------------------

(* The inductive invariant holds in every reachable state. *)
THEOREM ExportInvariant == ExportSpec => []EInv
<1>1. QED BY ExportInitHolds, ExportStepKeeps, PTL DEF ExportSpec

(* A private dictionary gets into the sources only through a template or an
   include (dictionaries.py, 107-189). *)
THEOREM OnlyNeededIsSaved == ExportSpec => []SavedIsNeeded
<1>1. EInv => SavedIsNeeded
      BY DEF EInv, ExportTypeOK, OnlyNeeded, SavedIsNeeded, Needed
<1>2. QED BY <1>1, ExportInvariant, PTL

(* When the worklist is empty, what left it is a set that has everything the
   engine needs: so nothing needed is missing, through every chain and cycle of
   includes, but what is lost or not in the gateway (dictionaries.py, 143-171). *)
THEOREM AllNeededIsSaved == ExportSpec => []NeededIsSaved
<1>1. EInv => NeededIsSaved
  <2> SUFFICES ASSUME EInv, phase = "listed", NEW d \in Listed, d.code \in Needed
               PROVE  d.code \in saved \cup lost
      BY DEF NeededIsSaved
  <2> DEFINE S == {c \in Code : Settled(c)}
  <2>1. \A e \in Listed : e \in Dictionary /\ e.code \in Code /\ e.includes \subseteq Code
        BY ListedAreDictionaries DEF Dictionary
  <2>2. \A e \in Listed : Settled(e.code) => e.code \in saved \cup lost
    <3> SUFFICES ASSUME NEW e \in Listed, Settled(e.code)
                 PROVE  e.code \in saved \cup lost
        OBVIOUS
    <3>1. e.code \in saved \cup lost \/ private[e.code] = e
          BY DEF EInv, LookedAt, Listed
    <3>2. e # NoDictionary
          BY <2>1, GatewayLists
    <3>3. QED BY <3>1, <3>2 DEF Settled
  <2>3. Needs(S)
    <3>1. used \subseteq S
          BY DEF EInv, WorkLeft, LookedAt, ExportTypeOK
    <3>2. \A e \in Listed : e.common => e.code \in S
          BY <2>1 DEF EInv, LookedAt, Listed, Settled
    <3>3. \A e \in Listed : e.code \in S /\ e.text # "unreadable" => e.includes \subseteq S
          BY <2>1, <2>2 DEF EInv, WorkLeft, LookedAt
    <3>4. QED BY <3>1, <3>2, <3>3 DEF Needs
  <2>4. d.code \in S
        BY <2>3 DEF Needed
  <2>5. QED BY <2>2, <2>4
<1>2. QED BY <1>1, ExportInvariant, PTL

(* The files of saved dictionaries hold their own texts, or two dictionaries of
   the gateway have the same name (dictionaries.py, 74-87). *)
THEOREM TextsAreOwn == ExportSpec => []OwnTexts
<1>1. EInv => OwnTexts
      BY DEF EInv
<1>2. QED BY <1>1, ExportInvariant, PTL

-------------------------------------------------------------------------------
(* The parser of the engine's output. *)

(* Line i has the error of a message that is still open after the last line. *)
Pending(i) ==
    /\ Has(i, "error") /\ InFile(i)
    /\ \A j \in i .. Len(output) : ~Closing(j)
    /\ \A k \in i + 1 .. Len(output) : ~Has(k, "error")

(* The state after a line, in terms of the lines. *)
StateIsRead ==
    /\ inMessage <=> \E f \in 1 .. Len(output) : Has(f, "file")
    /\ current = NoMessage => \A i \in 1 .. Len(output) : ~Pending(i)
    /\ current # NoMessage =>
          /\ current.error \in 1 .. Len(output) /\ Pending(current.error)
          /\ current.id # 0 => current.id \in current.error .. Len(output)
          /\ current.near = 0

FieldsAreRead ==
    \A m \in messages : /\ m.error \in 1 .. Len(output)
                        /\ m.id \in 0 .. Len(output) /\ m.near \in 0 .. Len(output)

PInv == ParserTypeOK /\ StateIsRead /\ FieldsAreRead
        /\ MessagesAreReported /\ FieldsFromOwnBlock

-------------------------------------------------------------------------------

(* One more line leaves the lines before it as they were. *)
LEMMA LineAppended ==
    ASSUME ParserTypeOK, NEW line \in Line, output' = Append(output, line)
    PROVE  /\ Len(output) \in Nat /\ Len(output') = Len(output) + 1
           /\ output' \in Seq(Line)
           /\ output'[Len(output) + 1] = line
           /\ \A i \in 1 .. Len(output) : output'[i] = output[i]
BY DEF ParserTypeOK

(* So an old line is pending or reported as before, but for what the new line
   ends or replaces; the new one is in a file if any line before it was. *)
LEMMA NewLine ==
    ASSUME PInv, NEW line \in Line, output' = Append(output, line),
           NEW n \in Nat, n = Len(output) + 1
    PROVE  LET ends == "string" \in line \/ "blank" \in line \/ "mark" \in line
           IN  /\ \A i \in 1 .. Len(output) : Pending(i)' <=>
                     Pending(i) /\ ~ends /\ "error" \notin line
               /\ \A i \in 1 .. Len(output) : Reported(i)' <=>
                     Reported(i) \/ (Pending(i) /\ ends /\ "error" \notin line)
               /\ InFile(n)' <=> inMessage
               /\ Pending(n)' <=> "error" \in line /\ inMessage /\ ~ends
               /\ Reported(n)' <=> "error" \in line /\ inMessage /\ ends
<1> DEFINE ends == "string" \in line \/ "blank" \in line \/ "mark" \in line
<1>1. /\ Len(output) \in Nat /\ Len(output') = n
      /\ \A p : Has(n, p)' <=> p \in line
      /\ \A i \in 1 .. Len(output) : \A p : Has(i, p)' <=> Has(i, p)
      BY LineAppended DEF PInv, Has
<1>2. /\ \A i \in 1 .. Len(output) : Closing(i)' <=> Closing(i)
      /\ Closing(n)' <=> ends
      BY <1>1 DEF Closing
<1>3. \A i \in 1 .. Len(output) : InFile(i)' <=> InFile(i)
      BY <1>1 DEF InFile
<1>4. InFile(n)' <=> inMessage
      BY <1>1 DEF InFile, PInv, StateIsRead
<1> HIDE DEF ends
<1>5. \A i \in 1 .. Len(output) : Pending(i)' <=>
         Pending(i) /\ ~ends /\ "error" \notin line
      BY <1>1, <1>2, <1>3 DEF Pending
<1>6. ASSUME NEW i \in 1 .. Len(output)
      PROVE  Reported(i)' <=> Reported(i) \/ (Pending(i) /\ ends /\ "error" \notin line)
  <2>1. Reported(i) => Reported(i)'
        BY <1>1, <1>2, <1>3 DEF Reported
  <2>2. Pending(i) /\ ends /\ "error" \notin line => Reported(i)'
        BY <1>1, <1>2, <1>3 DEF Reported, Pending
  <2>3. Reported(i)' => Reported(i) \/ (Pending(i) /\ ends /\ "error" \notin line)
    <3> SUFFICES ASSUME Reported(i)', ~Reported(i)
                 PROVE  Pending(i) /\ ends /\ "error" \notin line
        OBVIOUS
    <3>1. Has(i, "error") /\ InFile(i)
          BY <1>1, <1>3 DEF Reported
    <3>2. PICK j \in i .. n : Closing(j)' /\ \A k \in i + 1 .. j : ~Has(k, "error")'
          BY <1>1 DEF Reported
    <3>3. j = n
      <4> SUFFICES ASSUME j # n PROVE FALSE
          OBVIOUS
      <4>1. j \in i .. Len(output) /\ Closing(j)
            BY <1>1, <1>2, <3>2
      <4>2. \A k \in i + 1 .. j : ~Has(k, "error")
            BY <1>1, <3>2, <4>1
      <4>3. QED BY <3>1, <4>1, <4>2 DEF Reported
    <3>4. ends /\ "error" \notin line
          BY <1>1, <1>2, <3>2, <3>3
    <3>5. \A k \in i + 1 .. Len(output) : ~Has(k, "error")
          BY <1>1, <3>2, <3>3
    <3>6. \A k \in i .. Len(output) : ~Closing(k)
          BY <1>1, <3>1, <3>5 DEF Reported
    <3>7. QED BY <3>1, <3>4, <3>5, <3>6 DEF Pending
  <2>4. QED BY <2>1, <2>2, <2>3
<1>7. Pending(n)' <=> "error" \in line /\ inMessage /\ ~ends
      BY <1>1, <1>2, <1>4 DEF Pending
<1>8. Reported(n)' <=> "error" \in line /\ inMessage /\ ends
      BY <1>1, <1>2, <1>4 DEF Reported
<1>9. QED BY <1>4, <1>5, <1>6, <1>7, <1>8 DEF ends

-------------------------------------------------------------------------------

(* A line before the first file: is not looked at. *)
LEMMA WaitKeeps ==
    ASSUME PInv, NEW line \in Line, output' = Append(output, line), Wait(line)
    PROVE  PInv'
<1> DEFINE n == Len(output) + 1
<1>1. /\ Len(output) \in Nat /\ Len(output') = n /\ output' \in Seq(Line)
      /\ \A i \in 1 .. Len(output) : output'[i] = output[i]
      /\ output'[n] = line
      BY LineAppended DEF PInv
<1>2. \A i \in 1 .. n : ~(Pending(i)') /\ ~(Reported(i)')
  <2>1. ~inMessage /\ \A f \in 1 .. Len(output) : ~Has(f, "file")
        BY DEF Wait, PInv, StateIsRead
  <2>2. \A i \in 1 .. n : ~(InFile(i)')
        BY <1>1, <2>1 DEF InFile, Has
  <2>3. QED BY <2>2 DEF Pending, Reported
<1>3. current = NoMessage /\ messages = {}
  <2>1. \A i \in 1 .. Len(output) : ~InFile(i)
        BY DEF Wait, PInv, StateIsRead, InFile
  <2>2. current = NoMessage
        BY <2>1 DEF PInv, StateIsRead, Pending
  <2>3. \A m \in messages : Reported(m.error) /\ m.error \in 1 .. Len(output)
        BY DEF PInv, MessagesAreReported
  <2>4. QED BY <2>1, <2>2, <2>3 DEF Reported
<1>4. current' = NoMessage /\ messages' = {}
      BY <1>3 DEF Wait
<1>5. ParserTypeOK'
      BY <1>1, <1>4 DEF ParserTypeOK, Wait
<1>6. StateIsRead'
  <2>1. inMessage' <=> "file" \in line
        BY DEF Wait
  <2>2. (\E f \in 1 .. Len(output) : Has(f, "file"))' <=> "file" \in line
        BY <1>1 DEF Wait, PInv, StateIsRead, Has
  <2>3. QED BY <1>1, <1>2, <1>4, <2>1, <2>2 DEF StateIsRead
<1>7. FieldsAreRead' /\ FieldsFromOwnBlock'
      BY <1>4 DEF FieldsAreRead, FieldsFromOwnBlock
<1>8. MessagesAreReported'
      BY <1>1, <1>2, <1>4 DEF MessagesAreReported
<1>9. QED BY <1>5, <1>6, <1>7, <1>8 DEF PInv

(* What a line in a message leaves: the message with its fields, complete or
   still open. *)
LEMMA InMessageKeeps ==
    ASSUME PInv, NEW line \in Line, output' = Append(output, line), InMessage(line)
    PROVE  PInv'
<1> DEFINE ends == "string" \in line \/ "blank" \in line \/ "mark" \in line
<1>0. PICK n \in Nat : n = Len(output) + 1
      BY LineAppended DEF PInv
<1>1. /\ Len(output) \in Nat /\ Len(output') = n /\ output' \in Seq(Line)
      /\ output'[n] = line
      /\ \A i \in 1 .. Len(output) : \A p : Has(i, p)' <=> Has(i, p)
      /\ \A p : Has(n, p)' <=> p \in line
      BY <1>0, LineAppended DEF PInv, Has
<1>2. /\ \A i \in 1 .. Len(output) : Pending(i)' <=>
            Pending(i) /\ ~ends /\ "error" \notin line
      /\ \A i \in 1 .. Len(output) : Reported(i)' <=>
            Reported(i) \/ (Pending(i) /\ ends /\ "error" \notin line)
      /\ InFile(n)'
      /\ Pending(n)' <=> "error" \in line /\ ~ends
      /\ Reported(n)' <=> "error" \in line /\ ends
      BY <1>0, NewLine DEF InMessage
<1>3. PICK message : message = WithId(Opened(line, n), line, n)
      OBVIOUS
<1>4. Ends(line) <=> ends
      BY DEF Ends
<1> HIDE DEF ends
<1>5. /\ inMessage /\ inMessage' = inMessage
      /\ (\E f \in 1 .. Len(output) : Has(f, "file"))'
      BY <1>1 DEF InMessage, PInv, StateIsRead
<1>6. \A m \in messages : /\ m \in Message /\ m.error \in 1 .. Len(output)
                          /\ m.id \in 0 .. Len(output) /\ m.near \in 0 .. Len(output)
      BY DEF PInv, FieldsAreRead, ParserTypeOK
<1>7. ASSUME NEW m \in messages, NEW i \in {m.id, m.near} \ {0}
      PROVE  /\ m.error <= i
             /\ \A k \in m.error + 1 .. i : ~(Has(k, "error")')
             /\ \A k \in m.error .. i - 1 : ~(Closing(k)')
  <2>1. i \in 1 .. Len(output) /\ m.error \in 1 .. Len(output)
        BY <1>6
  <2>2. /\ m.error <= i
        /\ \A k \in m.error + 1 .. i : ~Has(k, "error")
        /\ \A k \in m.error .. i - 1 : ~Closing(k)
        BY DEF FieldsFromOwnBlock, PInv
  <2>3. \A k \in 1 .. Len(output) : Closing(k)' <=> Closing(k)
        BY <1>1 DEF Closing
  <2>4. \A k \in m.error + 1 .. i : ~(Has(k, "error")')
        BY <1>1, <2>1, <2>2
  <2>5. \A k \in m.error .. i - 1 : ~(Closing(k)')
        BY <2>1, <2>2, <2>3
  <2>6. QED BY <2>2, <2>4, <2>5
<1>8. CASE message = NoMessage
  <2>1. current = NoMessage /\ "error" \notin line
    <3>1. Opened(line, n) \in Message \cup {NoMessage}
          BY DEF Opened, Message, PInv, ParserTypeOK
    <3>2. Opened(line, n) = NoMessage
      <4> SUFFICES ASSUME Opened(line, n) # NoMessage PROVE FALSE
          OBVIOUS
      <4>1. message \in Message
            BY <1>3, <3>1 DEF WithId, Message
      <4>2. QED BY <1>8, <4>1, MessageSentinel
    <3>3. "error" \notin line
      <4>1. [error |-> n, id |-> 0, near |-> 0] \in Message
            BY DEF Message
      <4>2. QED BY <3>2, <4>1, MessageSentinel DEF Opened
    <3>4. QED BY <3>2, <3>3 DEF Opened
  <2>2. current' = NoMessage /\ messages' = messages
        BY <1>0, <1>3, <1>8 DEF InMessage, Complete
  <2>3. \A i \in 1 .. n : ~(Pending(i)')
        BY <1>0, <1>1, <1>2, <2>1 DEF PInv, StateIsRead
  <2>4. \A i \in 1 .. n : Reported(i)' <=> i \in 1 .. Len(output) /\ Reported(i)
        BY <1>0, <1>1, <1>2, <2>1 DEF PInv, StateIsRead
  <2>5. StateIsRead'
        BY <1>1, <1>5, <2>2, <2>3 DEF StateIsRead
  <2>6. MessagesAreReported'
    <3>1. 1 .. Len(output) \subseteq 1 .. n
          BY <1>0, <1>1
    <3>2. {m.error : m \in messages'} = {i \in 1 .. Len(output) : Reported(i)}
          BY <2>2 DEF MessagesAreReported, PInv
    <3>3. {i \in 1 .. n : Reported(i)'} = {i \in 1 .. Len(output) : Reported(i)}
          BY <2>4, <3>1
    <3>4. QED BY <1>1, <3>2, <3>3 DEF MessagesAreReported
  <2>7. FieldsAreRead' /\ ParserTypeOK'
        BY <1>0, <1>1, <1>5, <1>6, <2>2 DEF FieldsAreRead, ParserTypeOK, PInv
  <2>8. FieldsFromOwnBlock'
        BY <1>7, <2>2 DEF FieldsFromOwnBlock
  <2>9. QED BY <2>5, <2>6, <2>7, <2>8 DEF PInv
<1>9. CASE message # NoMessage
  <2>1. /\ message \in Message /\ message.near = 0
        /\ message.error = IF "error" \in line THEN n ELSE current.error
        /\ message.error \in 1 .. n
        /\ message.id # 0 => message.id \in message.error .. n
    <3>1. CASE "error" \in line
      <4>1. Opened(line, n) = [error |-> n, id |-> 0, near |-> 0]
            BY <3>1 DEF Opened
      <4>2. QED BY <1>0, <1>1, <1>3, <3>1, <4>1 DEF WithId, Message
    <3>2. CASE "error" \notin line
      <4>1. Opened(line, n) = current /\ current # NoMessage /\ current \in Message
            BY <1>3, <1>9, <3>2 DEF Opened, WithId, PInv, ParserTypeOK
      <4>2. /\ current.error \in 1 .. Len(output) /\ current.near = 0
            /\ current.id # 0 => current.id \in current.error .. Len(output)
            BY <4>1 DEF PInv, StateIsRead
      <4>3. QED BY <1>0, <1>1, <1>3, <3>2, <4>1, <4>2 DEF WithId, Message
    <3>3. QED BY <3>1, <3>2
  <2>2. \A i \in 1 .. n :
           i = message.error <=>
              \/ i = n /\ "error" \in line
              \/ i # n /\ "error" \notin line /\ Pending(i)
    <3>1. CASE "error" \in line
      <4>1. message.error = n
            BY <2>1, <3>1
      <4>2. QED BY <3>1, <4>1
    <3>2. CASE "error" \notin line
      <4>1. current # NoMessage /\ Pending(current.error)
            /\ current.error \in 1 .. Len(output)
            BY <1>3, <1>9, <3>2 DEF Opened, WithId, PInv, StateIsRead
      <4>2. \A i \in 1 .. Len(output) : Pending(i) => i = current.error
            BY <1>1, <4>1 DEF Pending
      <4>3. QED BY <1>0, <1>1, <2>1, <3>2, <4>1, <4>2
    <3>3. QED BY <3>1, <3>2
  <2>3. /\ \A k \in message.error + 1 .. n : ~(Has(k, "error")')
        /\ \A k \in message.error .. n - 1 : ~(Closing(k)')
    <3>1. CASE "error" \in line
          BY <1>0, <1>1, <2>1, <3>1
    <3>2. CASE "error" \notin line
      <4>1. Pending(message.error) /\ message.error # n
            BY <1>0, <1>1, <2>1, <2>2, <3>2 DEF PInv, StateIsRead
      <4>2. QED BY <1>0, <1>1, <2>1, <3>2, <4>1 DEF Pending, Closing
    <3>3. QED BY <3>1, <3>2
  <2>5. CASE ends
    <3> DEFINE full == WithNear(message, line, n)
    <3>1. /\ full \in Message /\ full.error = message.error
          /\ full.id = message.id /\ full.near \in {0, n}
          BY <2>1 DEF WithNear, Message
    <3> HIDE DEF full
    <3>2. current' = NoMessage /\ messages' = messages \cup {full}
          BY <1>0, <1>3, <1>4, <1>9, <2>5 DEF InMessage, Complete, AfterEnd, full
    <3>3. \A i \in 1 .. n : ~(Pending(i)')
          BY <1>0, <1>1, <1>2, <2>5
    <3>4. \A i \in 1 .. n : Reported(i)' <=>
             (i \in 1 .. Len(output) /\ Reported(i)) \/ i = message.error
      <4>1. ASSUME NEW i \in 1 .. Len(output)
            PROVE  i # n /\ (Reported(i)' <=> Reported(i) \/ i = message.error)
        <5>1. i \in 1 .. n /\ i # n
              BY <1>0, <1>1
        <5>2. i = message.error <=> "error" \notin line /\ Pending(i)
              BY <2>2, <5>1
        <5>3. QED BY <1>2, <2>5, <5>1, <5>2
      <4>2. Reported(n)' <=> n = message.error
            BY <1>0, <1>2, <2>2, <2>5
      <4>3. n \notin 1 .. Len(output)
            BY <1>0, <1>1
      <4>4. QED BY <1>0, <1>1, <4>1, <4>2, <4>3
    <3>5. StateIsRead'
          BY <1>1, <1>5, <3>2, <3>3 DEF StateIsRead
    <3>6. MessagesAreReported'
      <4>1. {m.error : m \in messages'} = {m.error : m \in messages} \cup {message.error}
            BY <3>1, <3>2
      <4>2. {m.error : m \in messages} = {i \in 1 .. Len(output) : Reported(i)}
            BY DEF PInv, MessagesAreReported
      <4>3. \A i \in 1 .. n : i \in {m.error : m \in messages'} <=> Reported(i)'
            BY <1>0, <1>1, <3>4, <4>1, <4>2
      <4>4. {m.error : m \in messages'} \subseteq 1 .. n
        <5>1. 1 .. Len(output) \subseteq 1 .. n
              BY <1>0, <1>1
        <5>2. QED BY <2>1, <4>1, <4>2, <5>1
      <4>5. QED BY <1>1, <4>3, <4>4 DEF MessagesAreReported
    <3>7. FieldsAreRead' /\ ParserTypeOK'
          BY <1>0, <1>1, <1>5, <1>6, <2>1, <3>1, <3>2
             DEF FieldsAreRead, ParserTypeOK, PInv
    <3>8. FieldsFromOwnBlock'
      <4>1. \A i \in {full.id, full.near} \ {0} :
               full.error <= i /\ i <= n
            BY <1>0, <1>1, <2>1, <3>1
      <4>2. \A i \in {full.id, full.near} \ {0} :
               /\ full.error <= i
               /\ \A k \in full.error + 1 .. i : ~(Has(k, "error")')
               /\ \A k \in full.error .. i - 1 : ~(Closing(k)')
            BY <1>0, <1>1, <2>1, <2>3, <3>1, <4>1
      <4>3. QED BY <1>7, <3>2, <4>2 DEF FieldsFromOwnBlock
    <3>9. QED BY <3>5, <3>6, <3>7, <3>8 DEF PInv
  <2>6. CASE ~ends
    <3>1. current' = message /\ messages' = messages
          BY <1>0, <1>3, <1>4, <2>6 DEF InMessage, Complete
    <3>2. Pending(message.error)'
          BY <1>0, <1>1, <1>2, <2>1, <2>2, <2>6
    <3>3. \A i \in 1 .. n : Reported(i)' <=> i \in 1 .. Len(output) /\ Reported(i)
          BY <1>0, <1>1, <1>2, <2>6
    <3>4. StateIsRead'
          BY <1>1, <1>5, <1>9, <2>1, <3>1, <3>2 DEF StateIsRead
    <3>5. MessagesAreReported'
      <4>1. 1 .. Len(output) \subseteq 1 .. n
            BY <1>0, <1>1
      <4>2. {m.error : m \in messages'} = {i \in 1 .. Len(output) : Reported(i)}
            BY <3>1 DEF MessagesAreReported, PInv
      <4>3. {i \in 1 .. n : Reported(i)'} = {i \in 1 .. Len(output) : Reported(i)}
            BY <3>3, <4>1
      <4>4. QED BY <1>1, <4>2, <4>3 DEF MessagesAreReported
    <3>6. FieldsAreRead' /\ ParserTypeOK'
          BY <1>0, <1>1, <1>5, <1>6, <2>1, <3>1 DEF FieldsAreRead, ParserTypeOK, PInv
    <3>7. FieldsFromOwnBlock'
          BY <1>7, <3>1 DEF FieldsFromOwnBlock
    <3>8. QED BY <3>4, <3>5, <3>6, <3>7 DEF PInv
  <2>7. QED BY <2>5, <2>6
<1>10. QED BY <1>8, <1>9

(* Nothing is read at first. *)
LEMMA ParserInitHolds == ParserInit => PInv
<1> SUFFICES ASSUME ParserInit PROVE PInv
    OBVIOUS
<1>1. Len(output) = 0 /\ output = << >>
      BY DEF ParserInit
<1>2. FieldsAreRead /\ FieldsFromOwnBlock
      BY DEF ParserInit, FieldsAreRead, FieldsFromOwnBlock
<1>3. ParserTypeOK
  <2>1. output \in Seq(Line)
        BY <1>1
  <2>2. inMessage \in BOOLEAN /\ current \in Message \cup {NoMessage}
        BY DEF ParserInit
  <2>3. messages \subseteq Message
        BY DEF ParserInit
  <2>4. QED BY <2>1, <2>2, <2>3 DEF ParserTypeOK
<1>4. StateIsRead /\ MessagesAreReported
      BY <1>1 DEF ParserInit, StateIsRead, MessagesAreReported
<1>5. QED BY <1>2, <1>3, <1>4 DEF PInv

(* The inductive step: a line is in a message or in front of all. *)
LEMMA ParserStepKeeps ==
    PInv /\ [\E line \in Line : ParseLine(line)]_parserVars => PInv'
<1> SUFFICES ASSUME PInv, [\E line \in Line : ParseLine(line)]_parserVars
             PROVE  PInv'
    OBVIOUS
<1>1. ASSUME NEW line \in Line, ParseLine(line) PROVE PInv'
      BY <1>1, WaitKeeps, InMessageKeeps DEF ParseLine
<1>2. CASE UNCHANGED parserVars
      BY <1>2 DEF parserVars, PInv, ParserTypeOK, StateIsRead, FieldsAreRead,
         MessagesAreReported, FieldsFromOwnBlock, Pending, Reported, InFile, Closing, Has
<1>3. QED BY <1>1, <1>2

(* The invariant in terms of the lines holds for outputs of every length. *)
THEOREM ParserInvariant == ParserSpec => []PInv
<1>1. QED BY ParserInitHolds, ParserStepKeeps, PTL DEF ParserSpec

(* The messages are exactly the errors to report, whatever the tools print
   (engine_output_parser.py, 86-115). *)
THEOREM EveryErrorIsReported == ParserSpec => []MessagesAreReported
<1>1. PInv => MessagesAreReported
      BY DEF PInv
<1>2. QED BY <1>1, ParserInvariant, PTL

(* No message gets the id or the text of another block. *)
THEOREM NoForeignFields == ParserSpec => []FieldsFromOwnBlock
<1>1. PInv => FieldsFromOwnBlock
      BY DEF PInv
<1>2. QED BY <1>1, ParserInvariant, PTL

-------------------------------------------------------------------------------
(* Both parts together. *)

ReportTyped == error \in BOOLEAN /\ perlLines \subseteq 1 .. Len(output)

TextsInv == EInv /\ PInv /\ ReportTyped

(* Every step of the compile task is a step of each part, or none of it. *)
LEMMA TextsSteps ==
    ReportTyped /\ [TextsNext]_textsVars =>
        [ExportNext]_exportVars /\ [\E line \in Line : ParseLine(line)]_parserVars
<1> SUFFICES ASSUME ReportTyped, [TextsNext]_textsVars
             PROVE  [ExportNext]_exportVars
                    /\ [\E line \in Line : ParseLine(line)]_parserVars
    OBVIOUS
<1>1. CASE Preprocess
      BY <1>1 DEF Preprocess, ExportNext, ReportTyped
<1>2. CASE \E line \in Line : Report(line)
      BY <1>2 DEF Report
<1>3. CASE NextTool
      BY <1>3 DEF NextTool
<1>4. CASE UNCHANGED textsVars
      BY <1>4 DEF textsVars
<1>5. QED BY <1>1, <1>2, <1>3, <1>4 DEF TextsNext

(* The inductive step of the composition. *)
LEMMA TextsStepKeeps == TextsInv /\ [TextsNext]_textsVars => TextsInv'
<1> SUFFICES ASSUME TextsInv, [TextsNext]_textsVars PROVE TextsInv'
    OBVIOUS
<1>1. EInv' /\ PInv'
      BY TextsSteps, ExportStepKeeps, ParserStepKeeps DEF TextsInv
<1>2. ReportTyped'
  <2>1. CASE \E line \in Line : Report(line)
        BY <2>1, LineAppended DEF TextsInv, PInv, ReportTyped, Report, ParseLine
  <2>2. CASE UNCHANGED <<error, perlLines, output>>
        BY <2>2 DEF TextsInv, ReportTyped
  <2>3. QED BY <2>1, <2>2 DEF TextsNext, Preprocess, NextTool, textsVars,
               parserVars, reportVars
<1>3. QED BY <1>1, <1>2 DEF TextsInv

-------------------------------------------------------------------------------

(* The inductive invariants of both parts hold of the composition. *)
THEOREM TextsInvariant == TextsSpec => []TextsInv
<1>1. TextsInit => TextsInv
  <2> SUFFICES ASSUME TextsInit PROVE TextsInv
      OBVIOUS
  <2>1. Len(output) = 0
        BY DEF TextsInit, ParserInit
  <2>2. ReportTyped
        BY <2>1 DEF TextsInit, ReportTyped
  <2>3. QED BY <2>2, ExportInitHolds, ParserInitHolds DEF TextsInit, TextsInv
<1>2. QED BY <1>1, TextsStepKeeps, PTL DEF TextsSpec

(* The compile task implements the export of dictionaries: what happens between
   its steps and after them leaves the export alone. *)
THEOREM TextsImplementExport == TextsSpec => ExportSpec
<1>1. TextsInit => ExportInit
      BY DEF TextsInit
<1>2. TextsInv /\ [TextsNext]_textsVars => [ExportNext]_exportVars
      BY TextsSteps DEF TextsInv
<1>3. QED BY <1>1, <1>2, TextsInvariant, PTL DEF TextsSpec, ExportSpec

(* It implements the parser, on the joined outputs of all tools. *)
THEOREM TextsImplementParser == TextsSpec => ParserSpec
<1>1. TextsInit => ParserInit
      BY DEF TextsInit
<1>2. TextsInv /\ [TextsNext]_textsVars =>
         [\E line \in Line : ParseLine(line)]_parserVars
      BY TextsSteps DEF TextsInv
<1>3. QED BY <1>1, <1>2, TextsInvariant, PTL DEF TextsSpec, ParserSpec

(* The variables of both parts have their types. *)
THEOREM TextsTyped == TextsSpec => []TypeOK
<1>1. TextsInv => TypeOK
      BY DEF TextsInv, EInv, PInv, TypeOK
<1>2. QED BY <1>1, TextsInvariant, PTL

===============================================================================
