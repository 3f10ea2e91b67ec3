---------------------------- MODULE MCCollections ----------------------------
(***************************************************************************)
(* Two forms: controls that share a name, a list of several among them;    *)
(* and submit buttons beside controls that do not count.                   *)
(***************************************************************************)
EXTENDS Collections

CONSTANTS k1, k2, t1, t2

Control(name, kind, texts) ==
    [name |-> name, kind |-> kind, disabled |-> FALSE, texts |-> texts,
     chosen |-> IF kind \in {"text", "submit", "file"} THEN {1} ELSE {}]

MCForms ==
    {<<Control(k1, "checkbox", <<t1>>), Control(k1, "checkbox", <<EmptyText>>),
       Control(k1, "text", <<t2>>), Control(k1, "select-multiple", <<t1, t2>>),
       Control(k2, "select-one", <<t2, t1>>)>>,
     <<Control(k1, "submit", <<t1>>), Control(k2, "submit", <<t2>>), Control(k2, "text", <<t2>>),
       Control(k1, "file", <<t1>>), Control(k1, "label", <<t1>>), Control(EmptyKey, "text", <<t1>>),
       Control(k2, "checkbox", <<t1>>)>>}
MCKeys == {k1, k2, EmptyKey}
MCTexts == {t1, t2}
=============================================================================
