------------------------------ MODULE MCEntry ------------------------------
(* Two test processes, with configurations that differ in the blanks, the  *)
(* characters and the fields that the entry point looks at.                *)
EXTENDS Entry
CONSTANTS t1, t2

Word(text) == [text |-> text, padded |-> FALSE]
Padded(text) == [text |-> text, padded |-> TRUE]
Container(name, starts) == [name |-> name, starts |-> starts]
Setting(project, runtime, token, registrations) ==
    [project |-> project, runtime |-> runtime, token |-> token,
     registrations |-> registrations, addr |-> Word(<<"addr">>),
     httpTimeout |-> 1, idleTTL |-> 1, registers |-> "ok"]

One == <<Container(Word(<<"x">>), TRUE)>>
OK == Setting(Word(<<"p">>), Empty, Empty, One)

MCSettings ==
    {[OK EXCEPT !.project = name] :
        name \in {Empty, Padded(<<>>), Padded(<<"p">>), Word(<<"q">>),
                  Word(<<"p", "/", "q">>), Word(<<"p", "_", "q">>)}}
    \union {[OK EXCEPT !.runtime = runtime] :
        runtime \in {Empty, Padded(<<>>), Padded(<<"root", "x">>), Word(<<"x">>)}}
    \union {[OK EXCEPT !.token = token] :
        token \in {Word(<<"s">>), Padded(<<"s">>), Padded(<<>>)}}
    \union {[OK EXCEPT !.registrations = registrations] :
        registrations \in {
            <<>>, <<Container(Padded(<<>>), TRUE)>>, <<Container(Word(<<"x">>), FALSE)>>,
            <<Container(Word(<<"x">>), TRUE), Container(Padded(<<"x">>), TRUE)>>,
            <<Container(Word(<<"x">>), TRUE), Container(Padded(<<"y">>), TRUE)>>}}
    \union {[OK EXCEPT !.addr = Padded(<<>>)],
            [OK EXCEPT !.httpTimeout = 0], [OK EXCEPT !.idleTTL = 0],
            [OK EXCEPT !.registers = "nil"], [OK EXCEPT !.registers = "error"]}

MCEnvironments ==
    {[mode |-> "none", runtime |-> Empty],
     [mode |-> "none", runtime |-> Word(<<"root", "old">>)],
     [mode |-> "daemon", runtime |-> Padded(<<>>)],
     [mode |-> "daemon", runtime |-> Padded(<<"root", "x">>)]}
=============================================================================
