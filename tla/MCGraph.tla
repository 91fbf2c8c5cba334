------------------------------- MODULE MCGraph -------------------------------
(***************************************************************************)
(* A TypeScript project of three files in two build units: a and b import  *)
(* from each other, and sub/c, of a unit of its own, from a.  Of each file *)
(* there are two texts; in the second one other definitions stand at the   *)
(* bytes of the first, and that of sub/c does not parse.                   *)
(***************************************************************************)
EXTENDS Engine

a == [dir |-> <<>>, stem |-> "a", lang |-> "typescript"]
b == [dir |-> <<>>, stem |-> "b", lang |-> "typescript"]
c == [dir |-> <<"sub">>, stem |-> "c", lang |-> "typescript"]
Files == {a, b, c}

Def(kind, name, start, stop, body) ==
    [kind |-> kind, name |-> name, start |-> start, stop |-> stop, body |-> body, binds |-> ""]
Call(name, site) ==
    [kind |-> "CALLS", name |-> name, site |-> site, member |-> FALSE, receiver |-> ""]
MemberCall(receiver, name, site) ==
    [kind |-> "CALLS", name |-> name, site |-> site, member |-> TRUE, receiver |-> receiver]
Import(dots, segs, symbol, alias) ==
    [dots |-> dots, segs |-> segs, symbol |-> symbol, alias |-> alias]

\* import {close, help} from './b'; import * as b from './b'
\* class K { open() { close() }  close() { this.open() } }
\* function run() { help() }
A1 == [parses |-> TRUE,
       defs |-> <<Def("class", "K", 1, 2, 20), Def("function", "open", 3, 4, 10),
                  Def("function", "close", 11, 12, 18), Def("function", "run", 21, 22, 30)>>,
       refs |-> {Call("close", 5), MemberCall("this", "open", 13), Call("help", 23)},
       imports |-> <<Import(1, <<"b">>, "close", ""), Import(1, <<"b">>, "help", ""),
                     Import(1, <<"b">>, "", "b")>>]

\* import * as b from './b'
\* function close() { close() }   class K { run() { b.close() } }
A2 == [parses |-> TRUE,
       defs |-> <<Def("function", "close", 1, 2, 12), Def("class", "K", 13, 14, 30),
                  Def("function", "run", 15, 16, 20)>>,
       refs |-> {Call("close", 5), MemberCall("b", "close", 17)},
       imports |-> <<Import(1, <<"b">>, "", "b"), Import(1, <<"b">>, "", "")>>]

\* import {run} from './a'
\* function help() { run() }   function close() { help() }   class I { }
B1 == [parses |-> TRUE,
       defs |-> <<Def("function", "help", 1, 2, 10), Def("function", "close", 11, 12, 20),
                  Def("class", "I", 21, 22, 30)>>,
       refs |-> {Call("run", 5), Call("help", 13)},
       imports |-> <<Import(1, <<"a">>, "run", "")>>]

\* function close() { open() }   function help() { }   class I { }
B2 == [parses |-> TRUE,
       defs |-> <<Def("function", "close", 1, 2, 10), Def("function", "help", 11, 12, 20),
                  Def("class", "I", 21, 22, 30)>>,
       refs |-> {Call("open", 5)},
       imports |-> <<>>]

\* import {run} from '../a'
\* function help() { run(); x.close() }   const I = class I { }   close()
\* class { {}        the parser puts in two names of no bytes
C1 == [parses |-> TRUE,
       defs |-> <<Def("function", "help", 1, 2, 10), Def("class", "I", 11, 13, 20),
                  Def("class", "I", 12, 13, 20), Def("class", "", 25, 25, 30),
                  Def("function", "", 25, 25, 28)>>,
       refs |-> {Call("run", 3), MemberCall("x", "close", 5), Call("close", 21)},
       imports |-> <<Import(2, <<"a">>, "run", "")>>]

C2 == [parses |-> FALSE, defs |-> <<>>, refs |-> {}, imports |-> <<>>]

MCText == (a :> <<A1, A2>>) @@ (b :> <<B1, B2>>) @@ (c :> <<C1, C2>>)

Sym(symbol, start, stop) == [symbol |-> symbol, start |-> start, stop |-> stop]
Use(site, symbol) == [site |-> site, symbol |-> symbol]

\* The compiler knows that `close()` inside a method is the imported function,
\* and it also names things that are no calls.
DocA1 == [defs |-> {Sym(<<"a", "K">>, 1, 2), Sym(<<"a", "K", "open">>, 3, 4),
                    Sym(<<"a", "K", "close">>, 11, 12), Sym(<<"a", "run">>, 21, 22)},
          refs |-> {Use(5, <<"b", "close">>), Use(7, <<"b", "close">>),
                    Use(13, <<"a", "K", "open">>), Use(23, <<"b", "help">>)},
          implements |-> {<<<<"a", "K">>, <<"b", "I">>>>}]
DocA2 == [defs |-> {Sym(<<"a", "close">>, 1, 2), Sym(<<"a", "K">>, 13, 14),
                    Sym(<<"a", "K", "run">>, 15, 16)},
          refs |-> {Use(5, <<"a", "close">>), Use(17, <<"b", "close">>)},
          implements |-> {}]
DocB1 == [defs |-> {Sym(<<"b", "help">>, 1, 2), Sym(<<"b", "close">>, 11, 12),
                    Sym(<<"b", "I">>, 21, 22)},
          refs |-> {Use(5, <<"a", "run">>), Use(5, <<"a", "K">>), Use(13, <<"b", "help">>)},
          implements |-> {}]
DocB2 == [defs |-> {Sym(<<"b", "close">>, 1, 2), Sym(<<"b", "help">>, 11, 12),
                    Sym(<<"b", "I">>, 21, 22)},
          refs |-> {Use(5, <<"a", "K", "open">>)},
          implements |-> {}]
DocC1 == [defs |-> {Sym(<<"c", "help">>, 1, 2), Sym(<<"c", "I">>, 12, 13)},
          refs |-> {Use(3, <<"a", "run">>)},
          implements |-> {}]
DocC2 == [defs |-> {}, refs |-> {}, implements |-> {}]

MCDocument == (a :> <<DocA1, DocA2>>) @@ (b :> <<DocB1, DocB2>>) @@ (c :> <<DocC1, DocC2>>)

\* scip-typescript sets no kinds.
NoKinds == [s \in {} |-> "class"]

MCMarked == {<<"sub">>, <<>>, <<"node_modules">>}

\* The root comes first, and then the other two by their names.
MCBefore(d, e) == Len(d) < Len(e) \/ <<d, e>> = <<<<"node_modules">>, <<"sub">>>>

MCLower == [s \in {"App", "Model"} |-> IF s = "App" THEN "app" ELSE "model"]

\* Files of four spellings, under build directories and not.
MCFiles ==
    LET dirs == {<<>>, <<"app">>, <<"app", "core">>, <<"src">>, <<"src", "app">>,
                 <<"src", "main">>, <<"src", "main", "java", "app">>, <<"App">>,
                 <<"app", "index">>}
        stems(lang) == CASE lang = "python" -> {"__init__", "one", "lib", "java", "index"}
                         [] lang = "java" -> {"Model"}
                         [] lang = "go" -> {"one"}
                         [] lang = "php" -> {"Model"}
                         [] OTHER -> {"index", "one"}
    IN  UNION {[dir : dirs, stem : stems(lang), lang : {lang}] :
                  lang \in {"python", "java", "go", "php", "tsx"}}

\* Replies of a daemon with two projects.
MCBodies ==
    {NoReply} \cup {Reply(rows, depth, alive) :
                       rows \in [{"p", "q"} -> [enabled : BOOLEAN, last_error : BOOLEAN]],
                       depth \in {0, Stuck, Stuck + 1}, alive \in BOOLEAN}

MCHits == {Gone, <<>>, <<"x">>, <<"x", "y">>}
=============================================================================
