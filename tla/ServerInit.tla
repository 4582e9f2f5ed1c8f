----------------------------- MODULE ServerInit -----------------------------
(***************************************************************************)
(* Server::init (server.cc) on the main thread: the configuration file is  *)
(* parsed, ConfigHandler::handle_config turns its statements into          *)
(* config_opts, and a handler is made for every prefix.                    *)
(*                                                                         *)
(* The file is read piece by piece, each any of Fragments: what is not     *)
(* read yet is not chosen yet.                                             *)
(***************************************************************************)
EXTENDS ConfigParser, Functions

CONSTANTS
  Fragments,     \* pieces of configuration files (sequences of characters)
  MaxFragments,  \* bound: pieces of a file
  Number,        \* the letters that are numerals, and their values
  TooLarge,      \* the numerals beyond the range of int
  Slashed        \* the letters that end in "/"

ASSUME FragmentsAssumption == Fragments \subseteq Seq(STRING)
ASSUME MaxFragmentsAssumption == MaxFragments \in Nat
ASSUME NumberAssumption == Number \in [DOMAIN Number -> Nat]

MAX_PORT == 65535

\* The kinds of handlers a path may name, in the order init makes them.
Kinds == <<"EchoHandler", "StatusHandler", "StaticHandler", "PythonHandler", "ProxyHandler">>

WithBlock == {"StaticHandler", "PythonHandler", "ProxyHandler"}

\* Keys of the handlers map that init sets after those of the file.
Reserved == { <<"ErrorHandler">>, <<"/DbHandler">> }

VARIABLES
  length,     \* pieces read
  parser,
  phase,      \* "parsing", "handling", "making", "running", "failed"
  todo,       \* the calls of handle_statements in progress, innermost last:
              \* the numbers of the statements each has left
  opts,       \* config_opt
  check_duplicate_path,
  handlers,   \* kind and configuration of the handler under each prefix
  handler_to_uri  \* of ServerStatus

vars == <<length, parser, phase, todo, opts, check_duplicate_path, handlers,
          handler_to_uri>>

Init ==
  /\ length = 0
  /\ parser = ParserStart
  /\ phase = "parsing"
  /\ todo = <<>>
  /\ opts = [port |-> <<"8080">>, threads |-> 10, paths |-> [k \in Range(Kinds) |-> <<>>]]
  /\ check_duplicate_path = {}
  /\ handlers = [u \in {} |-> u]
  /\ handler_to_uri = [k \in Range(Kinds) |-> <<>>]

-----------------------------------------------------------------------------
(***************************************************************************)
(* NginxConfigParser::Parse.                                               *)
(***************************************************************************)
ReadFragment ==
  /\ phase = "parsing" /\ ~parser.error /\ length < MaxFragments
  /\ \E f \in Fragments : parser' = Parse(parser, f)
  /\ length' = length + 1
  /\ UNCHANGED <<phase, todo, opts, check_duplicate_path, handlers, handler_to_uri>>

EndOfFile ==
  /\ phase = "parsing"
  /\ IF Accepts(parser)
       THEN phase' = "handling" /\ todo' = <<Block(parser, TopBlock)>>
       ELSE phase' = "failed" /\ UNCHANGED todo
  /\ UNCHANGED <<length, parser, opts, check_duplicate_path, handlers, handler_to_uri>>

-----------------------------------------------------------------------------
(***************************************************************************)
(* ConfigHandler::handle_statements: one action for each kind of           *)
(* statement, and for the end of a block.  What it refuses, or throws for, *)
(* ends init and main.                                                     *)
(***************************************************************************)
Handling == phase = "handling" /\ Last(todo) # {}
Current == parser.statements[Min(Last(todo))]
Start == Current.tokens[1]

\* todo with the current statement done.
Rest == [todo EXCEPT ![Len(todo)] = @ \ {Min(@)}]

Refuse ==
  /\ phase' = "failed"
  /\ UNCHANGED <<length, parser, todo, opts, check_duplicate_path, handlers, handler_to_uri>>

Accept(o) ==
  /\ opts' = o
  /\ todo' = Rest
  /\ UNCHANGED <<length, parser, phase, handlers, handler_to_uri>>

\* stoi takes the number a word begins with, lexical_cast a whole word.
stoi(word) == IF word[1] \in DOMAIN Number THEN Number[word[1]] ELSE MAX_PORT + 1
lexical_cast(word) ==
  IF Len(word) = 1 /\ word[1] \in DOMAIN Number THEN Number[word[1]] ELSE 0

ValidPort == Len(Current.tokens) = 2 /\ stoi(Current.tokens[2]) <= MAX_PORT

HandlePort ==
  /\ Handling /\ Start = <<"port">>
  /\ \/ /\ ValidPort
        /\ Accept([opts EXCEPT !.port = Current.tokens[2]])
        /\ UNCHANGED check_duplicate_path
     \/ ~ValidPort /\ Refuse

\* Mutant: zero is a number of threads.
ValidThread_Zero ==
  /\ Len(Current.tokens) = 2
  /\ Len(Current.tokens[2]) = 1 /\ Current.tokens[2][1] \in DOMAIN Number

ValidThread == Len(Current.tokens) = 2 /\ lexical_cast(Current.tokens[2]) > 0

HandleThread ==
  /\ Handling /\ Start = <<"thread">>
  /\ \/ /\ ValidThread
        /\ Accept([opts EXCEPT !.threads = lexical_cast(Current.tokens[2])])
        /\ UNCHANGED check_duplicate_path
     \/ ~ValidThread /\ Refuse

EndsInSlash(word) == Last(word) \in Slashed

\* Mutant: paths may be repeated.
ValidPath_Again(s) ==
  /\ Len(s.tokens) = 3
  /\ EndsInSlash(s.tokens[2]) => s.tokens[2] = <<"/">>
  /\ s.tokens[3] = <<"EchoHandler">> => s.child = NoBlock
  /\ \A k \in WithBlock : s.tokens[3] = <<k>> => s.child # NoBlock

ValidPath(s) ==
  /\ Len(s.tokens) = 3
  /\ s.tokens[2] \notin check_duplicate_path
  /\ EndsInSlash(s.tokens[2]) => s.tokens[2] = <<"/">>
  /\ s.tokens[3] = <<"EchoHandler">> => s.child = NoBlock
  /\ \A k \in WithBlock : s.tokens[3] = <<k>> => s.child # NoBlock

\* The block of the statement, for the handlers that are given one: those of
\* the other kinds get an empty NginxConfig.
ConfigBlock(s) == IF \E k \in WithBlock : s.tokens[3] = <<k>> THEN s.child ELSE NoBlock

\* A path of no known handler is taken and has no effect.
HandlePath ==
  /\ Handling /\ Start = <<"path">>
  /\ \/ /\ ValidPath(Current)
        /\ check_duplicate_path' = check_duplicate_path \cup {Current.tokens[2]}
        /\ Accept([opts EXCEPT !.paths =
             [k \in DOMAIN @ |->
                IF Current.tokens[3] # <<k>> THEN @[k]
                ELSE Append(@[k], [prefix |-> Current.tokens[2], block |-> ConfigBlock(Current)])]])
     \/ ~ValidPath(Current) /\ Refuse

\* Mutant: the statements of the block are not looked at.
HandleServer_Skips ==
  /\ Handling /\ Start = <<"server">>
  /\ \/ /\ Current.child # NoBlock
        /\ Accept(opts)
        /\ UNCHANGED check_duplicate_path
     \/ Current.child = NoBlock /\ Refuse

HandleServer ==
  /\ Handling /\ Start = <<"server">>
  /\ \/ /\ Current.child # NoBlock
        /\ todo' = Append(Rest, Block(parser, Current.child))
        /\ UNCHANGED <<length, parser, phase, opts, check_duplicate_path, handlers,
                       handler_to_uri>>
     \/ Current.child = NoBlock /\ Refuse

HandleOther ==
  /\ Handling /\ Start \notin {<<"port">>, <<"path">>, <<"server">>, <<"thread">>}
  /\ Refuse

EndStatements ==
  /\ phase = "handling" /\ Last(todo) = {}
  /\ todo' = Front(todo)
  /\ phase' = IF Len(todo) = 1 THEN "making" ELSE "handling"
  /\ UNCHANGED <<length, parser, opts, check_duplicate_path, handlers, handler_to_uri>>

-----------------------------------------------------------------------------
(***************************************************************************)
(* The Init methods of the handlers: what they ask of their block.         *)
(***************************************************************************)
Tokens(n) == parser.statements[n].tokens

\* The statements of block b that begin with that word.
Named(b, letter) == {n \in Block(parser, b) : Tokens(n)[1] = <<letter>>}

AllPairs(statements) == \A n \in statements : Len(Tokens(n)) = 2
Digits(word) == \A i \in DOMAIN word : word[i] \in DOMAIN Number \cup TooLarge

ValidRoot(b) ==
  LET roots == Named(b, "root")
  IN  /\ Cardinality(roots) <= 1 /\ AllPairs(roots)
      /\ \A n \in roots : ~EndsInSlash(Tokens(n)[2])

HandlerInit(kind, b) ==
  CASE kind \in {"EchoHandler", "StatusHandler"} -> TRUE
    [] kind = "StaticHandler" -> ValidRoot(b)
    [] kind = "PythonHandler" ->
         /\ ValidRoot(b) /\ Named(b, "root") # {}
         /\ Cardinality(Named(b, "func")) = 1 /\ AllPairs(Named(b, "func"))
    [] kind = "ProxyHandler" ->
         /\ Named(b, "host") # {} /\ AllPairs(Named(b, "host"))
         /\ Named(b, "port") # {} /\ AllPairs(Named(b, "port"))
         /\ \A n \in Named(b, "port") : Digits(Tokens(n)[2])

(***************************************************************************)
(* Server::init after the configuration.                                   *)
(***************************************************************************)
\* handlers with the key u set.
Set(u, handler) ==
  [v \in DOMAIN handlers \cup {u} |-> IF v = u THEN handler ELSE handlers[v]]

\* The prefixes of kind k that have no handler yet.
Left(k) == Len(opts.paths[k]) - Len(handler_to_uri[k])

\* Mutant: the index of the loop is forgotten.
Listed_First(k, u) ==
  [handler_to_uri EXCEPT ![k] = Append(@, opts.paths[k][1].prefix)]

\* addHandlerToUri.
Listed(k, u) == [handler_to_uri EXCEPT ![k] = Append(@, u)]

\* The next handler of the first kind that has prefixes left.
MakeHandler ==
  \E i \in DOMAIN Kinds :
    LET k == Kinds[i]
        path == opts.paths[k][Len(handler_to_uri[k]) + 1]
    IN  /\ phase = "making"
        /\ Left(k) > 0 /\ \A j \in 1..(i - 1) : Left(Kinds[j]) = 0
        /\ handlers' = Set(path.prefix, [kind |-> k, block |-> path.block])
        /\ \/ /\ HandlerInit(k, path.block)
              /\ handler_to_uri' = Listed(k, path.prefix)
              /\ UNCHANGED phase
           \/ /\ ~HandlerInit(k, path.block)
              /\ phase' = "failed"
              /\ UNCHANGED handler_to_uri
        /\ UNCHANGED <<length, parser, todo, opts, check_duplicate_path>>

\* The resolver throws for a port that is no number ("80x").
PortResolves == Digits(opts.port)

\* ErrorHandler and DbHandler, then the socket: bind may fail too.
Listen ==
  /\ phase = "making" /\ \A k \in Range(Kinds) : Left(k) = 0
  /\ handlers' = [u \in DOMAIN handlers \cup Reserved |->
                    IF u = <<"ErrorHandler">> THEN [kind |-> "ErrorHandler", block |-> NoBlock]
                    ELSE IF u = <<"/DbHandler">> THEN [kind |-> "DbHandler", block |-> NoBlock]
                    ELSE handlers[u]]
  /\ phase' \in {"failed"} \cup (IF PortResolves THEN {"running"} ELSE {})
  /\ UNCHANGED <<length, parser, todo, opts, check_duplicate_path, handler_to_uri>>

-----------------------------------------------------------------------------
HandleStatement ==
  \/ HandlePort \/ HandleThread \/ HandlePath \/ HandleServer \/ HandleOther
  \/ EndStatements

Next == ReadFragment \/ EndOfFile \/ HandleStatement \/ MakeHandler \/ Listen

Spec == Init /\ [][Next]_vars

-----------------------------------------------------------------------------
(***************************************************************************)
(* Properties.                                                             *)
(***************************************************************************)
IsStatement(s) ==
  /\ s.block \in 1..parser.blocks /\ s.tokens # <<>>
  /\ s.child \in {NoBlock} \cup 2..parser.blocks

\* The type invariant.
TypeOK ==
  /\ length \in 0..MaxFragments
  /\ \A i \in DOMAIN parser.statements : IsStatement(parser.statements[i])
  /\ parser.stack # <<>> /\ Range(parser.stack) \subseteq 1..parser.blocks
  /\ phase \in {"parsing", "handling", "making", "running", "failed"}
  /\ \A i \in DOMAIN todo : todo[i] \subseteq DOMAIN parser.statements
  /\ opts.threads \in Nat \ {0} /\ opts.port # <<>>
  /\ \A k \in Range(Kinds) : Left(k) \in Nat

\* Printing what Parse has built gives back the tokens it was given, comments
\* and white space apart: every word is in its statement and every statement in
\* its block, however blocks are nested and follow each other.
PrintsBack == phase = "handling" => Serialized(parser) = parser.tokens

\* The blocks that count: the top, and server blocks in blocks that count.
ServerBlocks(p) ==
  {b \in 1..p.blocks :
     \A S \in SUBSET (1..p.blocks) :
       /\ TopBlock \in S
       /\ \A s \in Range(p.statements) :
            s.block \in S /\ s.tokens[1] = <<"server">> /\ s.child # NoBlock => s.child \in S
       => b \in S}

\* The statements in these that begin with that word.
Declared(letter) ==
  {n \in DOMAIN parser.statements :
     parser.statements[n].block \in ServerBlocks(parser) /\ Tokens(n)[1] = <<letter>>}

\* The server runs with what the file says: every path of a known handler has
\* that handler, with its own block if it is of a kind that takes one, nothing
\* else has one but the reserved keys, and the last port and thread statements
\* in the text hold.
RunsAsConfigured ==
  phase = "running" =>
    LET paths == {n \in Declared("path") : \E k \in Range(Kinds) : Tokens(n)[3] = <<k>>}
    IN  /\ DOMAIN handlers = Reserved \cup {Tokens(n)[2] : n \in paths}
        /\ \A n \in paths : Tokens(n)[2] \notin Reserved =>
             handlers[Tokens(n)[2]] =
               [kind |-> Tokens(n)[3][1],
                block |-> IF Tokens(n)[3][1] \in WithBlock
                            THEN parser.statements[n].child ELSE NoBlock]
        /\ opts.port = IF Declared("port") = {} THEN <<"8080">>
                       ELSE Tokens(Max(Declared("port")))[2]
        /\ opts.threads = IF Declared("thread") = {} THEN 10
                          ELSE lexical_cast(Tokens(Max(Declared("thread")))[2])

\* The status page lists exactly the prefixes of the handlers there are, under
\* their kinds; a path "/DbHandler" of the file is listed and not served.
ListsHandlers ==
  phase = "running" =>
    \A u \in DOMAIN handlers \ Reserved, k \in Range(Kinds) :
      u \in Range(handler_to_uri[k]) <=> handlers[u].kind = k

\* No handler is replaced by another one, but for the reserved prefixes: the
\* same path is refused across blocks and kinds.
HandlersStay ==
  [][\A u \in DOMAIN handlers \ Reserved :
       u \in DOMAIN handlers' /\ handlers'[u] = handlers[u]]_vars
=============================================================================
