--------------------------- MODULE RouteCommands ---------------------------
(***************************************************************************)
(* Route commands: the line parser of src/route/parser.rs and the          *)
(* definition it produces (src/route/definition.rs).                       *)
(*                                                                         *)
(* A line is the sequence of its tokens; a comment, a blank line and a     *)
(* line with an unterminated quote have none.  What a token stands for as  *)
(* a source, a weight, a list of tags or a list of options is given by the *)
(* functions below, so tokens are never taken apart here.                  *)
(***************************************************************************)
EXTENDS Integers, FiniteSetsExt, FiniteSets, Sequences

CONSTANTS
    HostOf,     \* source token |-> its host, as written
    PathOf,     \* source token |-> its path without the leading slash
    WeightOf,   \* tokens that parse as an f64 |-> weight in units of 1/Unit
    TagsOf,     \* tag-list token |-> the set of its tags
    OptsOf,     \* option-list token |-> function from option to value
    Unit,       \* the weight 1.0
    MAX_WEIGHT  \* the greatest weight of a line (1000.0 in the code)

(* A word that is left out; as a host, the one that stands for any other. *)
Blank == ""

ASSUME CommandsAssumption ==
    /\ Unit \in Nat \ {0} /\ MAX_WEIGHT \in Nat /\ MAX_WEIGHT >= Unit /\ DOMAIN HostOf = DOMAIN PathOf
    /\ Blank \notin DOMAIN WeightOf /\ \A w \in DOMAIN WeightOf : WeightOf[w] \in Nat
    /\ \A x \in DOMAIN OptsOf : OptsOf[x] = [o \in DOMAIN OptsOf[x] |-> OptsOf[x][o]]

NoDef == [cmd |-> "none"]

(***************************************************************************)
(* The positions at which the option loops look for a keyword, from        *)
(* `first' on.  A keyword in `keys' takes the next token as its argument,  *)
(* a keyword too: in a row of them every second one is an argument.        *)
(***************************************************************************)
KeywordPositions(tokens, first, keys) ==
    LET RowStart(i) == Min({k \in first .. i : \A j \in k .. i - 1 : tokens[j] \in keys})
    IN {i \in first .. Len(tokens) : (i - RowStart(i)) % 2 = 0}

(* Arguments of a keyword: positions of the tokens that follow it. *)
Arguments(tokens, first, keys, key) ==
    {i + 1 : i \in {k \in KeywordPositions(tokens, first, keys) :
                        tokens[k] = key /\ k < Len(tokens)}}

(* A weight that is no number, not finite or out of range is skipped. *)
Weights == {w \in DOMAIN WeightOf : WeightOf[w] <= MAX_WEIGHT}

ParseWeight(tokens, first, keys) ==
    LET valid == {i \in Arguments(tokens, first, keys, "weight") : tokens[i] \in Weights}
    IN IF valid = {} THEN 0 ELSE WeightOf[tokens[Max(valid)]]

ParseTags(tokens, first, keys) ==
    LET args == Arguments(tokens, first, keys, "tags")
    IN IF args = {} THEN {} ELSE TagsOf[tokens[Max(args)]]

(* Option lists add up; a later value of the same option wins. *)
ParseOpts(tokens, first, keys) ==
    LET args == Arguments(tokens, first, keys, "opts")
        Setting(o) == {i \in args : o \in DOMAIN OptsOf[tokens[i]]}
    IN [o \in UNION {DOMAIN OptsOf[tokens[i]] : i \in args} |-> OptsOf[tokens[Max(Setting(o))]][o]]

NoOpts == [o \in {} |-> Blank]

parse_route_add(tokens) ==
    LET keys == {"weight", "tags", "opts"}
    IN IF Len(tokens) < 5 THEN NoDef
       ELSE [cmd |-> "add", service |-> tokens[3], src |-> tokens[4],
             dst |-> tokens[5], weight |-> ParseWeight(tokens, 6, keys),
             tags |-> ParseTags(tokens, 6, keys),
             opts |-> ParseOpts(tokens, 6, keys)]

(* `route del' needs a service or tags: it can never remove everything. *)
parse_route_del(tokens) ==
    LET service == IF tokens[3] = "tags" THEN Blank ELSE tokens[3]
        first == IF service = Blank THEN 3 ELSE 4
        tags == ParseTags(tokens, first, {"tags"})
        places == {i \in KeywordPositions(tokens, first, {"tags"}) : tokens[i] # "tags"}
        FirstOf(at) == IF at = {} THEN Blank ELSE tokens[Min(at)]
    IN IF service = Blank /\ tags = {} THEN NoDef
       ELSE [cmd |-> "del", service |-> service, src |-> FirstOf(places),
             dst |-> FirstOf({i \in places : i > Min(places)}),
             weight |-> 0, tags |-> tags, opts |-> NoOpts]

(* With `weight' as the fourth word the service is left out. *)
parse_route_weight(tokens) ==
    LET keys == {"weight", "tags"}
        named == Len(tokens) > 3 /\ tokens[4] # "weight"
        first == IF named THEN 5 ELSE 4
    IN IF Len(tokens) < 4 THEN NoDef
       ELSE [cmd |-> "weight", service |-> IF named THEN tokens[3] ELSE Blank,
             src |-> IF named THEN tokens[4] ELSE tokens[3], dst |-> Blank,
             weight |-> ParseWeight(tokens, first, keys),
             tags |-> ParseTags(tokens, first, keys), opts |-> NoOpts]

parse_line(tokens) ==
    IF Len(tokens) < 3 \/ tokens[1] # "route" THEN NoDef
    ELSE CASE tokens[2] = "add" -> parse_route_add(tokens)
           [] tokens[2] = "del" -> parse_route_del(tokens)
           [] tokens[2] = "weight" -> parse_route_weight(tokens)
           [] OTHER -> NoDef

(* RouteDef::src_host, src_path: a source left out has neither. *)
src_host(def) == IF def.src = Blank THEN Blank ELSE HostOf[def.src]
src_path(def) == IF def.src = Blank THEN << >> ELSE PathOf[def.src]

----------------------------------------------------------------------------
(***************************************************************************)
(* The documented grammar, from the parser's comments: a command as it is  *)
(* meant, and the lines that say it.  Its options come in any order, but   *)
(* `route weight' without a service starts with the weight.                *)
(***************************************************************************)
Word(t) == IF t = Blank THEN << >> ELSE <<t>>
Words(c) == <<"route", c.cmd>> \o Word(c.service) \o Word(c.src) \o Word(c.dst)

Options(c) == {<<k, c[k]>> : k \in {o \in {"weight", "tags", "opts"} : c[o] # Blank}}

Orders(c) ==
    {f \in [1 .. Cardinality(Options(c)) -> Options(c)] :
        /\ \A i, j \in DOMAIN f : f[i] = f[j] => i = j
        /\ c.cmd = "weight" /\ c.service = Blank => f[1] = <<"weight", c.weight>>}

Grammar(c) ==
    LET flat(f) == [i \in 1 .. 2 * Cardinality(Options(c)) |-> f[(i + 1) \div 2][IF i % 2 = 1 THEN 1 ELSE 2]]
    IN {Words(c) \o flat(f) : f \in Orders(c)}

Meaning(c) ==
    [cmd |-> c.cmd, service |-> c.service, src |-> c.src, dst |-> c.dst,
     weight |-> IF c.weight \in Weights THEN WeightOf[c.weight] ELSE 0,
     tags |-> IF c.tags = Blank THEN {} ELSE TagsOf[c.tags],
     opts |-> IF c.opts = Blank THEN NoOpts ELSE OptsOf[c.opts]]

(* The words a command needs and those it may have; none of them is taken  *)
(* for a keyword that may stand in its place.                              *)
Documented(c) ==
    \/ c.cmd = "add" /\ Blank \notin {c.service, c.src, c.dst} /\ c.opts \in DOMAIN OptsOf \cup {Blank}
    \/ /\ c.cmd = "del" /\ c.weight = Blank /\ c.opts = Blank
       /\ \/ /\ c.service \notin {Blank, "tags"} /\ c.src # "tags" /\ c.dst # "tags"
             /\ c.dst # Blank => c.src # Blank
          \/ c.service = Blank /\ c.src = Blank /\ c.dst = Blank /\ c.tags # Blank /\ TagsOf[c.tags] # {}
    \/ /\ c.cmd = "weight" /\ c.src \notin {Blank, "weight"} /\ c.dst = Blank /\ c.opts = Blank
       /\ c.service = Blank => c.weight # Blank

(* Lines that say no command: a word is missing, or is not known. *)
Pointless(tokens) ==
    \/ Len(tokens) < 3
    \/ tokens[1] # "route" \/ tokens[2] \notin {"add", "del", "weight"}
    \/ tokens[2] = "add" /\ Len(tokens) < 5
    \/ tokens[2] = "weight" /\ Len(tokens) < 4
    \/ tokens[2] = "del" /\ tokens[3] = "tags" /\ (Len(tokens) = 3 \/ (Len(tokens) = 4 /\ TagsOf[tokens[4]] = {}))
=============================================================================
