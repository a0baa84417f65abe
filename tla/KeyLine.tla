------------------------------- MODULE KeyLine -------------------------------
(***************************************************************************)
(* A line of authorized_keys on its way through the program: the source's  *)
(* lines are parsed and given a comment, the keys are stored in the cache  *)
(* as text and parsed again, and the keys of all sources are printed, each *)
(* once.                                                                   *)
(*                                                                         *)
(* A line may begin with options that restrict its key (command="...").    *)
(* They are told from the key by a tokenizer of quotes and backslashes,    *)
(* which runs before the cache and again behind it, so that a line it cuts *)
(* in the wrong place loses its restrictions, or its key.                  *)
(***************************************************************************)
EXTENDS Integers, Sequences, FiniteSets, FiniteSetsExt

CONSTANTS
  Sources,      \* the number of sources, asked in the order 1, 2, ...
  Holds,        \* what each source may hold: [1 .. Sources -> a set of lists]
  None          \* ValueError; an entry that cannot be read

\* What the code tells apart: "k" stands for the letters a key type starts with
\* (ssh-, ecdsa-, sk-), "x" for any other character.
Chars == {"k", "x", " ", "quote", "backslash", "=", "#"}
Line  == Seq(Chars)
Key   == [type : Line, key : Line, comment : Line, options : Line]

ASSUME KeyLineAssumption ==
  /\ Sources \in Nat \ {0}
  /\ DOMAIN Holds = 1 .. Sources
  /\ \A s \in 1 .. Sources : \A list \in Holds[s] : list \in Seq(Line)
  /\ None \notin Key /\ None \notin Seq(Key)

-----------------------------------------------------------------------------
(* AuthorizedKey                                                           *)

\* str.strip
Strip(line) ==
  LET ink == {i \in DOMAIN line : line[i] # " "}
  IN  IF ink = {} THEN <<>> ELSE SubSeq(line, Min(ink), Max(ink))

\* Definitions named X_... are faulty variants of X; no specification uses them.
\* Here: a backslash escapes outside quotes too.
After_Everywhere(was, char) ==
  CASE was.escaped -> [was EXCEPT !.escaped = FALSE]
    [] ~ was.escaped /\ char = "backslash" -> [was EXCEPT !.escaped = TRUE]
    [] ~ was.escaped /\ char = "quote" -> [was EXCEPT !.quoted = ~ @]
    [] OTHER -> was

\* The loop of _split_first_token: what it knows after one more character.
After(was, char) ==
  CASE was.escaped -> [was EXCEPT !.escaped = FALSE]
    [] ~ was.escaped /\ was.quoted /\ char = "backslash" -> [was EXCEPT !.escaped = TRUE]
    [] ~ was.escaped /\ char = "quote" -> [was EXCEPT !.quoted = ~ @]
    [] OTHER -> was

Scan(line) ==
  LET at[i \in 0 .. Len(line)] ==
        IF i = 0 THEN [quoted |-> FALSE, escaped |-> FALSE] ELSE After(at[i - 1], line[i])
  IN  at

\* Where the first token ends: at a space outside quotes, or with the line.
Cut(line) ==
  LET scan == Scan(line)
      ends == {i \in DOMAIN line : line[i] = " " /\ ~ scan[i - 1].quoted
                                                 /\ ~ scan[i - 1].escaped}
  IN  IF ends = {} THEN Len(line) + 1 ELSE Min(ends)

FirstToken(line) == SubSeq(line, 1, Cut(line) - 1)
Remainder(line) == SubSeq(line, Cut(line) + 1, Len(line))

IsKeyType(token) == token # <<>> /\ token[1] = "k"

\* _is_options_prefix
IsOptionsPrefix(token) ==
  (\E i \in DOMAIN token : token[i] = "=") \/ ~ IsKeyType(token)

\* line.split(" ", 2): up to two cuts, at the first spaces.
Spaces(line) == {i \in DOMAIN line : line[i] = " "}
Fields(line) ==
  LET one == Spaces(line)
      two == one \ {Min(one)}
  IN  IF one = {} THEN <<line>>
      ELSE IF two = {} THEN <<SubSeq(line, 1, Min(one) - 1),
                              SubSeq(line, Min(one) + 1, Len(line))>>
      ELSE <<SubSeq(line, 1, Min(one) - 1), SubSeq(line, Min(one) + 1, Min(two) - 1),
             SubSeq(line, Min(two) + 1, Len(line))>>

\* AuthorizedKey.parse
Parse(line) ==
  LET options == IF FirstToken(line) # <<>> /\ IsOptionsPrefix(FirstToken(line))
                 THEN FirstToken(line) ELSE <<>>
      fields == Fields(IF options = <<>> THEN line ELSE Remainder(line))
  IN  IF Len(fields) < 2 \/ ~ IsKeyType(fields[1]) THEN None
      ELSE [type |-> fields[1], key |-> fields[2], options |-> options,
            comment |-> IF Len(fields) = 3 THEN fields[3] ELSE <<>>]

\* parse_all passes over blank lines and comments.
Blank(line) == Strip(line) = <<>> \/ Strip(line)[1] = "#"

\* The options are not written ...
Str_Unrestricted(key) ==
  key.type \o <<" ">> \o key.key
    \o (IF key.comment = <<>> THEN <<>> ELSE <<" ">> \o key.comment)

\* ... or the comment is not.
Str_Bare(key) ==
  (IF key.options = <<>> THEN <<>> ELSE Append(key.options, " "))
    \o key.type \o <<" ">> \o key.key

\* AuthorizedKey.__repr__
Str(key) ==
  (IF key.options = <<>> THEN <<>> ELSE Append(key.options, " "))
    \o key.type \o <<" ">> \o key.key
    \o (IF key.comment = <<>> THEN <<>> ELSE <<" ">> \o key.comment)

\* default_sanitize: a key without a comment gets "uid(src=name)".
Comment == <<"x", "=", "x">>
Sanitize(key) == IF key.comment = <<>> THEN [key EXCEPT !.comment = Comment] ELSE key

\* What makes two keys one, for authorized_keys.
Identity(key) == <<key.options, key.type, key.key>>

-----------------------------------------------------------------------------

VARIABLES
  lists,        \* the lines of every source
  step,         \* parse, store, read, print or done
  src,          \* the source it works on
  pos,          \* the line, or the key, that is next
  keys,         \* the keys of each source, parsed and sanitised
  text,         \* its cache entry, line by line
  back,         \* the keys read from it, or None
  fromCache,    \* the sources whose keys are taken from the cache
  seen,         \* the identities that were printed
  printed       \* the keys that were printed

vars == <<lists, step, src, pos, keys, text, back, fromCache, seen, printed>>

Init ==
  /\ lists \in [1 .. Sources -> UNION {Holds[s] : s \in 1 .. Sources}]
  /\ \A s \in 1 .. Sources : lists[s] \in Holds[s]
  /\ step = "parse"
  /\ src = 1
  /\ pos = 1
  /\ keys = [s \in 1 .. Sources |-> <<>>]
  /\ text = [s \in 1 .. Sources |-> <<>>]
  /\ back = [s \in 1 .. Sources |-> <<>>]
  /\ fromCache = {}
  /\ seen = {}
  /\ printed = <<>>

\* A malformed line ends the parsing.
ParseLine_Stops ==
  /\ step = "parse"
  /\ pos <= Len(lists[src])
  /\ LET line == Strip(lists[src][pos])
     IN  /\ keys' = IF Blank(line) \/ Parse(line) = None THEN keys
                    ELSE [keys EXCEPT ![src] = Append(@, Sanitize(Parse(line)))]
         /\ pos' = IF ~ Blank(line) /\ Parse(line) = None THEN Len(lists[src]) + 1
                   ELSE pos + 1
  /\ UNCHANGED <<lists, fromCache, step, src, text, back, seen, printed>>

\* _parse_source_lines: one line, skipped if it does not parse.
ParseLine ==
  /\ step = "parse"
  /\ pos <= Len(lists[src])
  /\ LET line == Strip(lists[src][pos])
     IN  keys' = IF Blank(line) \/ Parse(line) = None THEN keys
                 ELSE [keys EXCEPT ![src] = Append(@, Sanitize(Parse(line)))]
  /\ pos' = pos + 1
  /\ UNCHANGED <<lists, fromCache, step, src, text, back, seen, printed>>

\* The keys of one source are joined and stored.
Store ==
  /\ step = "parse"
  /\ pos > Len(lists[src])
  /\ text' = [text EXCEPT ![src] = [i \in DOMAIN keys[src] |-> Str(keys[src][i])]]
  /\ step' = "read"
  /\ pos' = 1
  /\ UNCHANGED <<lists, fromCache, src, keys, back, seen, printed>>

\* _cached_keys, another lookup of the same source: one line that does not parse
\* makes the entry a miss.
ReadLine ==
  /\ step = "read"
  /\ pos <= Len(text[src])
  /\ LET line == Strip(text[src][pos])
     IN  /\ back' = CASE Blank(line) -> back
                      [] ~ Blank(line) /\ Parse(line) = None -> [back EXCEPT ![src] = None]
                      [] OTHER -> [back EXCEPT ![src] = Append(@, Parse(line))]
         /\ pos' = IF ~ Blank(line) /\ Parse(line) = None THEN Len(text[src]) + 1
                   ELSE pos + 1
  /\ UNCHANGED <<lists, fromCache, step, src, keys, text, seen, printed>>

EndOfEntry ==
  /\ step = "read"
  /\ pos > Len(text[src])
  /\ IF src < Sources
     THEN src' = src + 1 /\ step' = "parse" /\ UNCHANGED fromCache
     ELSE src' = 1 /\ step' = "print" /\ fromCache' \in SUBSET (1 .. Sources)
  /\ pos' = 1
  /\ UNCHANGED <<lists, keys, text, back, seen, printed>>

\* The keys that authorized_keys gets of source s: of its entry if that is fresh
\* and readable.
Served(s) == IF s \in fromCache /\ back[s] # None THEN back[s] ELSE keys[s]

\* authorized_keys: a key that was seen before is passed over.
PrintKey ==
  /\ step = "print"
  /\ pos <= Len(Served(src))
  /\ LET key == Served(src)[pos]
     IN  /\ seen' = seen \cup {Identity(key)}
         /\ printed' = IF Identity(key) \in seen THEN printed ELSE Append(printed, key)
  /\ pos' = pos + 1
  /\ UNCHANGED <<lists, fromCache, step, src, keys, text, back>>

EndOfKeys ==
  /\ step = "print"
  /\ pos > Len(Served(src))
  /\ IF src < Sources THEN src' = src + 1 /\ UNCHANGED step
     ELSE step' = "done" /\ UNCHANGED src
  /\ pos' = 1
  /\ UNCHANGED <<lists, fromCache, keys, text, back, seen, printed>>

Next ==
  \/ ParseLine \/ Store \/ ReadLine \/ EndOfEntry \/ PrintKey \/ EndOfKeys

Spec == Init /\ [][Next]_vars

-----------------------------------------------------------------------------
(* Properties                                                              *)

TypeOK ==
  /\ step \in {"parse", "read", "print", "done"}
  /\ src \in 1 .. Sources
  /\ pos \in Nat
  /\ \A s \in 1 .. Sources : keys[s] \in Seq(Key) /\ text[s] \in Seq(Line)
  /\ \A s \in 1 .. Sources : back[s] # None => back[s] \in Seq(Key)
  /\ printed \in Seq(Key)
  /\ seen = {Identity(printed[i]) : i \in DOMAIN printed}

\* The quotes of a line that open or close, told without a scan: inside, a quote
\* counts if an even number of backslashes stands before it.
Backslashes(line, i) ==
  Cardinality({j \in 1 .. i - 1 : \A k \in j .. i - 1 : line[k] = "backslash"})
Before(T, i) == Cardinality({j \in T : j < i})
Toggles(line, T) ==
  \A i \in DOMAIN line :
    i \in T <=> /\ line[i] = "quote"
                /\ Before(T, i) % 2 = 0 \/ Backslashes(line, i) % 2 = 0

\* The token that was taken for the options is the first one of the line as the
\* docstring defines it: up to a space outside quotes, an escaped quote ending no
\* value (_split_first_token).
OptionsWhole ==
  step = "done" => \A s \in 1 .. Sources : \A i \in DOMAIN keys[s] :
    keys[s][i].options # <<>> =>
      \E n \in DOMAIN lists[s] :
        LET line == Strip(lists[s][n])
            end == Len(keys[s][i].options)
        IN  /\ end < Len(line)
            /\ SubSeq(line, 1, end) = keys[s][i].options
            /\ \E T \in SUBSET {j \in DOMAIN line : line[j] = "quote"} :
                 /\ Toggles(line, T)
                 /\ line[end + 1] = " " /\ Before(T, end + 1) % 2 = 0
                 /\ \A j \in 1 .. end : line[j] = " " => Before(T, j) % 2 = 1

\* What is printed is a line of a source as it stands there, or with a comment:
\* parsing, the cache and the printing in between lose no option and no part of a
\* key, and make no key out of two.
Verbatim ==
  step = "done" => \A i \in DOMAIN printed :
    \E s \in 1 .. Sources : \E n \in DOMAIN lists[s] :
      Str(printed[i]) \in {Strip(lists[s][n]), Strip(lists[s][n]) \o <<" ">> \o Comment}

\* The cache gives back the keys that were stored.  The exception is a key whose
\* type has a quote in it, which no key type has: its entry may not parse, and
\* counts as a miss then.
RoundTrip ==
  step = "read" /\ pos > Len(text[src]) =>
    \/ back[src] = keys[src]
    \/ /\ back[src] = None
       /\ \E i \in DOMAIN keys[src] : "quote" \in {keys[src][i].type[j] : j \in DOMAIN keys[src][i].type}

\* The key material: what follows the type, after as many spaces as there are.
Material(key) == Fields(Strip(key.key \o <<" ">> \o key.comment))[1]

SameKey(a, b) ==
  a.options = b.options /\ a.type = b.type /\ Material(a) = Material(b)

\* The key of every line that parses is printed, with its options, and none twice,
\* whatever the lines beside it are and whether the cache is used: no malformed
\* line, no duplicate and no other source costs a user a key.  The exception is a
\* line with two spaces behind its type: the key field that is cut from it is empty,
\* and such keys may be taken for one another (DifferentKeysPrinted).
EachOnce ==
  step = "done" =>
    /\ \A i, j \in DOMAIN printed :
         /\ printed[i].key # <<>> /\ printed[j].key # <<>>
         /\ SameKey(printed[i], printed[j])
         => i = j
    /\ \A s \in 1 .. Sources : \A n \in DOMAIN lists[s] :
         LET line == Strip(lists[s][n])
         IN  ~ Blank(line) /\ Parse(line) # None /\ Parse(line).key # <<>> =>
               \E i \in DOMAIN printed : SameKey(printed[i], Parse(line))

\* Two keys with different key material are both printed.
DifferentKeysPrinted ==
  step = "done" =>
    \A s \in 1 .. Sources : \A i \in DOMAIN keys[s] :
      \E n \in DOMAIN printed :
        /\ printed[n].type = keys[s][i].type
        /\ Material(printed[n]) = Material(keys[s][i])
=============================================================================
