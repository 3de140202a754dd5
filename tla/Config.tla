------------------------------- MODULE Config -------------------------------
(***************************************************************************)
(* How a daemon or a client gets its configuration: the test of the name   *)
(* of the file in daemon.c main(), start_config() and parse_configfile()   *)
(* with the helpers of utils.c, and the client's test of the capacity.     *)
(*                                                                         *)
(* A line is a sequence of symbols: the name of a variable is one symbol,  *)
(* so is any other character that the reader does not tell apart from it;  *)
(* " " stands for all white space.  Lines, names and values shorter than   *)
(* the buffers are considered, and calls of the library that succeed.      *)
(***************************************************************************)
EXTENDS Integers, Sequences, SequencesExt

CONSTANTS
  IntMax, SizeMax,                    \* INT_MAX and SIZE_MAX
  MaxBuffer, MinTimeout, MaxTimeout,  \* shm.h and config.h
  Symbols,   \* what lines and names are made of
  Paths,     \* the arguments of the command line considered
  Lines,     \* the lines considered
  MaxLines,  \* bound: how many lines a file has
  Unset      \* what malloc() leaves in a field

VARIABLES
  who,   \* "daemon" or "client"
  path,  \* the argument
  pc,    \* "start", "reading", or how it ended
  conf,  \* the fields of struct config, under the names of their variables
  file   \* the lines read so far

vars == <<who, path, pc, conf, file>>

Timeouts == {"TIMEOUT_DAEMON", "TIMEOUT_CLIENT"}
Names == {"NAME_SHM", "NAME_EMPTY_SEMAPHORE", "NAME_FULL_SEMAPHORE",
          "NAME_MUTEX_SEMAPHORE"}
Pipes == {"PREFIX_PIPEQUESTION", "PREFIX_PIPEANSWER"}
Texts == Names \cup Pipes
Numbers == Timeouts \cup {"MAX_BUFFER_SHM", "ANTIFLOOD_CLIENT"}

Integer == -IntMax - 1 .. IntMax

ASSUME ConfigAssumption ==
  /\ {IntMax, SizeMax, MaxLines} \subseteq Nat /\ IntMax < SizeMax
  /\ {MaxBuffer, MinTimeout, MaxTimeout} \subseteq Integer \cap Nat
  /\ {"/", "/tmp/", "_", "%", "d"} \subseteq Symbols
  /\ Paths \subseteq Seq(Symbols) /\ Lines \subseteq Seq(Symbols)

(* Mutant of Accepted: the lower limit of the timeouts is dropped. *)
AcceptedFromZero(key, n) ==
  CASE key = "MAX_BUFFER_SHM" -> n \in 0 .. MaxBuffer
    [] key \in Timeouts       -> n \in 0 .. MaxTimeout
    [] OTHER                  -> TRUE

(* The limits of the numbers; ANTIFLOOD_CLIENT has none. *)
Accepted(key, n) ==
  CASE key = "MAX_BUFFER_SHM" -> n \in 0 .. MaxBuffer
    [] key \in Timeouts       -> n \in MinTimeout .. MaxTimeout
    [] OTHER                  -> TRUE

TypeOK ==
  /\ who \in {"daemon", "client"} /\ path \in Paths
  /\ pc \in {"start", "reading", "bad_name", "refused", "no_place", "up"}
  /\ DOMAIN conf = Texts \cup Numbers
  /\ \A key \in Numbers :
       conf[key] = Unset \/ /\ conf[key] \in 0 .. SizeMax
                            /\ key \in Timeouts =>
                                 conf[key] \in MinTimeout .. MaxTimeout
                            /\ key = "MAX_BUFFER_SHM" =>
                                 conf[key] \in 0 .. MaxBuffer
  /\ \A key \in Texts : conf[key] = Unset \/ conf[key] \in Seq(Symbols)
  /\ file \in Seq(Lines) /\ Len(file) <= MaxLines

Init ==
  /\ who \in {"daemon", "client"} /\ path \in Paths /\ pc = "start"
  /\ conf = [key \in Texts \cup Numbers |-> Unset]
  /\ file = << >>

-----------------------------------------------------------------------------
(***************************************************************************)
(* utils.c, and strtok() of the C library.                                 *)
(***************************************************************************)
Blank(c) == c = " "
NoBlank(c) == ~Blank(c)

trim(s) ==
  LET begin == SelectInSeq(s, NoBlank) IN
  IF begin = 0 THEN << >> ELSE SubSeq(s, begin, SelectLastInSeq(s, NoBlank))

Digits == <<"0", "1", "2", "3", "4", "5", "6", "7", "8", "9">>

is_numeric(s) == ToSet(s) \subseteq ToSet(Digits)

Digit(c) == (CHOOSE i \in DOMAIN Digits : Digits[i] = c) - 1

(* An int that overflows wraps around. *)
Wrap(n) == ((n + IntMax + 1) % (2 * (IntMax + 1))) - IntMax - 1

(* The variable num after each digit.  is_numeric() has refused the sign   *)
(* that atoi() would understand.                                           *)
atoi(s) ==
  LET num[i \in 0 .. Len(s)] ==
        IF i = 0 THEN 0 ELSE Wrap(num[i - 1] * 10 + Digit(s[i]))
  IN  num[Len(s)]

(* An int stored in a field, which is a size_t. *)
SizeT(n) == n % (SizeMax + 1)

Separator(c) == c = "="
NoSeparator(c) == ~Separator(c)

(* The next token of a line, << >> if there is none, and what follows it. *)
Split(s) ==
  LET from == SelectInSeq(s, NoSeparator)
      end  == SelectInSubSeq(s, from, Len(s), Separator) IN
  IF from = 0 THEN [token |-> << >>, rest |-> << >>]
  ELSE IF end = 0 THEN [token |-> SubSeq(s, from, Len(s)), rest |-> << >>]
  ELSE [token |-> SubSeq(s, from, end - 1), rest |-> SubSeq(s, end + 1, Len(s))]

(* Mutant of get_file_extension: a dot may begin the name. *)
get_file_extensionHidden(p) ==
  LET i == SelectLastInSeq(p, LAMBDA c : c \in {".", "/", "\\"}) IN
  IF i > 0 /\ p[i] = "." THEN SubSeq(p, i, Len(p)) ELSE << >>

(* The name of a file from its last dot on, unless that begins the name.   *)
get_file_extension(p) ==
  LET i == SelectLastInSeq(p, LAMBDA c : c \in {".", "/", "\\"}) IN
  IF i > 1 /\ p[i] = "." /\ p[i - 1] \notin {"/", "\\"}
  THEN SubSeq(p, i, Len(p)) ELSE << >>

-----------------------------------------------------------------------------
(***************************************************************************)
(* parse_configfile(): what it does to conf, or Refused.                   *)
(***************************************************************************)
Refused == << >>   \* no configuration

Forbidden(key) == IF key \in Pipes THEN {"/", "%"} ELSE {"/"}

(* Mutant of filename_format: the suffix of the pipes is forgotten. *)
filename_formatNoSuffix(key, value) ==
  IF key \in Pipes THEN <<"/tmp/">> \o value ELSE <<"/">> \o value

(* The pipes of all clients have the same prefix, and a place for the pid. *)
filename_format(key, value) ==
  IF key \in Pipes THEN <<"/tmp/">> \o value \o <<"_", "%", "d">>
  ELSE <<"/">> \o value

SetText(c, key, value) ==
  IF ToSet(value) \cap Forbidden(key) # {} THEN Refused
  ELSE [c EXCEPT ![key] = filename_format(key, value)]

SetNumber(c, key, value) ==
  IF ~is_numeric(value) \/ ~Accepted(key, atoi(value)) THEN Refused
  ELSE [c EXCEPT ![key] = SizeT(atoi(value))]

(* Mutant of parse_configfile: the name is compared as it stands. *)
parse_configfileUntrimmed(line, c) ==
  LET first == Split(line)
      second == Split(first.rest)
      key == Head(first.token) IN
  IF first.token = << >> \/ second.token = << >> THEN Refused
  ELSE CASE key \in Texts   -> SetText(c, key, second.token)
         [] key \in Numbers -> SetNumber(c, key, second.token)
         [] OTHER -> c

(* The name of a variable only has to begin what is before the "=".        *)
parse_configfile(line, c) ==
  LET first == Split(line)
      second == Split(first.rest)
      varname == trim(first.token)
      value == trim(second.token) IN
  IF first.token = << >> \/ second.token = << >> THEN Refused
  ELSE IF varname = << >> THEN c
  ELSE CASE Head(varname) \in Texts   -> SetText(c, Head(varname), value)
         [] Head(varname) \in Numbers -> SetNumber(c, Head(varname), value)
         [] OTHER -> c

Comment(line) == IsPrefix(<<"#">>, line) \/ IsPrefix(<<"/", "/">>, line)

-----------------------------------------------------------------------------
(* The daemon looks at the name of the file, but strncmp() compares no     *)
(* more than its length; then fopen() fails on a name that is empty.       *)
Start ==
  /\ pc = "start"
  /\ pc' = IF who = "daemon" /\ path # << >>
                /\ get_file_extension(path) # <<".", "config">>
           THEN "bad_name"
           ELSE IF path = << >> THEN "refused" ELSE "reading"
  /\ UNCHANGED <<who, path, conf, file>>

ReadLine(l) ==
  /\ pc = "reading" /\ Len(file) < MaxLines
  /\ file' = Append(file, l)
  /\ LET line == trim(l)
         result == IF Comment(line) THEN conf ELSE parse_configfile(line, conf)
     IN IF result = Refused THEN pc' = "refused" /\ UNCHANGED conf
        ELSE conf' = result /\ UNCHANGED pc
  /\ UNCHANGED <<who, path>>

(* A client gives up when there is no place; what is not set may be 0.     *)
EndOfFile ==
  /\ pc = "reading"
  /\ \/ /\ who = "client" => conf["MAX_BUFFER_SHM"] # 0
        /\ pc' = "up"
     \/ /\ who = "client" /\ conf["MAX_BUFFER_SHM"] \in {0, Unset}
        /\ pc' = "no_place"
  /\ UNCHANGED <<who, path, conf, file>>

Next == Start \/ (\E l \in Lines : ReadLine(l)) \/ EndOfFile

Spec == Init /\ [][Next]_vars

-----------------------------------------------------------------------------
(***************************************************************************)
(* What a file means, said without the functions above.                    *)
(***************************************************************************)
(* A number has no limit here: ten times what is before its last digit,    *)
(* and that digit.                                                         *)
Decimal(v) ==
  LET value[n \in 0 .. Len(v)] ==
        IF n = 0 THEN 0 ELSE 10 * value[n - 1] + Digit(v[n])
  IN  value[Len(v)]

Solid(l) == {i \in DOMAIN l : l[i] # " "}

(* The stretches without "=" between the first and the last solid symbol.  *)
Stretches(l) ==
  LET core == {i \in DOMAIN l : \E a, b \in Solid(l) : a <= i /\ i <= b} IN
  {p \in core \X core :
     /\ p[1] <= p[2] /\ \A k \in p[1] .. p[2] : l[k] # "="
     /\ \A k \in {p[1] - 1, p[2] + 1} \cap core : l[k] = "="}

Earliest(S) == CHOOSE p \in S : \A q \in S : p[1] <= q[1]

(* What a stretch says, without the blanks around it.                      *)
Text(l, p) ==
  LET in == Solid(l) \cap (p[1] .. p[2]) IN
  IF in = {} THEN << >>
  ELSE LET a == CHOOSE i \in in : \A k \in in : i <= k IN
       [n \in 1 .. Cardinality({k \in p[1] .. p[2] :
                   k >= a /\ \E j \in in : k <= j}) |-> l[a + n - 1]]

IsComment(l) ==
  \E i \in Solid(l) :
    /\ \A k \in Solid(l) : i <= k
    /\ l[i] = "#" \/ (l[i] = "/" /\ i + 1 \in DOMAIN l /\ l[i + 1] = "/")

(* What a line means: its kind, the variable that it sets and to what.  A  *)
(* number that is left out, or that does not fit an int, is "unclear".     *)
Meaning == [l \in Lines |->
  LET first == Earliest(Stretches(l))
      name == Text(l, first)
      value == Text(l, Earliest(Stretches(l) \ {first}))
      key == name[1]
      Line(kind, v) == [kind |-> kind, key |-> key, value |-> v]
  IN IF IsComment(l) THEN [kind |-> "comment"]
     ELSE IF Cardinality(Stretches(l)) < 2 THEN [kind |-> "bad"]
     ELSE IF name = << >> \/ key \notin Texts \cup Numbers
          THEN [kind |-> "other"]
     ELSE IF key \in Texts
          THEN Line(IF \E i \in DOMAIN value : value[i] \in Forbidden(key)
                    THEN "bad" ELSE "sets", filename_format(key, value))
     ELSE IF \E i \in DOMAIN value : value[i] \notin ToSet(Digits)
          THEN [kind |-> "bad"]
     ELSE IF value = << >> \/ Decimal(value) > IntMax
          THEN Line("unclear", Decimal(value))
     ELSE Line(IF Accepted(key, Decimal(value)) THEN "sets" ELSE "bad",
               Decimal(value))]

(***************************************************************************)
(* Properties.                                                             *)
(***************************************************************************)
(* Reading stops at the first bad line, and at no line that is neither bad *)
(* nor unclear; and every field has the value that the last line for it    *)
(* writes, unless that line is unclear: blanks, comments, words after the  *)
(* name and further "=" make no difference, and an unclear line has no     *)
(* effect on the other fields.                                             *)
MeansFile ==
  LET Kind(n) == Meaning[file[n]].kind IN
  /\ \A n \in DOMAIN file : Kind(n) = "bad" => n = Len(file) /\ pc = "refused"
  /\ pc = "refused" /\ file # << >> => Kind(Len(file)) \in {"bad", "unclear"}
  /\ \A key \in Texts \cup Numbers :
       LET lines == {n \in DOMAIN file : /\ Kind(n) \in {"sets", "unclear"}
                                         /\ Meaning[file[n]].key = key}
       IN IF lines = {} THEN conf[key] = Unset
          ELSE Kind(Max(lines)) = "sets" =>
                 conf[key] = Meaning[file[Max(lines)]].value

(* A file is refused at a line that gives a number beyond its limits,      *)
(* however large it is.                                                    *)
LimitsHold ==
  \A n \in DOMAIN file :
    LET line == Meaning[file[n]] IN
    line.kind = "unclear" /\ ~Accepted(line.key, line.value)
      => n = Len(file) /\ pc = "refused"

(* A name handed to shm_open() or sem_open() has one "/", at its front; a  *)
(* pipe is in /tmp, and the format handed to snprintf() has one conversion *)
(* that puts the pid at the end, so that clients do not share pipes.       *)
NamesFormed ==
  \A key \in Texts : conf[key] # Unset =>
    LET count(c) == Cardinality({i \in DOMAIN conf[key] : conf[key][i] = c})
    IN IF key \in Names
       THEN count("/") = 1 /\ conf[key][1] = "/"
       ELSE /\ count("/") = 0 /\ conf[key][1] = "/tmp/" /\ count("%") = 1
            /\ IsSuffix(<<"%", "d">>, conf[key])

(* A daemon reads a file exactly if its name ends in ".config" and has     *)
(* something before that which is not the end of a directory.              *)
NameChecked ==
  LET n == Len(path) - 2
      proper == /\ n >= 1 /\ path[n] \notin {"/", "\\"}
                /\ path[n + 1] = "." /\ path[n + 2] = "config"
  IN /\ pc = "bad_name" => who = "daemon" /\ ~proper
     /\ who = "daemon" /\ (file # << >> \/ pc = "up") => proper
=============================================================================
