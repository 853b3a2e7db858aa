------------------------------ MODULE Symbols ------------------------------
(***************************************************************************)
(* The kernel's symbol table (src/kernel/symbols.c): load_symbol_table     *)
(* reads the file of addresses and names of the initial ramdisk, and       *)
(* get_symbol_address and get_symbol_name search it.                       *)
(*                                                                         *)
(* Symbols are numbered in the order they are read, and Pointer(k) is the  *)
(* address of the k-th structure.  The memory for them is there: see Sched *)
(* and Frames for kmalloc.  The table lies as KSortedArray says, with a    *)
(* gap that depends on what was allocated before.                          *)
(***************************************************************************)
EXTENDS Integers, Sequences

CONSTANTS
  FileLines,        \* what a file is made of: sequences of character codes
  MaxLines,         \* bound: how many of them
  MAX_SYMBOLS,
  ADDRESS_MAX,      \* room for the characters of an address
  Addresses,        \* number of values of an address
  CodeStart, CodeEnd,   \* __code_start__ and __code_end__
  Wanted            \* names that are searched for

PREDICATE == 50
Pointer(k) == 100 + 2 * k

C == INSTANCE KChar
A == INSTANCE KSortedArray WITH Capacity <- MAX_SYMBOLS

ASSUME SymbolsAssumption ==
  /\ FileLines \subseteq Seq(0 .. 127) /\ MaxLines \in Nat
  /\ MAX_SYMBOLS \in 1 .. PREDICATE - 1 /\ ADDRESS_MAX \in Nat \ {0}
  /\ Addresses \in Nat \ {0} /\ CodeStart \in Nat /\ CodeEnd \in Nat
  /\ Wanted \subseteq Seq(0 .. 127)
  /\ A!Constants

VARIABLES
  gap,         \* see KSortedArray
  table,       \* the memory of symbol_table
  load,        \* the parser: its state, buffers and outcome
  symbols,     \* the structures that were filled: [address, name]
  lines,       \* how many lines were read
  interrupts,  \* the interrupt flag
  answer,      \* the last search and its result
  asserts      \* a build without NDEBUG

symbolVars == <<gap, table, load, symbols, lines, interrupts, answer, asserts>>

NULL == 0
Pointers == {Pointer(k) : k \in 1 .. Len(symbols)}
SymbolAt(p) == symbols[(p - 100) \div 2]

\* status: "loading", "ok" when the file was read, or why the machine stopped.
\* stale: what the first place of the name's buffer holds, -1 before it is
\* written.
Parser == [state |-> "ADDRESS", address |-> <<>>, value |-> 0, name |-> <<>>, stale |-> -1,
           first |-> TRUE, status |-> "loading"]

InitSymbols ==
  /\ gap \in A!Gaps
  /\ table = A!Create(gap)
  /\ load = Parser
  /\ symbols = <<>>
  /\ lines = 0
  /\ interrupts = FALSE
  /\ answer = [fn |-> "none"]
  /\ asserts \in BOOLEAN
---------------------------------------------------------------------------
(* load_symbol_table.                                                      *)

\* parse_address: letters of either case count from 'A'.
parse_address(digits) ==
  LET value(c) == IF c \in C!DIGIT THEN c - 48 ELSE c - 65 + 10
      address[i \in 0 .. Len(digits)] ==
        IF i = 0 THEN 0 ELSE (16 * address[i - 1] + value(digits[i])) % Addresses
  IN  address[Len(digits)]

\* The symbols are compared by address.
\* Mutant: in the descending order that the comment speaks of.
Descending(known) ==
  LET pairs == {k \in (DOMAIN known) \X (DOMAIN known) : known[k[1]].address > known[k[2]].address}
  IN  {<<Pointer(k[1]), Pointer(k[2])>> : k \in pairs}
Ascending(known) ==
  LET pairs == {k \in (DOMAIN known) \X (DOMAIN known) : known[k[1]].address < known[k[2]].address}
  IN  {<<Pointer(k[1]), Pointer(k[2])>> : k \in pairs}

\* The machine as one value, for the characters of a line.
Machine == [p |-> load, mem |-> table, known |-> symbols]

\* White space behind an address, or behind a name.  uninitialised: what the
\* name's buffer begins with before anything was written there.
EndAddress(m) ==
  [m EXCEPT !.p = [m.p EXCEPT !.value = parse_address(m.p.address), !.state = "SYMBOL", !.name = <<>>]]
EndName(m, uninitialised) ==
  LET p == m.p
      begin == IF p.name # <<>> THEN p.name[1] ELSE IF p.stale = -1 THEN uninitialised ELSE p.stale
      known == Append(m.known, [address |-> p.value, name |-> p.name])
      added == A!Add(m.mem, gap, Pointer(Len(known)), {Pointer(k) : k \in DOMAIN known},
                     Ascending(known))
  IN  IF begin \notin {95} \union C!ALPHA \/ (asserts /\ p.name = <<>>)
      THEN [m EXCEPT !.p.status = "panic"]
      ELSE [mem |-> added.mem, known |-> known,
            p |-> [p EXCEPT !.state = "ADDRESS", !.address = <<>>, !.stale = begin,
                            !.status = IF added.status = "ok" THEN @ ELSE added.status]]

\* Any other character.  Nothing looks at the size of the address's buffer.
InAddress(m, c) ==
  IF c \notin C!XDIGIT THEN [m EXCEPT !.p.status = "panic"]
  ELSE IF Len(m.p.address) = ADDRESS_MAX THEN [m EXCEPT !.p.status = "wild"]
  ELSE [m EXCEPT !.p.address = Append(@, c)]
InName(m, c) ==
  IF c \notin {95} \union C!ALNUM THEN [m EXCEPT !.p.status = "panic"]
  ELSE [m EXCEPT !.p.name = Append(@, c)]

\* A turn of the loop.  The column is 1 for the first character of the file
\* only, as it is increased after every character, a newline included.
Turn(m, c, uninitialised) ==
  LET n == [m EXCEPT !.p.first = FALSE]
      address == m.p.state = "ADDRESS"
  IN  CASE m.p.status # "loading"                      -> m
        [] m.p.status = "loading" /\ c = 10 /\ m.p.first -> [n EXCEPT !.p.status = "ok"]
        [] m.p.status = "loading" /\ ~(c = 10 /\ m.p.first) ->
             IF c \in C!SPACE THEN IF address THEN EndAddress(n) ELSE EndName(n, uninitialised)
             ELSE IF address THEN InAddress(n, c) ELSE InName(n, c)

Loading == load.status = "loading"
ReadLine ==
  /\ Loading /\ lines < MaxLines
  /\ \E line \in FileLines, uninitialised \in {0, 95} :
       LET run[i \in 0 .. Len(line)] ==
             IF i = 0 THEN Machine ELSE Turn(run[i - 1], line[i], uninitialised)
           m == run[Len(line)]
       IN  load' = m.p /\ table' = m.mem /\ symbols' = m.known
  /\ lines' = lines + 1
  /\ UNCHANGED <<gap, interrupts, answer, asserts>>

\* The end of the file: a name that no white space follows is forgotten.
EndOfFile ==
  /\ Loading
  /\ load' = [load EXCEPT !.status = "ok"]
  /\ UNCHANGED <<gap, table, symbols, lines, interrupts, answer, asserts>>

\* What the caller of the searches did with the interrupt flag before.
Idle == load.status = "ok" /\ answer.fn = "none"
SetInterrupts ==
  /\ Idle /\ interrupts' = ~interrupts
  /\ UNCHANGED <<gap, table, load, symbols, lines, answer, asserts>>
---------------------------------------------------------------------------
(* The searches.                                                           *)
Usable == A!Sound(table, gap, Pointers)
Listed(i) == SymbolAt(A!Get(table, gap, i))
Indices == 0 .. A!Count(table) - 1

\* kstring_compare(name, wanted, length of wanted) = 0 whenever one of the two
\* is a prefix of the other.
SameSoFar(s, t) ==
  LET n == IF Len(s) < Len(t) THEN Len(s) ELSE Len(t)
  IN  SubSeq(s, 1, n) = SubSeq(t, 1, n)

FirstThat(P(_)) == CHOOSE i \in Indices : P(i) /\ \A j \in 0 .. i - 1 : ~P(j)
Wild == load' = [load EXCEPT !.status = "wild"] /\ UNCHANGED <<answer, interrupts>>

\* get_symbol_address returns from its loop with interrupts disabled.
get_symbol_address(name) ==
  LET found(i) == SameSoFar(Listed(i).name, name)
  IN  IF ~Usable THEN Wild
      ELSE /\ answer' =
                [fn |-> "address", of |-> name, before |-> interrupts,
                 symbol |-> IF \E i \in Indices : found(i) THEN A!Get(table, gap, FirstThat(found)) ELSE NULL]
           /\ interrupts' = ((~\E i \in Indices : found(i)) /\ interrupts)
           /\ UNCHANGED load

\* get_symbol_name takes the first symbol at or below the address, which in a
\* table in ascending order is the lowest of all.
\* Mutant: it takes the first symbol above the address.
Above(i, address) == Listed(i).address > address
Below(i, address) == Listed(i).address <= address
get_symbol_name(address) ==
  LET found(i) == Below(i, address)
      inside == address >= CodeStart /\ address <= CodeEnd
  IN  IF inside /\ ~Usable THEN Wild
      ELSE /\ answer' =
                [fn |-> "name", of |-> address, before |-> interrupts,
                 symbol |-> IF inside /\ \E i \in Indices : found(i)
                            THEN A!Get(table, gap, FirstThat(found)) ELSE NULL]
           /\ UNCHANGED <<interrupts, load>>

Search ==
  /\ Idle
  /\ \/ \E name \in Wanted : get_symbol_address(name)
     \/ \E address \in CodeStart - 1 .. CodeEnd + 1 : get_symbol_name(address)
  /\ UNCHANGED <<gap, table, symbols, lines, asserts>>

NextSymbols == ReadLine \/ EndOfFile \/ SetInterrupts \/ Search

SymbolsSpec == InitSymbols /\ [][NextSymbols]_symbolVars
---------------------------------------------------------------------------
(* Properties.                                                             *)

(* A table that was loaded and that does not overlap its structure holds   *)
(* every symbol read, in ascending order of address, in the order of the   *)
(* file; one that overlaps it has kept at most one symbol, or two when it  *)
(* lies on the capacity (ksorted_array.c:59, symbols.c:75).                *)
TableKept ==
  load.status \in {"ok", "loading"} =>
    /\ gap = 5 =>
         /\ A!Count(table) = Len(symbols)
         /\ \A i \in Indices : A!Get(table, gap, i) = Pointer(i + 1)
         /\ \A i, j \in Indices : i < j => Listed(i).address < Listed(j).address
    /\ Len(symbols) <= CASE gap = 3 -> 2 [] gap \in {2, 4} -> 1 [] OTHER -> MAX_SYMBOLS

(* What the searches answer is right as far as it goes: the symbol of an   *)
(* address is at or below it, and there is one if any symbol is; a symbol  *)
(* that is found by name has that name or one that begins it, or is begun  *)
(* by it; and only a search by name that found something leaves the        *)
(* interrupt flag changed, and then cleared (symbols.c:149-180).           *)
SearchesRight ==
  LET known == {symbols[k] : k \in DOMAIN symbols}
      s == SymbolAt(answer.symbol)
  IN  /\ answer.fn = "name" =>
           IF answer.symbol = NULL
           THEN answer.of \in CodeStart .. CodeEnd => \A k \in known : k.address > answer.of
           ELSE s.address <= answer.of /\ interrupts = answer.before
      /\ answer.fn = "address" =>
           IF answer.symbol = NULL
           THEN (\A k \in known : k.name # answer.of) /\ interrupts = answer.before
           ELSE SameSoFar(s.name, answer.of) /\ ~interrupts
=============================================================================
