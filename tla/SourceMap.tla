------------------------------ MODULE SourceMap ------------------------------
(***************************************************************************)
(* Addresses and source lines: vasm's listing of a module (LineMap), what  *)
(* vlink placed where (LinkMap), the two together for a program that GEMDOS *)
(* loaded somewhere (ProgramLineMap), and the labels of its listings       *)
(* (SymbolTable, src/src/build/).                                          *)
(*                                                                         *)
(* A program is a sequence of modules                                      *)
(*   [source, object, listing, labels, place, size]                        *)
(* `listing` is the text vasm wrote, line by line; `place` and `size` are  *)
(* where the linker put the module in each output section and how much of  *)
(* it there is: what really is in memory, which the code only reads from   *)
(* the listing and the map.  A path is [dir, base]; a bare name has dir "". *)
(***************************************************************************)
EXTENDS Integers, Sequences, FiniteSets, SequencesExt, FiniteSetsExt

CONSTANT Programs  \* what the builds make of the sources: a sequence of programs

Sections == {"text", "data", "bss"}

Bare(path) == [dir |-> "", base |-> path.base]

NamesAPath(path) == path.dir # ""

-----------------------------------------------------------------------------
(* A listing.                                                               *)

\* `-Ftos` and `-Fvobj` spell the sections differently.
CanonicalSection(name) ==
  CASE name \in {"text", "CODE"} -> "text"
    [] name \in {"data", "DATA"} -> "data"
    [] name \in {"bss", "BSS"} -> "bss"

Rank(name) == CHOOSE i \in 1 .. 6 : <<"BSS", "CODE", "DATA", "bss", "data", "text">>[i] = name

ReadLine(read, l) ==
  CASE l.is = "source" -> [read EXCEPT !.file = l.file]
    [] l.is = "section" -> [read EXCEPT !.names = (l.index :> l.name) @@ @,
                                        !.ends = (l.name :> l.end) @@ @]
    [] l.is = "entry" /\ l.index \in DOMAIN read.names ->
         [read EXCEPT !.entries = Append(@, [section |-> read.names[l.index], offset |-> l.offset,
                                             file |-> read.file, line |-> l.line])]
    [] OTHER -> read

\* The entries by section, then by offset; those of one offset as they were listed.
Sorted(entries) ==
  LET Before(i, j) == LET a == entries[i] b == entries[j]
                      IN \/ Rank(a.section) < Rank(b.section)
                         \/ /\ a.section = b.section
                            /\ a.offset < b.offset \/ (a.offset = b.offset /\ i < j)
  IN [k \in DOMAIN entries |->
        entries[CHOOSE i \in DOMAIN entries : Cardinality({j \in DOMAIN entries : Before(j, i)}) = k - 1]]

ParseListing(text) ==
  LET read == FoldLeft(ReadLine, [file |-> [dir |-> "", base |-> ""], names |-> <<>>,
                                  ends |-> <<>>, entries |-> <<>>], text)
  IN [entries |-> Sorted(read.entries), ends |-> read.ends]

\* What the listings of the programs say, read once.
Listings == [p \in DOMAIN Programs |->
              [i \in DOMAIN Programs[p] |-> ParseListing(Programs[p][i].listing)]]

SameSource(recorded, queried) == recorded = queried \/ recorded.base = queried.base

BaseForSection(name, sb) == sb[CanonicalSection(name)]

\* An answer that there may not be is a set of at most one.
First(numbers) == {n \in numbers : \A m \in numbers : n <= m}

\* addressForImpl: the address of the first entry of the line whose section is loaded.
AddressFor(lines, file, line, sb, codeOnly) ==
  LET Wanted(e) == /\ e.line = line /\ SameSource(e.file, file)
                   /\ codeOnly => CanonicalSection(e.section) = "text"
                   /\ BaseForSection(e.section, sb) # 0
  IN {BaseForSection(lines.entries[i].section, sb) + lines.entries[i].offset :
        i \in First({x \in DOMAIN lines.entries : Wanted(lines.entries[x])})}

\* nextCodeLine and nextAddressLine.
NextLine(lines, file, line, codeOnly) ==
  First({e.line : e \in {x \in ToSet(lines.entries) :
           /\ x.line >= line /\ SameSource(x.file, file)
           /\ codeOnly => CanonicalSection(x.section) = "text"}})

\* The entry that starts last at or before the address, whichever its section: a line of it
\* only while the address is within that section.
LineFor(lines, address, sb) ==
  LET Start(e) == BaseForSection(e.section, sb) + e.offset
      at == {i \in DOMAIN lines.entries : /\ BaseForSection(lines.entries[i].section, sb) # 0
                                          /\ Start(lines.entries[i]) <= address}
      top == {i \in at : \A j \in at : Start(lines.entries[j]) <= Start(lines.entries[i])}
      best == {lines.entries[i] : i \in First(top)}
  IN {[file |-> e.file, line |-> e.line] :
        e \in {x \in best : address < BaseForSection(x.section, sb) + lines.ends[x.section]}}

-----------------------------------------------------------------------------
(* The linker's map: its placements in the order of the objects.            *)

OutputSize(program, section) ==
  LET UpTo[i \in 0 .. Len(program)] == IF i = 0 THEN 0 ELSE UpTo[i - 1] + program[i].size[section]
  IN UpTo[Len(program)]

\* The virtual addresses of a map run on from one section to the next.
SectionVa(program, section) ==
  CASE section = "text" -> 0
    [] section = "data" -> OutputSize(program, "text")
    [] section = "bss" -> OutputSize(program, "text") + OutputSize(program, "data")

\* The map's placements of a section: every object with some of it, by its base name alone, and
\* the address it starts at.
Placements(program, section) ==
  [i \in {x \in DOMAIN program : program[x].size[section] > 0} |-> Bare(program[i].object)]

StartOf(program, i, section) == SectionVa(program, section) + program[i].place[section]

\* The name that is meant, if one is: by its path, or else by its base name when no other has it.
MatchModuleName(names, queried) ==
  LET byPath == {i \in DOMAIN names : NamesAPath(queried) /\ names[i] = queried}
      byName == {i \in DOMAIN names : names[i].base = queried.base}
  IN IF queried.base = "" THEN {}
     ELSE IF byPath # {} THEN {[at |-> i, byPath |-> TRUE] : i \in First(byPath)}
     ELSE {[at |-> i, byPath |-> FALSE] : i \in {x \in byName : byName = {x}}}

\* moduleOffset: where a module starts in an output section, if the map says.
ModuleOffset(program, object, section) ==
  {[offset |-> StartOf(program, m.at, section) - SectionVa(program, section), byPath |-> m.byPath] :
     m \in MatchModuleName(Placements(program, section), object)}

-----------------------------------------------------------------------------
(* The map of a program: the modules whose listings could be read, the      *)
(* linker's map unless it could not be, and the bases it was last given.    *)
(*   [build, lost, unlinked, live]                                          *)

NoBases == [s \in Sections |-> 0]

NoMap == [build |-> 0, lost |-> {}, unlinked |-> FALSE, live |-> NoBases]

Resolved(pm) == pm.live["text"] # 0

\* The modules, by their places in the program: those whose listing was read.
Modules(pm) ==
  {i \in IF pm.build = 0 THEN {} ELSE DOMAIN Programs[pm.build] : i \notin pm.lost}

Module(pm, i) == Programs[pm.build][i]

UsesLinker(program) == Len(program) > 1

HasLinkMap(pm) == pm.build # 0 /\ UsesLinker(Programs[pm.build]) /\ ~pm.unlinked

ObjectNameIsShared(pm, object) ==
  Cardinality({i \in Modules(pm) : Module(pm, i).object.base = object.base}) > 1

\* A placement found by its name alone counts only while one module has the name.
PlacementOffset(pm, i, section) ==
  {o \in ModuleOffset(Programs[pm.build], Module(pm, i).object, section) :
     o.byPath \/ ~ObjectNameIsShared(pm, Module(pm, i).object)}

\* Fault: every module begins where the program does.
BasesOf_Whole(pm, i) == pm.live

\* setLiveBases, for one module: no base is 0.
BasesOf(pm, i) ==
  IF HasLinkMap(pm)
    THEN [s \in Sections |-> LET offsets == PlacementOffset(pm, i, s)
                             IN IF offsets = {} THEN 0 ELSE pm.live[s] + (CHOOSE o \in offsets : TRUE).offset]
    ELSE IF Cardinality(Modules(pm)) = 1 THEN pm.live ELSE NoBases

Placed(pm, i) ==
  IF HasLinkMap(pm) THEN \E s \in Sections : PlacementOffset(pm, i, s) # {}
                     ELSE Cardinality(Modules(pm)) = 1

ModuleForSource(pm, file) ==
  {m.at : m \in MatchModuleName([i \in Modules(pm) |-> Module(pm, i).source], file)}

\* codeAddressFor and addressFor of the program.
ProgramAddressFor(pm, file, line, codeOnly) ==
  UNION {AddressFor(m.lines, file, line, m.bases, codeOnly) :
           m \in {[lines |-> Listings[pm.build][i], bases |-> BasesOf(pm, i)] :
                    i \in {x \in ModuleForSource(pm, file) : Resolved(pm) /\ Placed(pm, x)}}}

ProgramNextLine(pm, file, line, codeOnly) ==
  UNION {NextLine(lines, file, line, codeOnly) :
           lines \in {Listings[pm.build][i] : i \in ModuleForSource(pm, file)}}

\* The first module that has a line for the address.
ProgramLineFor(pm, address) ==
  LET shown == UNION {{[at |-> m.at, line |-> l] : l \in LineFor(Listings[pm.build][m.at], address, m.bases)} :
                        m \in {[at |-> i, bases |-> BasesOf(pm, i)] :
                                 i \in {x \in Modules(pm) : Resolved(pm) /\ Placed(pm, x)}}}
  IN {x.line : x \in {y \in shown : \A z \in shown : y.at <= z.at}}

-----------------------------------------------------------------------------
(* The labels.                                                              *)

\* symbolsFromListing, filtered to the module's own source; then the modules' one after the other.
Symbols(pm) ==
  IF pm.build = 0 THEN <<>>
  ELSE FlattenSeq([i \in DOMAIN Programs[pm.build] |->
         IF i \in pm.lost THEN <<>>
         ELSE SelectSeq(Programs[pm.build][i].labels,
                        LAMBDA s : SameSource(s.file, Programs[pm.build][i].source))])

\* The first symbol of the name.
Named(pm, name) ==
  LET symbols == Symbols(pm)
  IN {symbols[i] : i \in First({x \in DOMAIN symbols : symbols[x].name = name})}

\* labelSite: where a breakpoint on the label goes, if it has code.
LabelSite(pm, name) ==
  UNION {{[file |-> s.file.base, line |-> line] : line \in ProgramNextLine(pm, s.file, s.line, TRUE)} :
           s \in Named(pm, name)}

\* labelAddress: the address of the label's own line, or else that of the next line there is; or
\* why it has none.  A name that is unknown has no answer.
LabelAddress(pm, name) ==
  LET On(s, lines) == UNION {ProgramAddressFor(pm, s.file, line, FALSE) : line \in lines}
      Found(own, next) ==
        IF own \cup next = {} THEN {[problem |-> "NoAddress", address |-> 0]}
        ELSE {[problem |-> "None", address |-> a] : a \in IF own # {} THEN own ELSE next}
  IN UNION {CASE s.equate -> {[problem |-> "Equate", address |-> 0]}
              [] ~s.equate /\ ~Resolved(pm) -> {[problem |-> "NotLive", address |-> 0]}
              [] ~s.equate /\ Resolved(pm) ->
                   UNION {Found(tried[1], tried[2]) :
                            tried \in {<<On(s, {s.line}), On(s, ProgramNextLine(pm, s.file, s.line, FALSE))>>}}
              : s \in Named(pm, name)}

=============================================================================
