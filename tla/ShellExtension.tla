--------------------------- MODULE ShellExtension ---------------------------
(***************************************************************************)
(* aahl_shellext.dll: the COM object Explorer asks for menu items about a  *)
(* selection and later, by id or by name, for the verb behind an item; and *)
(* the registry keys that make Explorer load it.  Explorer itself is the   *)
(* environment: it creates an object only while the class is registered,   *)
(* initializes it once, and asks it for one menu.                          *)
(***************************************************************************)
EXTENDS Integers, Sequences

CONSTANTS
  MaxArchives,   \* MAX_ARCHIVES: selected items scanned for an archive
  MaxItems,      \* bound: items selected
  MaxId          \* bound: command ids

VARIABLES
  keys,        \* the registry entries that exist
  object,      \* "none", "fresh", "ready": Initialize has run, "queried" or "faulted"
  selection,   \* `selection`; None is <<>>
  idCmdFirst,  \* `id_cmd_first`; None is 0, as unwrap_or(0) reads it
  shown,       \* the verbs of the menu items inserted
  base,        \* the first id Explorer offered for them
  answered,    \* the last GetCommandString about an item: item and verb, or NoAnswer
  ran,         \* the last InvokeCommand of an item by number, likewise
  launches     \* what the actions started, as a set

menu == <<object, selection, idCmdFirst, shown, base>>
vars == <<keys, menu, answered, ran, launches>>

Ids   == 0..MaxId
\* What Explorer hands over: for each item, whether it is an archive.
Selections == UNION {[1..n -> BOOLEAN] : n \in 1..MaxItems}

Verbs == {"add", "extractHere", "extractTo", "test"}
MaxVerbs == 4
NoVerb   == "none"
NoAnswer == [item |-> 0, verb |-> NoVerb]

\* Written in this order; deleted in four trees, the class with all below it first.
Entries == <<"class", "server", "threading", "fileHandler", "folderHandler", "installDir">>
Trees   == <<{"class", "server", "threading"}, {"fileHandler"}, {"folderHandler"}, {"installDir"}>>

Init == /\ keys = {} /\ object = "none" /\ selection = <<>> /\ idCmdFirst = 0
        /\ shown = <<>> /\ base = 0 /\ answered = NoAnswer /\ ran = NoAnswer /\ launches = {}

-----------------------------------------------------------------------------
(* Registration: every write or deletion may be refused; the call then stops there. *)

\* `register` takes nothing back of what it wrote.
Register == \E n \in 0..Len(Entries) :
  /\ keys' = keys \cup {Entries[i] : i \in 1..n}
  /\ UNCHANGED <<menu, answered, ran, launches>>

\* `unregister` that fails leaves handlers naming a class that is gone.
Unregister == \E n \in 0..Len(Trees) :
  /\ keys' = keys \ UNION {Trees[i] : i \in 1..n}
  /\ UNCHANGED <<menu, answered, ran, launches>>

-----------------------------------------------------------------------------
(* The menu *)

HasArchive(sel) == \E i \in 1..Len(sel) : i <= MaxArchives /\ sel[i]

\* `build`.
Build(sel) == IF sel = <<>> THEN <<>>
              ELSE IF HasArchive(sel) THEN <<"add", "extractHere", "extractTo", "test">>
              ELSE <<"add">>

\* `verb_from_id`: relative to `first` if that names a verb, a bare offset otherwise.
VerbFromId(verbs, id, first) ==
  IF id >= first /\ id - first < Len(verbs) THEN verbs[id - first + 1]
  ELSE IF id < Len(verbs) THEN verbs[id + 1]
  ELSE NoVerb

\* Explorer follows a handler to the class and its server: DllGetClassObject, then
\* CreateInstance, for every menu a new object.
CreateInstance ==
  /\ {"class", "server"} \subseteq keys /\ keys \cap {"fileHandler", "folderHandler"} # {}
  /\ object' = "fresh" /\ selection' = <<>> /\ idCmdFirst' = 0
  /\ shown' = <<>> /\ base' = 0 /\ answered' = NoAnswer /\ ran' = NoAnswer
  /\ UNCHANGED <<keys, launches>>

\* A data object that cannot be read leaves the selection as it was, without an error.
Initialize ==
  /\ object = "fresh" /\ object' = "ready"
  /\ selection' \in Selections \cup {selection}
  /\ UNCHANGED <<keys, idCmdFirst, shown, base, answered, ran, launches>>

\* The items go in one by one until the ids run out or an insertion fails; `first` is kept
\* if any went in.
QueryContextMenu(first, last, defaultOnly) ==
  /\ object = "ready" /\ object' = "queried" /\ base' = first
  /\ \E n \in 0..Len(Build(selection)) :
       /\ defaultOnly => n = 0
       /\ n > 0 => first + n - 1 <= last
       /\ shown' = SubSeq(Build(selection), 1, n)
       /\ idCmdFirst' = IF n > 0 THEN first ELSE idCmdFirst
  /\ UNCHANGED <<keys, selection, answered, ran, launches>>

\* Explorer asks for the name of an item it shows, by offset or by id.
GetCommandString(k, id) ==
  /\ object = "queried" /\ k \in 1..Len(shown) /\ id \in {k - 1, base + k - 1}
  /\ answered' = [item |-> k, verb |-> VerbFromId(Build(selection), id, idCmdFirst)]
  /\ UNCHANGED <<keys, menu, ran, launches>>

-----------------------------------------------------------------------------
(* Invocation *)

\* `archive_path` looks at the whole selection, not only the items `build` scanned; 0 is
\* the archive named after the first item.
ArchivePath(sel) ==
  LET found == {i \in 1..Len(sel) : sel[i]}
  IN  IF found = {} THEN 0 ELSE CHOOSE i \in found : \A j \in found : i <= j

Program(verb) == IF verb = "add" THEN "gui" ELSE "cli"

Execute(verb) ==
  launches' = IF verb = NoVerb THEN launches
              ELSE launches \cup {[program |-> Program(verb), verb |-> verb,
                                   target |-> ArchivePath(selection)]}

\* lpVerb points to a name: one of the four is run, offered or not; any other name falls
\* through to the id form with the low word of the pointer.
InvokeByName(name, lowWord) ==
  /\ object = "queried" /\ selection # <<>>
  /\ Execute(IF name \in Verbs THEN name
             ELSE VerbFromId(Build(selection), lowWord, idCmdFirst))
  /\ UNCHANGED <<keys, menu, answered, ran>>

\* lpVerb holds the number of an item: 0 is taken for no verb at all; any other is read as
\* the address of a name before it is tried as an id, and no process has such low addresses.
\* Only a caller who says that the name is in lpVerbW, and leaves that null, is spared this.
InvokeById(k, id, wideNull) ==
  /\ object = "queried" /\ k \in 1..Len(shown) /\ id \in {k - 1, base + k - 1}
  /\ LET verb == IF id # 0 /\ wideNull THEN VerbFromId(Build(selection), id, idCmdFirst)
                 ELSE NoVerb
     IN  ran' = [item |-> k, verb |-> verb] /\ Execute(verb)
  /\ object' = IF id = 0 \/ wideNull THEN object ELSE "faulted"
  /\ UNCHANGED <<keys, selection, idCmdFirst, shown, base, answered>>

-----------------------------------------------------------------------------
ItemIds == 0..(MaxId + MaxVerbs)

Next ==
  \/ Register \/ Unregister \/ CreateInstance \/ Initialize
  \/ \E first, last \in Ids, d \in BOOLEAN : QueryContextMenu(first, last, d)
  \/ \E k \in 1..MaxVerbs, id \in ItemIds :
       GetCommandString(k, id) \/ \E wideNull \in BOOLEAN : InvokeById(k, id, wideNull)
  \/ \E name \in Verbs \cup {NoVerb}, low \in Ids : InvokeByName(name, low)

Spec == Init /\ [][Next]_vars

-----------------------------------------------------------------------------
\* Both forms the comment on `verb_from_id` accepts work when an item is invoked: its id
\* and its bare offset run the verb the item shows.
ItemsCanBeInvoked == ran.item # 0 => ran.verb = shown[ran.item]

\* The same of the names Explorer asks for.
NamesAreShown == answered.item # 0 => answered.verb = shown[answered.item]

TypeOK ==
  /\ keys \subseteq {Entries[i] : i \in 1..Len(Entries)}
  /\ object \in {"none", "fresh", "ready", "queried", "faulted"}
  /\ selection \in Seq(BOOLEAN) /\ shown \in Seq(Verbs)
  /\ idCmdFirst \in Nat /\ base \in Nat
  /\ {answered, ran} \subseteq [item : 0..MaxVerbs, verb : Verbs \cup {NoVerb}]
=============================================================================
