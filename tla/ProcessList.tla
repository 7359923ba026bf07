---------------------------- MODULE ProcessList ----------------------------
(***************************************************************************)
(* The local allow-list of applications, config/apps.json (tools/apps.py), *)
(* and everything that writes it: the routes of the control panel, served  *)
(* by a pool of threads (main.py), and the command configure_apps.py, a    *)
(* process of its own. A writer loads the file, changes its copy, checks   *)
(* the whole of it and replaces the file; no lock covers the two accesses. *)
(*                                                                         *)
(* A request that is refused (an entry over its limits, a shell as the     *)
(* launcher, an ambiguous label) changes nothing and is not an action.     *)
(***************************************************************************)
EXTENDS Naturals, FiniteSets

CONSTANTS
    App,        \* identifiers, up to case
    NoApp,
    Nickname,   \* aliases that are not identifiers, up to case
    Writer      \* threads of the panel and runs of the command

VARIABLES
    apps,       \* the file: the entry of each identifier
    writer      \* the frame of each writer: the process that a save of the
                \* panel answers with (id), the entries it may touch (names), its copy
                \* of the file, and whether no other writer has replaced the
                \* file since the writer last read or wrote it (current)

processVars == <<apps, writer>>

\* An entry has at least one alias; requests give one each (bound).
Absent == [aliases |-> {}, enabled |-> FALSE]
Entries == [aliases : {{l} : l \in App \cup Nickname}, enabled : BOOLEAN]
Contents == [App -> Entries \cup {Absent}]
Empty == [a \in App |-> Absent]
Listed(c) == {a \in App : c[a] # Absent}

Resting == [at |-> "rest", id |-> NoApp, names |-> {},
            copy |-> Empty, current |-> FALSE]

ProcessTypeOK ==
    /\ apps \in Contents
    /\ writer \in [Writer ->
                     [at : {"rest", "replace", "reread"},
                      id : App \cup {NoApp}, names : SUBSET App,
                      copy : Contents, current : BOOLEAN]]

\* An empty local file; every other valid content is reached from it.
ProcessInit ==
    /\ apps = Empty
    /\ writer = [w \in Writer |-> Resting]

-----------------------------------------------------------------------------
\* find_app: the enabled applications that answer to a label.
Labels(c, a) == {a} \cup c[a].aliases
Find(label) == {a \in Listed(apps) : apps[a].enabled /\ label \in Labels(apps, a)}

\* validate_apps_config: no label names two applications.
AliasesApart(c) ==
    \A a, b \in Listed(c) : a # b => c[a].aliases \cap c[b].aliases = {}
ValidApps(c) ==
    \A a, b \in Listed(c) : a # b => Labels(c, a) \cap Labels(c, b) = {}

\* load_apps(include_disabled=True), which every writer starts from.
LoadEnabled == [a \in App |-> IF apps[a].enabled THEN apps[a] ELSE Absent]
Load == apps

\* _read_payload of the command: the same file under the same rules.
ReadPayload == apps

\* The writer has changed its copy and checked it; the replace is left.
Prepare(w, id, names, copy) ==
    /\ writer[w].at = "rest"
    /\ ValidApps(copy)
    /\ writer' = [writer EXCEPT ![w] = [at |-> "replace", id |-> id,
                                        names |-> names, copy |-> copy,
                                        current |-> TRUE]]
    /\ UNCHANGED apps

\* api_control_save_process without and with an original identifier.
SaveNew(w, a, entry) ==
    /\ a \notin Listed(Load)
    /\ Prepare(w, a, {a}, [Load EXCEPT ![a] = entry])

Renamed(original, a, entry) == [Load EXCEPT ![original] = Absent, ![a] = entry]
SaveExisting(w, original, a, entry) ==
    /\ original \in Listed(Load) /\ (a \in Listed(Load) => a = original)
    /\ Prepare(w, a, {original, a}, Renamed(original, a, entry))

\* api_control_delete_process.
Delete(w, a) ==
    /\ a \in Listed(Load)
    /\ Prepare(w, NoApp, {a}, [Load EXCEPT ![a] = Absent])

\* configure_apps --write: an application of the same name is replaced, and is
\* enabled again, because the command writes no "enabled".
Configure(w, a, aliases) ==
    Prepare(w, NoApp, {a},
            [ReadPayload EXCEPT ![a] = [aliases |-> aliases, enabled |-> TRUE]])

\* os.replace. The other writers' copies are no longer what the file says.
Replace(w) ==
    /\ writer[w].at = "replace"
    /\ apps' = writer[w].copy
    /\ writer' = [v \in Writer |->
                    IF v # w THEN [writer[v] EXCEPT !.current = FALSE]
                    ELSE IF writer[w].id # NoApp
                         THEN [writer[w] EXCEPT !.at = "reread", !.names = {},
                                                !.copy = Empty, !.current = TRUE]
                         ELSE Resting]

\* The temporary file cannot be written or renamed: the old file stays.
ReplaceFails(w) ==
    /\ writer[w].at = "replace"
    /\ writer' = [writer EXCEPT ![w] = Resting]
    /\ UNCHANGED apps

\* The answer to a save looks the process up in the file; next() of nothing
\* is not an error that the route expects, and becomes an error 500.
Reread(w) ==
    /\ writer[w].at = "reread"
    /\ writer' = [writer EXCEPT ![w] = Resting]
    /\ UNCHANGED apps

ProcessNext ==
    \E w \in Writer :
       \/ Replace(w) \/ ReplaceFails(w) \/ Reread(w)
       \/ \E a \in App :
            \/ Delete(w, a)
            \/ \E e \in Entries :
                 \/ SaveNew(w, a, e)
                 \/ \E o \in App : SaveExisting(w, o, a, e)
                 \/ Configure(w, a, e.aliases)

ProcessSpec == ProcessInit /\ [][ProcessNext]_processVars

-----------------------------------------------------------------------------
(* Properties *)

\* Whatever the writers overwrite of each other, a label finds at most
\* one application: what a command starts never depends on the file's order.
LabelsAreUnambiguous ==
    \A label \in App \cup Nickname : Cardinality(Find(label)) <= 1

\* A writer changes or removes an entry that its request does not name only
\* when another writer has replaced the file after it read it; alone, it
\* preserves every other entry, the disabled ones included.
OthersAreKept ==
    [][\A w \in Writer :
         writer[w].at = "replace" /\ apps' # apps /\ writer'[w].at # "replace"
            => \/ ~writer[w].current
               \/ \A a \in App \ writer[w].names : apps'[a] = apps[a]]_processVars

-----------------------------------------------------------------------------
\* The inductive invariant: a copy that is about to replace the file is valid,
\* as the file is, and while it is current it differs from the file only in the
\* entries that the request names.
ProcessInv ==
    /\ ProcessTypeOK
    /\ ValidApps(apps)
    /\ \A w \in Writer : writer[w].at = "replace" =>
          /\ ValidApps(writer[w].copy)
          /\ writer[w].current =>
                \A a \in App \ writer[w].names : writer[w].copy[a] = apps[a]
=============================================================================
