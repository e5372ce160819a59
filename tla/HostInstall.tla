----------------------------- MODULE HostInstall -----------------------------
(***************************************************************************)
(* Registering a server with the agent hosts (src/src/adapters/mod.rs): the *)
(* install and remove operations read, change and write configuration files *)
(* that belong to the user and to the hosts, one after the other, and report *)
(* what became of each.                                                      *)
(*                                                                         *)
(* Of a file the model keeps whether it can be used at all, what it holds    *)
(* under each declared server's name, and the state of the one other thing   *)
(* managed in it (a marked block, an ignore rule, a hook).  Each file's       *)
(* read, change and write are one step: nobody else writes it meanwhile.      *)
(***************************************************************************)
EXTENDS Naturals, Sequences

CONSTANTS
  Servers,     \* declared servers
  RepoHosts,   \* server -> the hosts it is written to at repository scope
  Approved,    \* servers of which Codex is told which tools it may use
  Unreadable,  \* files that may come to hold bytes that are not UTF-8
  MaxEdits     \* bound: changes by the user and the hosts, and writes cut short

Hosts == {"claude", "codex"}

ASSUME InstallAssumption ==
  /\ RepoHosts \in [Servers -> SUBSET Hosts]
  /\ Approved \subseteq Servers
  /\ MaxEdits \in Nat

RepoServerFiles == {".mcp.json", ".codex/config.toml"}
UserFiles == {"codexUser", "claudeUser"}
TextFiles == {".codex/.gitignore", ".claude/.gitignore", "CLAUDE.md"}
\* CLAUDE.md stands for AGENTS.md too, which is handled next and in the same way.
Files == RepoServerFiles \union UserFiles \union TextFiles
           \union {".claude/settings.local.json", ".codex/hooks.json"}

Dirs == {".codex", ".claude"}
DirOf(f) == IF f \in {".codex/config.toml", ".codex/.gitignore", ".codex/hooks.json"}
            THEN {".codex"}
            ELSE IF f \in {".claude/settings.local.json", ".claude/.gitignore"}
            THEN {".claude"} ELSE {}

\* current: exactly what is written today.  outdated: ours, with another root,
\* keys that are no longer written, or a superseded transport.  foreign:
\* somebody else's, under the same name.
PlainEntries == {"none", "current", "outdated", "foreign"}

\* In .codex/config.toml, which is changed by text, there are others.  stuck: ours and
\* outdated, in a form that the search for its header misses.  toolless: that, without
\* the tool policy.  brittle: that, in an inline table, to which nothing can be added.
\* allowed: somebody else's, with our tool policy added.  rigid: somebody else's, to
\* which nothing can be added, for it is no table or an inline one.
Entries == PlainEntries \union {"stuck", "toolless", "brittle", "allowed", "rigid"}
Owned == {"current", "outdated", "stuck", "toolless", "brittle"}
Others == {"foreign", "allowed", "rigid"}

\* The spellings of one project's root in ~/.claude.json: the host's own, which
\* comes first in the map, and the verbatim one that older versions wrote.
Keys == {"host", "verbatim"}

NoEntries == [s \in Servers |-> "none"]
NoProject == [there |-> FALSE, more |-> FALSE, entry |-> NoEntries]
Document == [kind |-> "document", table |-> FALSE, entry |-> NoEntries,
             managed |-> "none", project |-> [k \in Keys |-> NoProject]]
Absent == [Document EXCEPT !.kind = "absent"]
Misshapen == [Document EXCEPT !.kind = "misshapen"]

VARIABLES
  file,     \* what each file holds
  stray,    \* what is in the place of a directory, if it is not one
  op,       \* the operation under way
  todo,     \* files it has yet to handle
  report,   \* what it reported of the file it handled last
  settled,  \* the operation that completed last, nothing having changed since
  again,    \* the operation repeats the settled one
  edits

vars == <<file, stray, op, todo, report, settled, again, edits>>

Plan ==
  [installRepo |-> <<".mcp.json", ".codex/config.toml", ".codex/.gitignore",
                     ".claude/settings.local.json", ".claude/.gitignore",
                     ".codex/hooks.json", "CLAUDE.md">>,
   removeHooks |-> <<".codex/hooks.json">>,
   installUser |-> <<"codexUser", "claudeUser">>,
   removeUser |-> <<"codexUser", "claudeUser">>,
   installProject |-> <<"claudeUser">>,
   removeProject |-> <<"claudeUser">>]
Operations == DOMAIN Plan

Reports == {"none", "created", "updated", "unchanged", "skipped"}

\* unreadable: not UTF-8.  malformed: it does not parse, or its hooks or settings do not
\* have their shape.  misshapen: it parses, and what should be a table is something else
\* (in ~/.claude.json, both of them are).
Kinds == {"absent", "unreadable", "malformed", "misshapen", "document"}
Strays == {"nothing", "file", "dangling"}   \* dangling: a link that leads nowhere

TypeOK ==
  /\ file \in [Files ->
       [kind : Kinds, table : BOOLEAN, entry : [Servers -> Entries],
        managed : {"none", "old", "current"},
        project : [Keys -> [there : BOOLEAN, more : BOOLEAN,
                            entry : [Servers -> Entries]]]]]
  /\ stray \in [Dirs -> Strays]
  /\ op \in Operations \union {"none"}
  /\ todo \in Seq(Files)
  /\ report \in Reports
  /\ settled \in Operations \union {"none"}
  /\ again \in BOOLEAN
  /\ edits \in 0..MaxEdits

\* What an older version may have left: outdated registrations in every scope,
\* the project's under the verbatim spelling.
Legacy(ss) ==
  IF ss = {} THEN Absent
  ELSE LET e == [s \in Servers |-> IF s \in ss THEN "outdated" ELSE "none"]
       IN [Document EXCEPT !.table = TRUE, !.entry = e]

LegacyUser(ss) ==
  IF ss = {} THEN Absent
  ELSE [Legacy(ss) EXCEPT
          !.project["verbatim"] = [there |-> TRUE, more |-> FALSE, entry |-> Legacy(ss).entry]]

Init ==
  /\ \E ss \in {{}, Servers} :
       file = [f \in Files |-> IF f = "claudeUser" THEN LegacyUser(ss)
                               ELSE IF f \in RepoServerFiles \union UserFiles THEN Legacy(ss)
                               ELSE Absent]
  /\ stray = [dir \in Dirs |-> "nothing"]
  /\ op = "none" /\ todo = <<>>
  /\ report = "none"
  /\ settled = "none" /\ again = FALSE
  /\ edits = 0

-----------------------------------------------------------------------------
(* What each adapter makes of a file it read: the file, whether it skipped   *)
(* it, and whether it wrote.                                                 *)

Skip(d) == [doc |-> d, skipped |-> TRUE, writes |-> FALSE]
Write(d) == [doc |-> d, skipped |-> FALSE, writes |-> TRUE]
WriteIf(changed, d) == [doc |-> d, skipped |-> FALSE, writes |-> changed]

\* A file that cannot be read as text counts as absent.
ReadOrEmpty(d) == IF d.kind \in {"absent", "unreadable"} THEN Document ELSE d

\* What becomes of an entry of a repository file: nobody else's is touched, and
\* a server withheld from the host is taken out again.
ClaudeEntry(s, e) ==
  IF "claude" \in RepoHosts[s]
    THEN IF e \in Others THEN e ELSE "current"
    ELSE IF e \in Owned THEN "none" ELSE e

\* Codex's alike, if its header is found.  Tools that are not in an entry of this name
\* are added to it, whoever's it is.
CodexEntry(s, e) ==
  CASE "codex" \notin RepoHosts[s] -> IF e \in {"current", "outdated"} THEN "none" ELSE e
    [] OTHER -> CASE e \in {"none", "outdated"} -> "current"
                  [] e = "foreign" /\ s \in Approved -> "allowed"
                  [] e = "toolless" /\ s \in Approved -> "stuck"
                  [] OTHER -> e

\* Mutant: an entry under the name of a declared server counts as its own.
RepoEntriesByName(host, d) ==
  [s \in Servers |-> IF host \in RepoHosts[s] THEN "current" ELSE "none"]

RepoEntries(host, d) ==
  [s \in Servers |-> IF host = "claude" THEN ClaudeEntry(s, d.entry[s])
                     ELSE CodexEntry(s, d.entry[s])]

Unparsable(d) == d.kind \in {"malformed", "misshapen"}

EnsureMcpJson(d) ==
  IF Unparsable(d) THEN Skip(d)
  ELSE LET b == ReadOrEmpty(d)
       IN Write([b EXCEPT !.table = TRUE, !.entry = RepoEntries("claude", b)])

\* What is added as text to something that is no table makes the file unparsable.
Unextendable(d) ==
  \E s \in Servers :
    /\ "codex" \in RepoHosts[s]
    /\ \/ d.kind = "misshapen"
       \/ d.entry[s] = "rigid"
       \/ d.entry[s] = "brittle" /\ s \in Approved

\* Maintained by text: a file that needs nothing is not written, or created.
EnsureCodexRepoConfig(d) ==
  IF d.kind = "malformed" THEN Skip(d)
  ELSE LET b == ReadOrEmpty(d)
           e == RepoEntries("codex", b)
       IN IF Unextendable(b) THEN Write([b EXCEPT !.kind = "malformed"])
          ELSE IF b.kind = "misshapen" \/ e = b.entry THEN WriteIf(FALSE, d)
          ELSE Write([b EXCEPT !.table = e # NoEntries, !.entry = e])

\* One foreign entry, and the whole map is left as it was.
Upsert(entry) ==
  IF \E s \in Servers : entry[s] \in Others
    THEN [skipped |-> TRUE, entry |-> entry]
    ELSE [skipped |-> FALSE, entry |-> [s \in Servers |-> "current"]]

EnsureUserConfig(d) ==
  IF Unparsable(d) THEN Skip(d)
  ELSE LET b == ReadOrEmpty(d)
           u == Upsert(b.entry)
       IN IF u.skipped THEN Skip(d)
          ELSE Write([b EXCEPT !.table = TRUE, !.entry = u.entry])

WithoutOwned(entry) ==
  [s \in Servers |-> IF entry[s] \in Owned THEN "none" ELSE entry[s]]

\* Where there should be a table and is none, there is nothing to remove.
RemoveUserConfig(d) ==
  IF d.kind = "misshapen" THEN WriteIf(FALSE, d)
  ELSE IF d.kind # "document" THEN Skip(d)
  ELSE LET e == WithoutOwned(d.entry)
       IN WriteIf(e # d.entry, [d EXCEPT !.entry = e])

\* Here only an absent file counts as absent.
EnsureProjectConfig(d, k) ==
  IF d.kind = "unreadable" \/ Unparsable(d) THEN Skip(d)
  ELSE LET u == Upsert(d.project[k].entry)
       IN IF u.skipped THEN Skip(d)
          ELSE Write([d EXCEPT !.kind = "document",
                               !.project[k].there = TRUE,
                               !.project[k].entry = u.entry])

\* Under every key; an entry with the verbatim spelling that held only our
\* servers goes with them.
RemoveProjectConfig(d, ks) ==
  IF d.kind = "misshapen" THEN WriteIf(FALSE, d)
  ELSE IF d.kind # "document" THEN Skip(d)
  ELSE LET Kept(k) == [d.project[k] EXCEPT !.entry = WithoutOwned(@)]
           Ours(k) == k = "verbatim" /\ ~d.project[k].more /\ Kept(k).entry = NoEntries
           p == [k \in Keys |->
                   IF k \notin ks \/ ~d.project[k].there THEN d.project[k]
                   ELSE IF Ours(k) THEN NoProject ELSE Kept(k)]
       IN WriteIf(p # d.project, [d EXCEPT !.project = p])

EquivalentKeys(d) ==
  IF d.kind = "document" THEN {k \in Keys : d.project[k].there} ELSE {}

\* The first of the keys that exist, or the host's.
ProjectKey(d) == IF EquivalentKeys(d) = {"verbatim"} THEN "verbatim" ELSE "host"

\* Mutant: the twin under the other spelling is left as it is.
InstallProjectOneKey(d) == EnsureProjectConfig(d, ProjectKey(d))

\* Written under one key, taken out from under the others.
InstallProject(d) ==
  LET out == EnsureProjectConfig(d, ProjectKey(d))
      stale == EquivalentKeys(d) \ {ProjectKey(d)}
  IN IF out.skipped \/ stale = {} THEN out
     ELSE Write(RemoveProjectConfig(out.doc, stale).doc)

EnsureClaudeSettings(d) ==
  IF d.kind = "malformed" THEN Skip(d)
  ELSE Write([ReadOrEmpty(d) EXCEPT !.managed = "current"])

\* Mutant: the block is put in front, whether there is one already or not.
EnsureManagedMarkdownAnew(d) ==
  IF d.kind = "unreadable" THEN Write([Document EXCEPT !.managed = "current"])
  ELSE Write([ReadOrEmpty(d) EXCEPT
                !.managed = IF d.managed = "none" THEN "current" ELSE "old"])

\* The block is replaced where its markers are, or put in front.
EnsureManagedMarkdown(d) ==
  LET b == [ReadOrEmpty(d) EXCEPT !.managed = "current"]
  IN WriteIf(b # d, b)

EnsureManagedGitignore(d) ==
  LET b == [ReadOrEmpty(d) EXCEPT !.managed = "current"]
  IN WriteIf(b # d, b)

UpdateCodexHooks(d, remove) ==
  IF d.kind \in {"unreadable", "malformed"} \/ (d.kind = "absent" /\ remove) THEN Skip(d)
  ELSE LET b == [ReadOrEmpty(d) EXCEPT !.managed = IF remove THEN "none" ELSE "current"]
       IN WriteIf(b # d, b)

\* What operation o does with file f when it finds d there.
Materialize(o, f, d) ==
  CASE f = ".mcp.json" -> EnsureMcpJson(d)
    [] f = ".codex/config.toml" -> EnsureCodexRepoConfig(d)
    [] f = ".claude/settings.local.json" -> EnsureClaudeSettings(d)
    [] f = "CLAUDE.md" -> EnsureManagedMarkdown(d)
    [] f \in {".codex/.gitignore", ".claude/.gitignore"} -> EnsureManagedGitignore(d)
    [] f = ".codex/hooks.json" -> UpdateCodexHooks(d, o = "removeHooks")
    [] o = "installUser" -> EnsureUserConfig(d)
    [] o = "removeUser" -> RemoveUserConfig(d)
    [] o = "installProject" -> InstallProject(d)
    [] o = "removeProject" -> RemoveProjectConfig(d, EquivalentKeys(d))

\* The report compares the bytes before and after.
Action(before, out) ==
  IF out.skipped \/ out.doc.kind = "absent" THEN "skipped"
  ELSE IF before.kind = "absent" THEN "created"
  ELSE IF before = out.doc THEN "unchanged" ELSE "updated"

-----------------------------------------------------------------------------
(* The operations.                                                         *)

Idle == todo = <<>>

Begin(o) ==
  /\ Idle
  /\ op' = o
  /\ todo' = Plan[o]
  /\ report' = "none"
  /\ again' = (settled = o)
  /\ settled' = "none"
  /\ UNCHANGED <<file, stray, edits>>

Blocked(f) == \E dir \in DirOf(f) : stray[dir] # "nothing"

\* The settings do not look for what is in the place of their directory, nor do the
\* hooks of Codex, which read a file there as an error and a dangling link as absence.
DirectoryFails(f) ==
  \/ f = ".claude/settings.local.json" /\ Blocked(f)
  \/ f = ".codex/hooks.json" /\ op = "installRepo" /\ stray[".codex"] = "dangling"

\* An error ends the operation; what was written stays.
Abort ==
  /\ op' = "none" /\ todo' = <<>> /\ report' = "none" /\ again' = FALSE
  /\ UNCHANGED <<stray, settled>>

CreateDirFails ==
  /\ ~Idle /\ DirectoryFails(Head(todo))
  /\ Abort
  /\ UNCHANGED <<file, edits>>

Toml == {".codex/config.toml", "codexUser"}

\* What is left of entries when the text ends early.  The one it ends in lacks what
\* makes it ours, or current.
CutShort(entry) ==
  {e \in [Servers -> Entries] :
     \A s \in Servers : e[s] \in IF entry[s] = "none" THEN {"none"}
                                 ELSE {"none", "foreign", "outdated", entry[s]}}

\* fs::write empties the file and then writes, so it may leave a part of the text that
\* it was to write: in JSON that does not parse, in TOML it may.
Torn(f, d) ==
  IF f \in TextFiles THEN {[Document EXCEPT !.managed = m] : m \in {"none", "current"}}
  ELSE {[d EXCEPT !.kind = "malformed"]} \union
       IF f \in Toml THEN {[Document EXCEPT !.table = (e # NoEntries), !.entry = e] :
                             e \in CutShort(d.entry)}
       ELSE {}

\* Of the two writes of a project install the second may fail.
FirstWrite(d) == EnsureProjectConfig(d, ProjectKey(d)).doc

WriteFails ==
  /\ ~Idle /\ ~Blocked(Head(todo))
  /\ LET f == Head(todo)
         out == Materialize(op, f, file[f])
     IN /\ out.writes
        /\ \/ UNCHANGED <<file, edits>>
           \/ /\ edits < MaxEdits /\ edits' = edits + 1
              /\ \E d \in Torn(f, out.doc) : file' = [file EXCEPT ![f] = d]
           \/ /\ op = "installProject" /\ EquivalentKeys(file[f]) = Keys
              /\ UNCHANGED edits
              /\ file' = [file EXCEPT ![f] = FirstWrite(file[f])]
  /\ Abort

HandleFile ==
  /\ ~Idle
  /\ LET f == Head(todo)
         out == IF Blocked(f) THEN Skip(file[f]) ELSE Materialize(op, f, file[f])
     IN /\ ~DirectoryFails(f)
        /\ file' = [file EXCEPT ![f] = out.doc]
        /\ report' = Action(file[f], out)
        /\ settled' = IF Len(todo) = 1 THEN op ELSE "none"
        /\ op' = IF Len(todo) = 1 THEN "none" ELSE op
  /\ todo' = Tail(todo)
  /\ UNCHANGED <<stray, again, edits>>

(* The user and the hosts, between operations.                              *)

Edit ==
  /\ Idle /\ edits < MaxEdits
  /\ edits' = edits + 1
  /\ report' = "none" /\ settled' = "none" /\ again' = FALSE

ServerFiles == RepoServerFiles \union UserFiles

EditEntry ==
  /\ Edit
  /\ \E f \in ServerFiles, s \in Servers, e \in Entries :
       /\ f = ".codex/config.toml" \/ e \in PlainEntries
       /\ file[f].kind \in {"absent", "document"} /\ ~Blocked(f)
       /\ file' = [file EXCEPT ![f] =
            [@ EXCEPT !.kind = "document", !.table = TRUE, !.entry[s] = e]]
  /\ UNCHANGED <<stray, op, todo>>

\* Claude keeps state of its own there; an older version left a registration.
EditProject ==
  /\ Edit
  /\ \E k \in Keys, s \in Servers, e \in PlainEntries, more \in BOOLEAN :
       LET d == file["claudeUser"]
           entry == [d.project[k].entry EXCEPT ![s] = e]
       IN /\ d.kind \in {"absent", "document"}
          /\ file' = [file EXCEPT !["claudeUser"] =
               [d EXCEPT !.kind = "document",
                         !.project[k] = [there |-> TRUE, more |-> more, entry |-> entry]]]
  /\ UNCHANGED <<stray, op, todo>>

\* An outdated block, rule or hook, or a file with nothing of ours.
EditManaged ==
  /\ Edit
  /\ \E f \in Files \ ServerFiles, m \in {"none", "old"} :
       /\ ~Blocked(f)
       /\ file' = [file EXCEPT ![f] = [@ EXCEPT !.kind = "document", !.managed = m]]
  /\ UNCHANGED <<stray, op, todo>>

\* It cannot be parsed, or what should be a table is not one.
EditBreaks ==
  /\ Edit
  /\ \E f \in Files :
     /\ ~Blocked(f)
     /\ \/ f \notin TextFiles /\ file' = [file EXCEPT ![f].kind = "malformed"]
        \/ f \in ServerFiles /\ file' = [file EXCEPT ![f] = Misshapen]
        \/ f \in Unreadable /\ file' = [file EXCEPT ![f].kind = "unreadable"]
  /\ UNCHANGED <<stray, op, todo>>

\* Something that is no directory takes a directory's place, its files gone.
EditStray ==
  /\ Edit
  /\ \E dir \in Dirs, thing \in Strays \ {"nothing"} :
       /\ stray[dir] = "nothing" /\ stray' = [stray EXCEPT ![dir] = thing]
       /\ file' = [f \in Files |-> IF dir \in DirOf(f) THEN Absent ELSE file[f]]
  /\ UNCHANGED <<op, todo>>

Next ==
  \/ \E o \in Operations : Begin(o)
  \/ CreateDirFails \/ WriteFails \/ HandleFile
  \/ EditEntry \/ EditProject \/ EditManaged \/ EditBreaks \/ EditStray

Spec == Init /\ [][Next]_vars

-----------------------------------------------------------------------------
(* readiness: what is found in the two scopes of a host.                     *)

InspectConfig(d, expected) ==
  CASE d.kind \in {"absent", "unreadable", "misshapen"} -> "absent"
    [] d.kind = "malformed" -> "unreadable"
    [] d.kind = "document" /\ ~d.table -> "absent"
    [] OTHER -> IF \A s \in expected : d.entry[s] \in Owned THEN "current" ELSE "drifted"

RepoExpected(h) == {s \in Servers : h \in RepoHosts[s]}
UserFile(h) == IF h = "claude" THEN "claudeUser" ELSE "codexUser"
RepoFile(h) == IF h = "claude" THEN ".mcp.json" ELSE ".codex/config.toml"

\* Mutant: a current user registration is enough.
ConfiguredAnywhere(user, repo) == user = "current" \/ repo = "current"

\* A repository file that is there and not current gets in the way of the user's.
Configured(user, repo) ==
  IF user = "current" THEN repo \notin {"drifted", "unreadable"} ELSE repo = "current"

Readiness(h) ==
  Configured(InspectConfig(file[UserFile(h)], Servers),
             InspectConfig(file[RepoFile(h)], RepoExpected(h)))

-----------------------------------------------------------------------------
(* Properties.                                                             *)

Unusable(f) == file[f].kind \in {"unreadable", "malformed"}

\* In Codex's repository file: what the text that is added makes unparsable.
Fragile(f) ==
  /\ f = ".codex/config.toml"
  /\ \/ file[f].kind = "misshapen"
     \/ \E s \in Servers : file[f].entry[s] \in {"rigid", "brittle"}

\* Not UTF-8, and taken for absent: by every install but that of the hooks of Codex and
\* of a project.
TakenForAbsent(f) ==
  /\ file[f].kind = "unreadable"
  /\ op \in {"installRepo", "installUser"} /\ f # ".codex/hooks.json"

\* Whatever sequence of installs and removals runs, completed or aborted, it
\* changes only what is ours: a file that cannot be read or parsed stays as it is, one
\* that parses still does, an entry of somebody else under one of our names stays
\* theirs and as it was, in every scope, and a project entry the host keeps other state
\* in stays.  Not so where a write is cut short (which counts as an edit), of a file that
\* is taken for absent, and in Codex's repository file, where a fragile file is broken and
\* a stranger's entry may be given our tool policy: the violated properties below.
UserContentKept ==
  [][edits' = edits =>
       \A f \in Files : TakenForAbsent(f) \/
         /\ Unusable(f) => file'[f] = file[f]
         /\ file[f].kind = "misshapen" /\ ~Fragile(f) => file'[f] = file[f]
         /\ file'[f].kind = "malformed" => file[f].kind = "malformed" \/ Fragile(f)
         /\ \A s \in Servers :
              /\ file[f].entry[s] \in Others =>
                   \/ file'[f].entry[s] = file[f].entry[s]
                   \/ f = ".codex/config.toml" /\ s \in Approved
                      /\ file'[f].entry[s] = "allowed"
              /\ \A k \in Keys : file[f].project[k].entry[s] \in Others =>
                   file'[f].project[k].entry[s] = file[f].project[k].entry[s]
         /\ \A k \in Keys : file[f].project[k].more => file'[f].project[k].more]_vars

\* An operation that is repeated with nothing in between changes nothing the
\* second time, whatever state the files were in before the first.
SecondRunChangesNothing ==
  again => report \in {"none", "unchanged", "skipped"}

\* A completed removal leaves nothing of ours in a scope it could read, under any
\* spelling of the project; a completed project install leaves it under one.
ScopesClean ==
  Idle /\ file["claudeUser"].kind = "document" =>
    LET Ours(k) == \E s \in Servers : file["claudeUser"].project[k].entry[s] \in Owned
    IN /\ settled = "removeUser" =>
            \A f \in UserFiles, s \in Servers :
              file[f].kind = "document" => file[f].entry[s] \notin Owned
       /\ settled = "removeProject" => \A k \in Keys : ~Ours(k)
       /\ settled = "installProject" /\ report # "skipped" =>
            \E k \in Keys :
              /\ \A s \in Servers : file["claudeUser"].project[k].entry[s] \in Owned
              /\ \A j \in Keys \ {k} : ~Ours(j)

\* A host that is reported as configured finds, of every server it is meant to
\* have in the repository, an entry of ours: the repository's, which comes first
\* if there is one, or else the user's.
ConfiguredIsEffective ==
  \A h \in Hosts : Readiness(h) => \A s \in RepoExpected(h) :
    LET inRepo == file[RepoFile(h)].entry[s]
    IN IF inRepo # "none" /\ ~Unusable(RepoFile(h)) THEN inRepo \in Owned
       ELSE file[UserFile(h)].entry[s] \in Owned

\* Violated: "an unusable file is reported as `Skipped` and never overwritten"; a
\* repository file that is not UTF-8 is taken for an absent one and written anew.
UnusableIsSkipped ==
  [][~Idle /\ todo' = Tail(todo) /\ Unusable(Head(todo)) =>
       file' = file /\ report' = "skipped"]_vars

\* Violated: the same of a file that parses but has something else where the servers'
\* table should be; Codex's repository file is added to, and parses no longer.
MisshapenIsNotOverwritten ==
  [][~Idle /\ todo' = Tail(todo) /\ file[Head(todo)].kind = "misshapen" => file' = file]_vars

\* Violated: "a stranger's entry must be left alone"; in Codex's repository file it is
\* given our tool policy.
StrangersAreLeftAlone ==
  [][edits' = edits => \A f \in Files, s \in Servers :
       file[f].entry[s] \in Others => file'[f].entry[s] = file[f].entry[s]]_vars

\* Violated: a project install preserves the rest of ~/.claude.json; a write that is cut
\* short leaves a file that does not parse, and nothing of it can be told.
ProjectInstallPreserves ==
  [][op = "installProject" /\ file["claudeUser"].kind = "document" =>
       /\ file'["claudeUser"].kind = "document"
       /\ file'["claudeUser"].entry = file["claudeUser"].entry]_vars

\* Violated: something in the place of a directory is to cost the files in it alone;
\* without looking the settings and the hooks end the install at what is left of it.
StrayCostsItsFilesOnly ==
  [][~Idle /\ Len(todo) > 1 /\ todo' = <<>> => ~Blocked(Head(todo))]_vars
=============================================================================
