-------------------------- MODULE HostInstallProofs -------------------------
(***************************************************************************)
(* What TLAPS proves of HostInstall, for any declared servers, any choice of *)
(* hosts for each, and any number of changes from outside: repeating an      *)
(* operation changes nothing, removals and installs leave their scope clean, *)
(* what readiness calls configured is, and what is not ours is kept.         *)
(*                                                                         *)
(* The argument: each adapter, on whatever sound document it is given, keeps *)
(* what is not ours and makes a document on which it would change nothing.   *)
(* So a file that an operation has handled stays as that operation would     *)
(* have it, for no other file of its plan is that file; and what is so of    *)
(* every file of the plan when it completes is still so when it is repeated. *)
(***************************************************************************)
EXTENDS HostInstall, SequenceTheorems, TLAPS

\* What a file may hold.
Docs == [kind : Kinds, table : BOOLEAN, entry : [Servers -> Entries],
         managed : {"none", "old", "current"},
         project : [Keys -> [there : BOOLEAN, more : BOOLEAN,
                             entry : [Servers -> Entries]]]]

\* What a file may hold of one spelling of a project.
Projects == [there : BOOLEAN, more : BOOLEAN, entry : [Servers -> Entries]]

\* What is said of a file agrees with what it holds.
Sound(d) ==
  /\ d.kind = "absent" => d = Absent
  /\ d.kind = "misshapen" => d = Misshapen
  /\ ~d.table => d.entry = NoEntries
  /\ \A k \in Keys : ~d.project[k].there => d.project[k] = NoProject

\* What the host keeps of the projects in d is in e.
KeepsProjects(d, e) ==
  \A k \in Keys :
    /\ d.project[k].more => e.project[k].more
    /\ \A s \in Servers :
         d.project[k].entry[s] \in Others => e.project[k].entry[s] = d.project[k].entry[s]

\* What the user and the host keep in d is in e.
Keeps(d, e) ==
  /\ \A s \in Servers : d.entry[s] \in Others => e.entry[s] = d.entry[s]
  /\ KeepsProjects(d, e)

\* The same, but that a stranger's entry may be given our tool policy.
Lends(d, e) ==
  /\ \A s \in Servers : d.entry[s] \in Others =>
       e.entry[s] = d.entry[s] \/ (s \in Approved /\ e.entry[s] = "allowed")
  /\ KeepsProjects(d, e)

\* What every adapter but one owes a sound document d that it makes e of.
Adapts(d, e) ==
  /\ e \in Docs /\ Sound(e) /\ e.kind \in {d.kind, "document"}
  /\ d.kind \in {"malformed", "misshapen"} => e = d
  /\ d.kind # "unreadable" => Keeps(d, e)

\* What a document holds that makes text that is added to it break it.
Breakable(d) ==
  d.kind = "misshapen" \/ \E s \in Servers : d.entry[s] \in {"rigid", "brittle"}

\* What the one that changes Codex's repository file owes it.
AdaptsText(d, e) ==
  /\ e \in Docs /\ Sound(e) /\ e.kind \in {d.kind, "document", "malformed"}
  /\ d.kind = "malformed" => e = d
  /\ e.kind = "malformed" => d.kind = "malformed" \/ Breakable(d)
  /\ d.kind # "unreadable" => Lends(d, e)

\* The fields of a document.
LEMMA Fields ==
  ASSUME NEW d \in Docs
  PROVE  /\ d.kind \in Kinds /\ d.table \in BOOLEAN
         /\ d.entry \in [Servers -> Entries]
         /\ d.managed \in {"none", "old", "current"}
         /\ d.project \in [Keys -> Projects]
         /\ \A k \in Keys : /\ d.project[k] \in Projects
                            /\ d.project[k].entry \in [Servers -> Entries]
                            /\ d.project[k].there \in BOOLEAN /\ d.project[k].more \in BOOLEAN
BY DEF Docs, Projects

\* The documents that hold nothing.
LEMMA EmptyDocs ==
  /\ NoEntries \in [Servers -> Entries] /\ \A s \in Servers : NoEntries[s] = "none"
  /\ NoProject \in Projects /\ ~NoProject.there /\ ~NoProject.more
  /\ NoProject.entry = NoEntries
  /\ Document \in Docs /\ Document.kind = "document" /\ Document.entry = NoEntries
  /\ Document.managed = "none" /\ ~Document.table
  /\ \A k \in Keys : Document.project[k] = NoProject
  /\ Absent \in Docs /\ Absent.kind = "absent" /\ Absent.entry = NoEntries
  /\ Absent.managed = "none" /\ ~Absent.table /\ Absent.project = Document.project
  /\ Misshapen \in Docs /\ Misshapen.kind = "misshapen" /\ Misshapen.entry = NoEntries
  /\ ~Misshapen.table /\ Misshapen.project = Document.project
<1>1. NoEntries \in [Servers -> Entries] /\ \A s \in Servers : NoEntries[s] = "none"
  BY DEF NoEntries, Entries, PlainEntries
<1>2. /\ NoProject \in Projects /\ ~NoProject.there /\ ~NoProject.more
      /\ NoProject.entry = NoEntries
  BY <1>1 DEF NoProject, Projects
<1>3. /\ Document \in Docs /\ Document.kind = "document" /\ Document.entry = NoEntries
      /\ Document.managed = "none" /\ ~Document.table
      /\ \A k \in Keys : Document.project[k] = NoProject
  BY <1>1, <1>2 DEF Document, Docs, Projects, Kinds
<1>4. /\ Absent \in Docs /\ Absent.kind = "absent" /\ Absent.entry = NoEntries
      /\ Absent.managed = "none" /\ ~Absent.table /\ Absent.project = Document.project
  BY <1>3 DEF Absent, Docs, Kinds
<1>5. /\ Misshapen \in Docs /\ Misshapen.kind = "misshapen" /\ Misshapen.entry = NoEntries
      /\ ~Misshapen.table /\ Misshapen.project = Document.project
  BY <1>3 DEF Misshapen, Docs, Kinds
<1>6. QED
  BY <1>1, <1>2, <1>3, <1>4, <1>5

\* What an adapter that reads a file as text starts from.
LEMMA Reads ==
  ASSUME NEW d \in Docs, Sound(d)
  PROVE  LET b == ReadOrEmpty(d)
         IN /\ b \in Docs /\ Sound(b) /\ b.kind \in {"document", "malformed", "misshapen"}
            /\ d.kind # "unreadable" => Keeps(d, b)
            /\ d.kind \in {"document", "malformed", "misshapen"} => b = d
<1>1. CASE d.kind = "absent"
  BY <1>1, EmptyDocs DEF ReadOrEmpty, Sound, Keeps, KeepsProjects, Others
<1>2. CASE d.kind = "unreadable"
  BY <1>2, EmptyDocs DEF ReadOrEmpty, Sound
<1>3. CASE d.kind \in {"document", "malformed", "misshapen"}
  BY <1>3 DEF ReadOrEmpty, Sound, Keeps, KeepsProjects
<1>4. QED
  BY <1>1, <1>2, <1>3, Fields DEF Kinds

-----------------------------------------------------------------------------
(* The adapters, one by one.                                               *)

\* What a repository file holds after an install: Claude Code's keeps what others have
\* there, Codex's but for the tool policy, and a second install finds nothing to do.
LEMMA RepoEntriesFacts ==
  ASSUME NEW host \in Hosts, NEW d \in Docs
  PROVE  LET e == RepoEntries(host, d)
         IN /\ e \in [Servers -> Entries]
            /\ host = "claude" =>
                 \A s \in Servers : d.entry[s] \in Others => e[s] = d.entry[s]
            /\ \A s \in Servers :
                 /\ d.entry[s] \in Others =>
                      e[s] = d.entry[s] \/ (s \in Approved /\ e[s] = "allowed")
                 /\ host = "codex" => \A x \in {"rigid", "brittle"} :
                      e[s] = x => d.entry[s] = x
            /\ \A u \in Docs : u.entry = e => RepoEntries(host, u) = e
<1>1. ASSUME NEW s \in Servers, NEW e \in Entries
      PROVE  /\ ClaudeEntry(s, e) \in Entries
             /\ e \in Others => ClaudeEntry(s, e) = e
             /\ ClaudeEntry(s, ClaudeEntry(s, e)) = ClaudeEntry(s, e)
  BY DEF ClaudeEntry, Entries, PlainEntries, Owned, Others
<1>2. ASSUME NEW s \in Servers, NEW e \in Entries
      PROVE  /\ CodexEntry(s, e) \in Entries
             /\ e \in Others =>
                  CodexEntry(s, e) = e \/ (s \in Approved /\ CodexEntry(s, e) = "allowed")
             /\ \A x \in {"rigid", "brittle"} : CodexEntry(s, e) = x => e = x
             /\ CodexEntry(s, CodexEntry(s, e)) = CodexEntry(s, e)
  BY DEF CodexEntry, Entries, PlainEntries, Others
<1>3. d.entry \in [Servers -> Entries]
  BY Fields
<1>4. CASE host = "claude"
  <2>1. \A v \in Docs : RepoEntries(host, v) = [s \in Servers |-> ClaudeEntry(s, v.entry[s])]
    BY <1>4 DEF RepoEntries
  <2> DEFINE e == RepoEntries(host, d)
  <2>2. e \in [Servers -> Entries] /\ \A s \in Servers : e[s] = ClaudeEntry(s, d.entry[s])
    BY <1>1, <1>3, <2>1
  <2> HIDE DEF e
  <2>3. ASSUME NEW v \in Docs, v.entry = e PROVE RepoEntries(host, v) = e
    BY <1>1, <1>3, <2>1, <2>2, <2>3
  <2>4. QED
    BY <1>1, <1>3, <1>4, <2>2, <2>3 DEF e
<1>5. CASE host = "codex"
  <2>1. \A v \in Docs : RepoEntries(host, v) = [s \in Servers |-> CodexEntry(s, v.entry[s])]
    BY <1>5 DEF RepoEntries
  <2> DEFINE e == RepoEntries(host, d)
  <2>2. e \in [Servers -> Entries] /\ \A s \in Servers : e[s] = CodexEntry(s, d.entry[s])
    BY <1>2, <1>3, <2>1
  <2> HIDE DEF e
  <2>3. ASSUME NEW v \in Docs, v.entry = e PROVE RepoEntries(host, v) = e
    BY <1>2, <1>3, <2>1, <2>2, <2>3
  <2>4. QED
    BY <1>2, <1>3, <1>5, <2>2, <2>3 DEF e
<1>6. QED
  BY <1>4, <1>5 DEF Hosts

\* Claude Code's repository file, whose adapter keeps the entries of others.
LEMMA McpJson ==
  ASSUME NEW d \in Docs, Sound(d)
  PROVE  LET e == EnsureMcpJson(d).doc
         IN Adapts(d, e) /\ EnsureMcpJson(e).doc = e
<1> DEFINE b == ReadOrEmpty(d)
           r == RepoEntries("claude", b)
           u == [b EXCEPT !.table = TRUE, !.entry = r]
           e == EnsureMcpJson(d).doc
<1>1. CASE Unparsable(d)
  BY <1>1 DEF EnsureMcpJson, Skip, Adapts, Keeps, KeepsProjects
<1>2. CASE ~Unparsable(d)
  <2>1. e = u
    BY <1>2 DEF EnsureMcpJson, Write
  <2>2. /\ b \in Docs /\ Sound(b) /\ b.kind = "document"
        /\ d.kind # "unreadable" => Keeps(d, b)
    BY <1>2, Reads DEF ReadOrEmpty, Kinds, Document, Unparsable
  <2>3. /\ r \in [Servers -> Entries]
        /\ \A s \in Servers : b.entry[s] \in Others => r[s] = b.entry[s]
        /\ \A v \in Docs : v.entry = r => RepoEntries("claude", v) = r
    BY <2>2, RepoEntriesFacts DEF Hosts
  <2> HIDE DEF r, b
  <2>4. /\ u \in Docs /\ u.kind = "document" /\ u.table = TRUE /\ u.entry = r
        /\ u.managed = b.managed /\ u.project = b.project
    BY <2>2, <2>3 DEF Docs
  <2> HIDE DEF u
  <2>5. Adapts(d, u)
    <3>1. Sound(u)
      BY <2>2, <2>4 DEF Sound
    <3>2. d.kind # "unreadable" => Keeps(d, u)
      BY <2>2, <2>3, <2>4 DEF Keeps, KeepsProjects
    <3>3. QED
      BY <1>2, <2>4, <3>1, <3>2 DEF Adapts, Unparsable
  <2>6. EnsureMcpJson(u).doc = [u EXCEPT !.table = TRUE, !.entry = r]
    BY <2>3, <2>4 DEF EnsureMcpJson, Write, ReadOrEmpty, Unparsable
  <2>7. [u EXCEPT !.table = TRUE, !.entry = r] = u
    BY <2>4 DEF Docs
  <2>8. QED
    BY <2>1, <2>5, <2>6, <2>7
<1>3. QED
  BY <1>1, <1>2

\* Codex's repository file, which is not created for nothing, and not parsed.
LEMMA CodexRepoConfig ==
  ASSUME NEW d \in Docs, Sound(d)
  PROVE  LET e == EnsureCodexRepoConfig(d).doc
         IN AdaptsText(d, e) /\ EnsureCodexRepoConfig(e).doc = e
<1> DEFINE b == ReadOrEmpty(d)
           r == RepoEntries("codex", b)
           u == [b EXCEPT !.table = r # NoEntries, !.entry = r]
           w == [b EXCEPT !.kind = "malformed"]
           e == EnsureCodexRepoConfig(d).doc
<1>0. Lends(d, d) /\ AdaptsText(d, d)
  BY DEF AdaptsText, Lends, KeepsProjects
<1>1. CASE d.kind = "malformed"
  BY <1>0, <1>1 DEF EnsureCodexRepoConfig, Skip
<1>2. CASE d.kind # "malformed" /\ ~Unextendable(b) /\ (b.kind = "misshapen" \/ r = b.entry)
  BY <1>0, <1>2 DEF EnsureCodexRepoConfig, WriteIf
<1>3. CASE d.kind # "malformed" /\ Unextendable(b)
  <2>1. e = w
    BY <1>3 DEF EnsureCodexRepoConfig, Write
  <2>2. b \in Docs /\ Sound(b) /\ Breakable(b)
    BY <1>3, Reads DEF Unextendable, Breakable
  <2>3. b = d
    <3>1. CASE d.kind \in {"absent", "unreadable"}
      BY <2>2, <3>1, EmptyDocs DEF ReadOrEmpty, Breakable
    <3>2. QED
      BY <3>1 DEF ReadOrEmpty
  <2> HIDE DEF b
  <2>4. /\ w \in Docs /\ w.kind = "malformed" /\ w.table = b.table /\ w.entry = b.entry
        /\ w.managed = b.managed /\ w.project = b.project
    BY <2>2 DEF Docs, Kinds
  <2> HIDE DEF w
  <2>5. AdaptsText(d, w)
    <3>1. Sound(w)
      BY <2>2, <2>4 DEF Sound
    <3>2. Lends(d, w)
      BY <2>3, <2>4 DEF Lends, KeepsProjects
    <3>3. QED
      BY <1>3, <2>2, <2>3, <2>4, <3>1, <3>2 DEF AdaptsText
  <2>6. EnsureCodexRepoConfig(w).doc = w
    BY <2>4 DEF EnsureCodexRepoConfig, Skip
  <2>7. QED
    BY <2>1, <2>5, <2>6
<1>4. CASE d.kind # "malformed" /\ ~Unextendable(b) /\ b.kind # "misshapen" /\ r # b.entry
  <2>1. e = u
    BY <1>4 DEF EnsureCodexRepoConfig, Write
  <2>2. /\ b \in Docs /\ Sound(b) /\ b.kind = "document"
        /\ d.kind # "unreadable" => Keeps(d, b)
    BY <1>4, Reads DEF ReadOrEmpty, Kinds, Document
  <2>3. /\ r \in [Servers -> Entries]
        /\ \A s \in Servers :
             /\ b.entry[s] \in Others =>
                  r[s] = b.entry[s] \/ (s \in Approved /\ r[s] = "allowed")
             /\ \A x \in {"rigid", "brittle"} : r[s] = x => b.entry[s] = x
        /\ \A v \in Docs : v.entry = r => RepoEntries("codex", v) = r
    BY <2>2, RepoEntriesFacts DEF Hosts
  <2> HIDE DEF r, b
  <2>4. /\ u \in Docs /\ u.kind = "document" /\ u.table = (r # NoEntries) /\ u.entry = r
        /\ u.managed = b.managed /\ u.project = b.project
    BY <2>2, <2>3 DEF Docs
  <2> HIDE DEF u
  <2>5. AdaptsText(d, u)
    <3>1. ~u.table => u.entry = NoEntries
      BY <2>4
    <3>2. Sound(u)
      BY <3>1, <2>2, <2>4 DEF Sound
    <3>3. d.kind # "unreadable" => Lends(d, u)
      BY <2>2, <2>3, <2>4 DEF Keeps, Lends, KeepsProjects
    <3>4. QED
      BY <3>2, <3>3, <1>4, <2>4 DEF AdaptsText
  <2>6. ~Unextendable(u)
    BY <1>4, <2>3, <2>4 DEF Unextendable
  <2>7. EnsureCodexRepoConfig(u).doc = u
    BY <2>3, <2>4, <2>6 DEF EnsureCodexRepoConfig, WriteIf, ReadOrEmpty
  <2>8. QED
    BY <2>1, <2>5, <2>7
<1>5. QED
  BY <1>1, <1>2, <1>3, <1>4

\* All entries become current, or one is somebody else's and none changes.
LEMMA UpsertFacts ==
  ASSUME NEW entry \in [Servers -> Entries]
  PROVE  /\ Upsert(entry).entry \in [Servers -> Entries]
         /\ Upsert(entry).skipped \in BOOLEAN
         /\ Upsert(entry).skipped => Upsert(entry).entry = entry
         /\ ~Upsert(entry).skipped =>
              /\ \A s \in Servers : entry[s] \notin Others /\ Upsert(entry).entry[s] = "current"
              /\ ~Upsert(Upsert(entry).entry).skipped
              /\ Upsert(Upsert(entry).entry).entry = Upsert(entry).entry
BY DEF Upsert, Entries, PlainEntries, Others

\* An install at user scope.
LEMMA UserConfig ==
  ASSUME NEW d \in Docs, Sound(d)
  PROVE  LET e == EnsureUserConfig(d).doc
         IN Adapts(d, e) /\ EnsureUserConfig(e).doc = e
<1> DEFINE b == ReadOrEmpty(d)
           r == Upsert(b.entry).entry
           u == [b EXCEPT !.table = TRUE, !.entry = r]
           e == EnsureUserConfig(d).doc
<1>1. CASE Unparsable(d) \/ Upsert(b.entry).skipped
  BY <1>1 DEF EnsureUserConfig, Skip, Adapts, Keeps, KeepsProjects
<1>2. CASE ~Unparsable(d) /\ ~Upsert(b.entry).skipped
  <2>1. e = u
    BY <1>2 DEF EnsureUserConfig, Write
  <2>2. /\ b \in Docs /\ Sound(b) /\ b.kind = "document"
        /\ d.kind # "unreadable" => Keeps(d, b)
        /\ b.entry \in [Servers -> Entries]
    BY <1>2, Reads, Fields DEF ReadOrEmpty, Kinds, Document, Unparsable
  <2>3. /\ r \in [Servers -> Entries]
        /\ \A s \in Servers : b.entry[s] \notin Others
        /\ ~Upsert(r).skipped /\ Upsert(r).entry = r
    BY <1>2, <2>2, UpsertFacts
  <2> HIDE DEF r, b
  <2>4. /\ u \in Docs /\ u.kind = "document" /\ u.table = TRUE /\ u.entry = r
        /\ u.managed = b.managed /\ u.project = b.project
    BY <2>2, <2>3 DEF Docs
  <2> HIDE DEF u
  <2>5. Adapts(d, u)
    <3>1. Sound(u)
      BY <2>2, <2>4 DEF Sound
    <3>2. d.kind # "unreadable" => Keeps(d, u)
      BY <2>2, <2>3, <2>4 DEF Keeps, KeepsProjects
    <3>3. QED
      BY <1>2, <2>4, <3>1, <3>2 DEF Adapts, Unparsable
  <2>6. EnsureUserConfig(u).doc = [u EXCEPT !.table = TRUE, !.entry = r]
    BY <2>3, <2>4 DEF EnsureUserConfig, Write, ReadOrEmpty, Unparsable
  <2>7. [u EXCEPT !.table = TRUE, !.entry = r] = u
    BY <2>4 DEF Docs
  <2>8. QED
    BY <2>1, <2>5, <2>6, <2>7
<1>3. QED
  BY <1>1, <1>2

\* What a removal takes out, and that it does so once.
LEMMA WithoutOwnedFacts ==
  ASSUME NEW entry \in [Servers -> Entries]
  PROVE  LET e == WithoutOwned(entry)
         IN /\ e \in [Servers -> Entries]
            /\ \A s \in Servers : /\ entry[s] \in Others => e[s] = entry[s]
                                  /\ e[s] \notin Owned
            /\ WithoutOwned(e) = e
            /\ entry = NoEntries => e = NoEntries
BY DEF WithoutOwned, Entries, PlainEntries, Owned, Others, NoEntries

\* A removal at user scope, which leaves alone what is not text as well.
LEMMA RemovedUserConfig ==
  ASSUME NEW d \in Docs, Sound(d)
  PROVE  LET e == RemoveUserConfig(d).doc
         IN /\ Adapts(d, e) /\ RemoveUserConfig(e).doc = e
            /\ d.kind = "unreadable" => e = d
<1> DEFINE r == WithoutOwned(d.entry)
           u == [d EXCEPT !.entry = r]
           e == RemoveUserConfig(d).doc
<1>1. CASE d.kind # "document"
  BY <1>1 DEF RemoveUserConfig, Skip, WriteIf, Adapts, Keeps, KeepsProjects
<1>2. CASE d.kind = "document"
  <2>1. e = u
    BY <1>2 DEF RemoveUserConfig, WriteIf
  <2>2. d.entry \in [Servers -> Entries]
    BY Fields
  <2>3. /\ r \in [Servers -> Entries]
        /\ \A s \in Servers : d.entry[s] \in Others => r[s] = d.entry[s]
        /\ WithoutOwned(r) = r
        /\ d.entry = NoEntries => r = NoEntries
    BY <2>2, WithoutOwnedFacts
  <2> HIDE DEF r
  <2>4. /\ u \in Docs /\ u.kind = "document" /\ u.table = d.table /\ u.entry = r
        /\ u.managed = d.managed /\ u.project = d.project
    BY <1>2, <2>3 DEF Docs
  <2> HIDE DEF u
  <2>5. Adapts(d, u)
    <3>1. Sound(u)
      BY <1>2, <2>3, <2>4 DEF Sound
    <3>2. QED
      BY <1>2, <2>3, <2>4, <3>1 DEF Adapts, Keeps, KeepsProjects
  <2>6. RemoveUserConfig(u).doc = [u EXCEPT !.entry = r]
    BY <2>3, <2>4 DEF RemoveUserConfig, WriteIf
  <2>7. [u EXCEPT !.entry = r] = u
    BY <2>4 DEF Docs
  <2>8. QED
    BY <1>2, <2>1, <2>5, <2>6, <2>7
<1>3. QED
  BY <1>1, <1>2

\* The settings, the blocks, the rules and the hooks.
LEMMA ManagedFiles ==
  ASSUME NEW d \in Docs, Sound(d)
  PROVE  /\ d.kind # "misshapen" => LET e == EnsureClaudeSettings(d).doc
            IN Adapts(d, e) /\ EnsureClaudeSettings(e).doc = e
         /\ ~Unparsable(d) =>
              LET e == EnsureManagedMarkdown(d).doc
              IN Adapts(d, e) /\ EnsureManagedMarkdown(e).doc = e
         /\ ~Unparsable(d) =>
              LET e == EnsureManagedGitignore(d).doc
              IN Adapts(d, e) /\ EnsureManagedGitignore(e).doc = e
<1> DEFINE b == ReadOrEmpty(d)
           u == [b EXCEPT !.managed = "current"]
<1>1. CASE d.kind = "malformed"
  BY <1>1 DEF EnsureClaudeSettings, Skip, Adapts, Keeps, KeepsProjects, Unparsable
<1>2. CASE ~Unparsable(d)
  <2>1. /\ EnsureClaudeSettings(d).doc = u
        /\ EnsureManagedMarkdown(d).doc = u /\ EnsureManagedGitignore(d).doc = u
    BY <1>2 DEF EnsureClaudeSettings, EnsureManagedMarkdown, EnsureManagedGitignore,
       Write, WriteIf, Unparsable
  <2>2. /\ b \in Docs /\ Sound(b) /\ b.kind = "document"
        /\ d.kind # "unreadable" => Keeps(d, b)
    BY <1>2, Reads DEF ReadOrEmpty, Kinds, Document, Unparsable
  <2> HIDE DEF b
  <2>3. /\ u \in Docs /\ u.kind = "document" /\ u.table = b.table /\ u.entry = b.entry
        /\ u.managed = "current" /\ u.project = b.project
    BY <2>2 DEF Docs
  <2> HIDE DEF u
  <2>4. Adapts(d, u)
    BY <1>2, <2>2, <2>3 DEF Adapts, Keeps, KeepsProjects, Sound, Unparsable
  <2>5. [u EXCEPT !.managed = "current"] = u
    BY <2>3 DEF Docs
  <2>6. ReadOrEmpty(u) = u
    BY <2>3 DEF ReadOrEmpty
  <2>7. /\ EnsureClaudeSettings(u).doc = u
        /\ EnsureManagedMarkdown(u).doc = u /\ EnsureManagedGitignore(u).doc = u
    BY <2>3, <2>5, <2>6 DEF EnsureClaudeSettings, EnsureManagedMarkdown,
       EnsureManagedGitignore, Write, WriteIf
  <2>8. QED
    BY <2>1, <2>4, <2>7
<1>3. QED
  BY <1>1, <1>2 DEF Unparsable

\* The hooks of Codex, put in or taken out; the one adapter of a repository file
\* that leaves a file that is not text alone.
LEMMA CodexHooks ==
  ASSUME NEW d \in Docs, Sound(d), d.kind # "misshapen", NEW remove \in BOOLEAN
  PROVE  LET e == UpdateCodexHooks(d, remove).doc
         IN /\ Adapts(d, e) /\ UpdateCodexHooks(e, remove).doc = e
            /\ d.kind = "unreadable" => e = d
<1> DEFINE m == IF remove THEN "none" ELSE "current"
           b == ReadOrEmpty(d)
           u == [b EXCEPT !.managed = m]
           e == UpdateCodexHooks(d, remove).doc
<1>1. CASE d.kind \in {"unreadable", "malformed"} \/ (d.kind = "absent" /\ remove)
  BY <1>1 DEF UpdateCodexHooks, Skip, Adapts, Keeps, KeepsProjects
<1>2. CASE ~(d.kind \in {"unreadable", "malformed"} \/ (d.kind = "absent" /\ remove))
  <2>1. e = u
    BY <1>2 DEF UpdateCodexHooks, WriteIf
  <2>2. /\ b \in Docs /\ Sound(b) /\ b.kind = "document" /\ Keeps(d, b)
    BY <1>2, Reads DEF ReadOrEmpty, Kinds, Document
  <2>3. m \in {"none", "old", "current"}
    OBVIOUS
  <2> HIDE DEF m, b
  <2>4. /\ u \in Docs /\ u.kind = "document" /\ u.table = b.table /\ u.entry = b.entry
        /\ u.managed = m /\ u.project = b.project
    BY <2>2, <2>3 DEF Docs
  <2> HIDE DEF u
  <2>5. Adapts(d, u)
    BY <1>2, <2>2, <2>4 DEF Adapts, Keeps, KeepsProjects, Sound
  <2>6. UpdateCodexHooks(u, remove).doc = [u EXCEPT !.managed = m]
    BY <2>4 DEF UpdateCodexHooks, WriteIf, ReadOrEmpty, m
  <2>7. [u EXCEPT !.managed = m] = u
    BY <2>4 DEF Docs
  <2>8. QED
    BY <1>2, <2>1, <2>5, <2>6, <2>7
<1>3. QED
  BY <1>1, <1>2

\* An install at project scope writes one entry, under one key.
LEMMA ProjectConfig ==
  ASSUME NEW d \in Docs, Sound(d), NEW k \in Keys
  PROVE  LET out == EnsureProjectConfig(d, k)
             e == out.doc
         IN /\ Adapts(d, e) /\ out.skipped \in BOOLEAN
            /\ out.skipped => e = d
            /\ d.kind = "unreadable" => out.skipped
            /\ ~out.skipped =>
                 /\ e.kind = "document" /\ d.kind \in {"absent", "document"}
                 /\ e.table = d.table /\ e.entry = d.entry /\ e.managed = d.managed
                 /\ e.project[k].there /\ e.project[k].more = d.project[k].more
                 /\ \A s \in Servers : e.project[k].entry[s] = "current"
                 /\ \A j \in Keys \ {k} : e.project[j] = d.project[j]
                 /\ ~Upsert(e.project[k].entry).skipped
                 /\ Upsert(e.project[k].entry).entry = e.project[k].entry
<1> DEFINE up == Upsert(d.project[k].entry)
           out == EnsureProjectConfig(d, k)
           e == out.doc
<1>1. CASE d.kind = "unreadable" \/ Unparsable(d) \/ up.skipped
  BY <1>1 DEF EnsureProjectConfig, Skip, Adapts, Keeps, KeepsProjects, Unparsable
<1>2. CASE ~(d.kind = "unreadable" \/ Unparsable(d) \/ up.skipped)
  <2>1. /\ d.project \in [Keys -> Projects] /\ d.project[k] \in Projects
        /\ d.project[k].entry \in [Servers -> Entries] /\ d.kind \in {"absent", "document"}
    BY <1>2, Fields DEF Kinds, Unparsable
  <2>2. /\ up.entry \in [Servers -> Entries]
        /\ \A s \in Servers : d.project[k].entry[s] \notin Others /\ up.entry[s] = "current"
        /\ ~Upsert(up.entry).skipped /\ Upsert(up.entry).entry = up.entry
    BY <1>2, <2>1, UpsertFacts
  <2>3. /\ out.skipped = FALSE
        /\ e = [d EXCEPT !.kind = "document", !.project[k].there = TRUE,
                         !.project[k].entry = up.entry]
    BY <1>2 DEF EnsureProjectConfig, Write
  <2> HIDE DEF out, up, e
  <2>4. /\ e \in Docs /\ e.kind = "document" /\ e.table = d.table /\ e.entry = d.entry
        /\ e.managed = d.managed
        /\ e.project[k].there /\ e.project[k].more = d.project[k].more
        /\ e.project[k].entry = up.entry
        /\ \A j \in Keys \ {k} : e.project[j] = d.project[j]
    BY <2>1, <2>2, <2>3 DEF Docs, Projects, Kinds
  <2>5. Adapts(d, e)
    <3>1. Sound(e)
      BY <2>4 DEF Sound
    <3>2. Keeps(d, e)
      BY <2>2, <2>4 DEF Keeps, KeepsProjects
    <3>3. QED
      BY <2>1, <2>4, <3>1, <3>2 DEF Adapts
  <2>6. /\ \A s \in Servers : e.project[k].entry[s] = "current"
        /\ ~Upsert(e.project[k].entry).skipped
        /\ Upsert(e.project[k].entry).entry = e.project[k].entry
    BY <2>2, <2>4
  <2>7. QED
    BY <2>1, <2>3, <2>4, <2>5, <2>6 DEF out, e
<1>3. QED
  BY <1>1, <1>2

\* A removal at project scope takes ours out from under every key of ks.
LEMMA RemovedProjectConfig ==
  ASSUME NEW d \in Docs, Sound(d), NEW ks \in SUBSET Keys
  PROVE  LET e == RemoveProjectConfig(d, ks).doc
         IN /\ Adapts(d, e)
            /\ d.kind # "document" => e = d
            /\ d.kind = "document" =>
                 /\ e.kind = "document" /\ e.table = d.table /\ e.entry = d.entry
                 /\ e.managed = d.managed
                 /\ \A k \in Keys \ ks : e.project[k] = d.project[k]
                 /\ \A k \in ks, s \in Servers : e.project[k].entry[s] \notin Owned
                 /\ \A k \in Keys : e.project[k].there => d.project[k].there
                 /\ \A k \in Keys : d.project[k].there /\ ~e.project[k].there =>
                      k = "verbatim"
                 /\ \A k \in ks : e.project[k].there =>
                      /\ WithoutOwned(e.project[k].entry) = e.project[k].entry
                      /\ k = "verbatim" => e.project[k].more \/ e.project[k].entry # NoEntries
<1> DEFINE Kept(k) == [d.project[k] EXCEPT !.entry = WithoutOwned(@)]
           Ours(k) == k = "verbatim" /\ ~d.project[k].more /\ Kept(k).entry = NoEntries
           p == [k \in Keys |->
                   IF k \notin ks \/ ~d.project[k].there THEN d.project[k]
                   ELSE IF Ours(k) THEN NoProject ELSE Kept(k)]
           e == RemoveProjectConfig(d, ks).doc
<1>1. CASE d.kind # "document"
  BY <1>1 DEF RemoveProjectConfig, Skip, WriteIf, Adapts, Keeps, KeepsProjects
<1>2. CASE d.kind = "document"
  <2>1. e = [d EXCEPT !.project = p]
    BY <1>2 DEF RemoveProjectConfig, WriteIf
  <2>2. ASSUME NEW k \in Keys
        PROVE  /\ Kept(k) \in Projects /\ Kept(k).there = d.project[k].there
               /\ Kept(k).more = d.project[k].more
               /\ \A s \in Servers :
                    /\ d.project[k].entry[s] \in Others =>
                         Kept(k).entry[s] = d.project[k].entry[s]
                    /\ Kept(k).entry[s] \notin Owned
               /\ WithoutOwned(Kept(k).entry) = Kept(k).entry
    <3>1. d.project[k] \in Projects /\ d.project[k].entry \in [Servers -> Entries]
      BY Fields
    <3>2. Kept(k).entry = WithoutOwned(d.project[k].entry)
      BY <3>1 DEF Projects
    <3>3. /\ WithoutOwned(d.project[k].entry) \in [Servers -> Entries]
          /\ \A s \in Servers :
               /\ d.project[k].entry[s] \in Others =>
                    WithoutOwned(d.project[k].entry)[s] = d.project[k].entry[s]
               /\ WithoutOwned(d.project[k].entry)[s] \notin Owned
          /\ WithoutOwned(WithoutOwned(d.project[k].entry)) = WithoutOwned(d.project[k].entry)
      BY <3>1, WithoutOwnedFacts
    <3>4. /\ Kept(k) \in Projects /\ Kept(k).there = d.project[k].there
          /\ Kept(k).more = d.project[k].more
      BY <3>1, <3>3 DEF Projects
    <3>5. QED
      BY <3>2, <3>3, <3>4
  <2> HIDE DEF Kept
  <2>3. \A k \in Keys : p[k] = IF k \notin ks \/ ~d.project[k].there THEN d.project[k]
                               ELSE IF Ours(k) THEN NoProject ELSE Kept(k)
    OBVIOUS
  <2>4. p \in [Keys -> Projects]
    BY <2>2, EmptyDocs, Fields
  <2> HIDE DEF p, e
  <2>5. /\ e \in Docs /\ e.kind = "document" /\ e.table = d.table /\ e.entry = d.entry
        /\ e.managed = d.managed /\ e.project = p
    BY <1>2, <2>1, <2>4 DEF Docs, Projects
  <2>6. ASSUME NEW k \in Keys
        PROVE  /\ k \notin ks => p[k] = d.project[k]
               /\ k \in ks => \A s \in Servers : p[k].entry[s] \notin Owned
               /\ p[k].there => d.project[k].there
               /\ d.project[k].there /\ ~p[k].there => k = "verbatim"
               /\ k \in ks /\ p[k].there =>
                      /\ WithoutOwned(p[k].entry) = p[k].entry
                      /\ k = "verbatim" => p[k].more \/ p[k].entry # NoEntries
               /\ ~p[k].there => p[k] = NoProject
               /\ d.project[k].more => p[k].more
               /\ \A s \in Servers : d.project[k].entry[s] \in Others =>
                    p[k].entry[s] = d.project[k].entry[s]
    <3>1. CASE k \notin ks
      BY <3>1, <2>3 DEF Sound
    <3>2. CASE ~d.project[k].there
      BY <3>2, <2>3, EmptyDocs DEF Sound, Owned, Others
    <3>3. CASE k \in ks /\ d.project[k].there /\ Ours(k)
      BY <3>3, <2>2, <2>3, EmptyDocs DEF Owned, Others
    <3>4. CASE k \in ks /\ d.project[k].there /\ ~Ours(k)
      BY <3>4, <2>2, <2>3
    <3>5. QED
      BY <3>1, <3>2, <3>3, <3>4
  <2>7. Adapts(d, e)
    BY <1>2, <2>5, <2>6 DEF Adapts, Keeps, KeepsProjects, Sound
  <2>8. QED
    BY <1>2, <2>5, <2>6, <2>7 DEF e
<1>3. QED
  BY <1>1, <1>2

\* Nothing is left to take out.
LEMMA NothingToRemove ==
  ASSUME NEW d \in Docs, Sound(d), NEW ks \in SUBSET Keys, d.kind = "document",
         \A k \in ks : d.project[k].there =>
           /\ WithoutOwned(d.project[k].entry) = d.project[k].entry
           /\ k = "verbatim" => d.project[k].more \/ d.project[k].entry # NoEntries
  PROVE  RemoveProjectConfig(d, ks).doc = d
<1> DEFINE Kept(k) == [d.project[k] EXCEPT !.entry = WithoutOwned(@)]
           Ours(k) == k = "verbatim" /\ ~d.project[k].more /\ Kept(k).entry = NoEntries
           p == [k \in Keys |->
                   IF k \notin ks \/ ~d.project[k].there THEN d.project[k]
                   ELSE IF Ours(k) THEN NoProject ELSE Kept(k)]
<1>1. RemoveProjectConfig(d, ks).doc = [d EXCEPT !.project = p]
  BY DEF RemoveProjectConfig, WriteIf
<1>2. ASSUME NEW k \in ks, d.project[k].there PROVE Kept(k) = d.project[k] /\ ~Ours(k)
  <2>1. d.project[k] \in Projects
    BY Fields
  <2>2. Kept(k) = d.project[k]
    BY <1>2, <2>1 DEF Projects
  <2>3. QED
    BY <1>2, <2>2
<1>3. p = d.project
  <2>1. \A k \in Keys : p[k] = d.project[k]
    BY <1>2
  <2>2. d.project \in [Keys -> Projects]
    BY Fields
  <2>3. QED
    BY <2>1, <2>2
<1>4. [d EXCEPT !.project = d.project] = d
  BY DEF Docs
<1>5. QED
  BY <1>1, <1>3, <1>4

\* Writing what is there already.
LEMMA ProjectRewritten ==
  ASSUME NEW d \in Docs, NEW k \in Keys, d.kind = "document", d.project[k].there
  PROVE  [d EXCEPT !.kind = "document", !.project[k].there = TRUE,
                   !.project[k].entry = d.project[k].entry] = d
<1>1. d.project \in [Keys -> Projects] /\ d.project[k] \in Projects
  BY Fields
<1>2. [d.project[k] EXCEPT !.there = TRUE] = d.project[k]
  BY <1>1 DEF Projects
<1>3. [d.project[k] EXCEPT !.entry = d.project[k].entry] = d.project[k]
  BY <1>1 DEF Projects
<1>4. [d.project EXCEPT ![k].there = TRUE] = d.project
  BY <1>1, <1>2
<1>5. [d.project EXCEPT ![k].entry = d.project[k].entry] = d.project
  BY <1>1, <1>3
<1>6. [d EXCEPT !.kind = "document", !.project[k].there = TRUE] = d
  BY <1>4 DEF Docs
<1>7. [d EXCEPT !.project[k].entry = d.project[k].entry] = d
  BY <1>5 DEF Docs
<1>8. QED
  BY <1>6, <1>7

\* What one adaptation keeps, two keep.
LEMMA AdaptsTwice ==
  ASSUME NEW d \in Docs, NEW e \in Docs, NEW f \in Docs, Adapts(d, e), Adapts(e, f),
         d.kind \in {"absent", "document"}, e.kind = "document"
  PROVE  Adapts(d, f)
BY DEF Adapts, Keeps, KeepsProjects

\* The key that is written is one of the keys there are, or the host's.
LEMMA ProjectKeys ==
  ASSUME NEW d \in Docs
  PROVE  /\ ProjectKey(d) \in Keys
         /\ d.kind = "document" =>
              /\ EquivalentKeys(d) = {k \in Keys : d.project[k].there}
              /\ ProjectKey(d) = "verbatim" <=>
                   d.project["verbatim"].there /\ ~d.project["host"].there
         /\ d.kind # "document" => EquivalentKeys(d) = {} /\ ProjectKey(d) = "host"
         /\ ProjectKey(d) = "verbatim" => EquivalentKeys(d) = {"verbatim"}
BY DEF ProjectKey, EquivalentKeys, Keys

\* An install at project scope leaves what is ours under one key.
LEMMA InstalledProject ==
  ASSUME NEW d \in Docs, Sound(d)
  PROVE  LET e == InstallProject(d).doc
         IN /\ Adapts(d, e) /\ InstallProject(e).doc = e
            /\ d.kind = "unreadable" => e = d
            /\ ~InstallProject(d).skipped =>
                 /\ e.kind = "document" /\ ~InstallProject(e).skipped
                 /\ \E k \in Keys :
                      /\ \A s \in Servers : e.project[k].entry[s] \in Owned
                      /\ \A j \in Keys \ {k}, s \in Servers :
                           e.project[j].entry[s] \notin Owned
<1> DEFINE k == ProjectKey(d)
           out == EnsureProjectConfig(d, k)
           m == out.doc
           stale == EquivalentKeys(d) \ {k}
           e == InstallProject(d).doc
<1>1. /\ k \in Keys /\ stale \in SUBSET Keys
      /\ \A j \in Keys \ {k} : d.kind = "document" => (j \in stale <=> d.project[j].there)
      /\ d.kind # "document" => stale = {}
  BY ProjectKeys DEF EquivalentKeys
<1>2. /\ Adapts(d, m) /\ out.skipped \in BOOLEAN
      /\ out.skipped => m = d
      /\ d.kind = "unreadable" => out.skipped
      /\ ~out.skipped =>
           /\ m.kind = "document" /\ d.kind \in {"absent", "document"}
           /\ m.project[k].there
           /\ \A s \in Servers : m.project[k].entry[s] = "current"
           /\ \A j \in Keys \ {k} : m.project[j] = d.project[j]
           /\ ~Upsert(m.project[k].entry).skipped
           /\ Upsert(m.project[k].entry).entry = m.project[k].entry
  BY <1>1, ProjectConfig
<1>3. CASE out.skipped
  <2>1. InstallProject(d) = out
    BY <1>3 DEF InstallProject
  <2>2. QED
    BY <1>2, <1>3, <2>1
<1>4. CASE ~out.skipped
  <2>1. /\ e = IF stale = {} THEN m ELSE RemoveProjectConfig(m, stale).doc
        /\ ~InstallProject(d).skipped
    BY <1>4 DEF InstallProject, Write
  <2>2. m \in Docs /\ Sound(m)
    BY <1>2 DEF Adapts
  <2> DEFINE r == RemoveProjectConfig(m, stale).doc
  <2>3. /\ Adapts(m, r) /\ r.kind = "document"
        /\ \A j \in Keys \ stale : r.project[j] = m.project[j]
        /\ \A j \in stale, s \in Servers : r.project[j].entry[s] \notin Owned
        /\ \A j \in Keys : r.project[j].there => m.project[j].there
        /\ \A j \in stale : r.project[j].there =>
              /\ WithoutOwned(r.project[j].entry) = r.project[j].entry
              /\ j = "verbatim" => r.project[j].more \/ r.project[j].entry # NoEntries
    BY <1>1, <1>2, <1>4, <2>2, RemovedProjectConfig
  <2> HIDE DEF r
  <2>4. /\ Adapts(m, e) /\ e.kind = "document"
        /\ e.project[k] = m.project[k]
        /\ \A j \in Keys \ {k} :
             /\ e.project[j].there => d.project[j].there
             /\ \A s \in Servers : e.project[j].entry[s] \notin Owned
             /\ e.project[j].there =>
                  /\ WithoutOwned(e.project[j].entry) = e.project[j].entry
                  /\ j = "verbatim" => e.project[j].more \/ e.project[j].entry # NoEntries
    <3>1. ASSUME NEW j \in Keys \ {k}, j \notin stale
          PROVE  /\ ~m.project[j].there
                 /\ \A s \in Servers : m.project[j].entry[s] \notin Owned
      <4>1. ~d.project[j].there
        BY <1>1, <1>2, <1>4, <3>1, EmptyDocs DEF Sound
      <4>2. m.project[j] = NoProject
        BY <1>2, <1>4, <4>1 DEF Sound
      <4>3. QED
        BY <4>2, EmptyDocs DEF Owned
    <3>2. CASE stale = {}
      <4>1. e = m
        BY <2>1, <3>2
      <4>2. Adapts(m, m)
        BY <2>2 DEF Adapts, Keeps, KeepsProjects
      <4>3. QED
        BY <4>1, <4>2, <3>1, <3>2, <1>2, <1>4
    <3>3. CASE stale # {}
      <4>1. e = r
        BY <2>1, <3>3 DEF r
      <4>2. k \in Keys \ stale
        BY <1>1
      <4>3. ASSUME NEW j \in Keys \ {k}
            PROVE  /\ e.project[j].there => d.project[j].there
                   /\ \A s \in Servers : e.project[j].entry[s] \notin Owned
                   /\ e.project[j].there => j \in stale
        BY <4>1, <3>1, <2>3, <1>2, <1>4
      <4>4. QED
        BY <4>1, <4>2, <4>3, <2>3
    <3>4. QED
      BY <3>2, <3>3
  <2>5. e \in Docs /\ Sound(e) /\ Adapts(d, e)
    BY <1>2, <1>4, <2>2, <2>4, AdaptsTwice DEF Adapts
  <2>6. /\ \A s \in Servers : e.project[k].entry[s] = "current"
        /\ e.project[k].there
        /\ ~Upsert(e.project[k].entry).skipped
        /\ Upsert(e.project[k].entry).entry = e.project[k].entry
    BY <1>2, <1>4, <2>4
  <2>7. ProjectKey(e) = k
    <3>1. k = "verbatim" => ~e.project["host"].there
      <4>1. k = "verbatim" => d.kind = "document" /\ ~d.project["host"].there
        BY ProjectKeys
      <4>2. QED
        BY <4>1, <2>4 DEF Keys
    <3>2. e.kind = "document"
      BY <2>4
    <3>3. QED
      BY <3>1, <3>2, <2>5, <2>6, <1>1, ProjectKeys DEF Keys
  <2> DEFINE second == EnsureProjectConfig(e, k)
             left == EquivalentKeys(e) \ {k}
  <2>8. second.doc = e /\ ~second.skipped
    <3>1. /\ ~second.skipped
          /\ second.doc = [e EXCEPT !.kind = "document", !.project[k].there = TRUE,
                                   !.project[k].entry = e.project[k].entry]
      BY <2>4, <2>6 DEF EnsureProjectConfig, Write, Unparsable
    <3>2. [e EXCEPT !.kind = "document", !.project[k].there = TRUE,
                    !.project[k].entry = e.project[k].entry] = e
      BY <2>4, <2>5, <2>6, <1>1, ProjectRewritten
    <3>3. QED
      BY <3>1, <3>2
  <2>9. RemoveProjectConfig(e, left).doc = e
    <3>1. left \in SUBSET Keys /\ k \notin left
      BY DEF EquivalentKeys
    <3>2. QED
      BY <3>1, <2>4, <2>5, NothingToRemove
  <2>10. InstallProject(e).doc = e /\ ~InstallProject(e).skipped
    BY <2>7, <2>8, <2>9 DEF InstallProject, Write
  <2>11. \A s \in Servers : e.project[k].entry[s] \in Owned
    BY <2>6 DEF Owned
  <2>12. d.kind # "unreadable"
    BY <1>2, <1>4
  <2>13. QED
    BY <1>1, <2>4, <2>5, <2>10, <2>11, <2>12
<1>5. QED
  BY <1>2, <1>3, <1>4

\* A removal at project scope, under every key there is.
LEMMA RemovedProject ==
  ASSUME NEW d \in Docs, Sound(d)
  PROVE  LET e == RemoveProjectConfig(d, EquivalentKeys(d)).doc
         IN /\ Adapts(d, e) /\ RemoveProjectConfig(e, EquivalentKeys(e)).doc = e
            /\ d.kind = "unreadable" => e = d
<1> DEFINE e == RemoveProjectConfig(d, EquivalentKeys(d)).doc
<1>1. EquivalentKeys(d) \in SUBSET Keys /\ EquivalentKeys(e) \in SUBSET Keys
  BY DEF EquivalentKeys
<1>2. CASE d.kind # "document"
  <2>1. e = d
    BY <1>2 DEF RemoveProjectConfig, Skip, WriteIf
  <2>2. QED
    BY <2>1, <1>1, RemovedProjectConfig
<1>3. CASE d.kind = "document"
  <2>1. /\ Adapts(d, e) /\ e.kind = "document"
        /\ \A k \in Keys : e.project[k].there => k \in EquivalentKeys(d)
        /\ \A k \in EquivalentKeys(d) : e.project[k].there =>
             /\ WithoutOwned(e.project[k].entry) = e.project[k].entry
             /\ k = "verbatim" => e.project[k].more \/ e.project[k].entry # NoEntries
    BY <1>1, <1>3, RemovedProjectConfig DEF EquivalentKeys
  <2>2. e \in Docs /\ Sound(e)
    BY <2>1 DEF Adapts
  <2> HIDE DEF e
  <2>3. RemoveProjectConfig(e, EquivalentKeys(e)).doc = e
    BY <1>1, <2>1, <2>2, NothingToRemove DEF EquivalentKeys
  <2>4. QED
    BY <1>3, <2>1, <2>3 DEF e
<1>4. QED
  BY <1>2, <1>3

\* Which files an operation handles.
Scope ==
  [installRepo |-> Files \ UserFiles, removeHooks |-> {".codex/hooks.json"},
   installUser |-> UserFiles, removeUser |-> UserFiles,
   installProject |-> {"claudeUser"}, removeProject |-> {"claudeUser"}]

\* Every adapter keeps what is not ours, and run on its own result it changes nothing.
LEMMA MaterializeFacts ==
  ASSUME NEW o \in Operations, NEW f \in Scope[o], NEW d \in Docs, Sound(d),
         d.kind = "malformed" => f \notin TextFiles,
         d.kind = "misshapen" => f \in ServerFiles
  PROVE  LET e == Materialize(o, f, d).doc
         IN /\ IF f = ".codex/config.toml" THEN AdaptsText(d, e) ELSE Adapts(d, e)
            /\ Materialize(o, f, e).doc = e
            /\ d.kind = "unreadable" =>
                 e = d \/ (o \in {"installRepo", "installUser"} /\ f # ".codex/hooks.json")
<1> USE DEF ServerFiles
<1>1. CASE o = "installRepo"
  <2>1. f \in {".mcp.json", ".codex/config.toml", ".codex/.gitignore",
               ".claude/.gitignore", "CLAUDE.md", ".claude/settings.local.json",
               ".codex/hooks.json"}
    BY <1>1 DEF Scope, Files, UserFiles, RepoServerFiles, TextFiles
  <2>2. CASE f = ".mcp.json"
    <3>1. \A e : Materialize(o, f, e) = EnsureMcpJson(e)
      BY <1>1, <2>2 DEF Materialize
    <3>2. QED
      BY <1>1, <2>2, <3>1, McpJson
  <2>3. CASE f = ".codex/config.toml"
    <3>1. \A e : Materialize(o, f, e) = EnsureCodexRepoConfig(e)
      BY <1>1, <2>3 DEF Materialize
    <3>2. QED
      BY <1>1, <2>3, <3>1, CodexRepoConfig
  <2>4. CASE f \in {".codex/.gitignore", ".claude/.gitignore"}
    <3>1. \A e : Materialize(o, f, e) = EnsureManagedGitignore(e)
      BY <1>1, <2>4 DEF Materialize
    <3>2. QED
      BY <1>1, <2>4, <3>1, ManagedFiles DEF TextFiles, RepoServerFiles, UserFiles, Unparsable
  <2>5. CASE f = "CLAUDE.md"
    <3>1. \A e : Materialize(o, f, e) = EnsureManagedMarkdown(e)
      BY <1>1, <2>5 DEF Materialize
    <3>2. QED
      BY <1>1, <2>5, <3>1, ManagedFiles DEF TextFiles, RepoServerFiles, UserFiles, Unparsable
  <2>6. CASE f = ".claude/settings.local.json"
    <3>1. \A e : Materialize(o, f, e) = EnsureClaudeSettings(e)
      BY <1>1, <2>6 DEF Materialize
    <3>2. QED
      BY <1>1, <2>6, <3>1, ManagedFiles DEF RepoServerFiles, UserFiles
  <2>7. CASE f = ".codex/hooks.json"
    <3>1. \A e : Materialize(o, f, e) = UpdateCodexHooks(e, FALSE)
      BY <1>1, <2>7 DEF Materialize
    <3>2. QED
      BY <2>7, <3>1, CodexHooks DEF RepoServerFiles, UserFiles
  <2>8. QED
    BY <2>1, <2>2, <2>3, <2>4, <2>5, <2>6, <2>7
<1>2. CASE o = "removeHooks"
  <2>1. f = ".codex/hooks.json" /\ \A e : Materialize(o, f, e) = UpdateCodexHooks(e, TRUE)
    BY <1>2 DEF Materialize, Scope
  <2>2. QED
    BY <2>1, CodexHooks DEF RepoServerFiles, UserFiles
<1>3. CASE o = "installUser"
  <2>1. f \in UserFiles /\ \A e : Materialize(o, f, e) = EnsureUserConfig(e)
    BY <1>3 DEF Materialize, Scope, UserFiles
  <2>2. QED
    BY <1>3, <2>1, UserConfig DEF UserFiles
<1>4. CASE o = "removeUser"
  <2>1. f \in UserFiles /\ \A e : Materialize(o, f, e) = RemoveUserConfig(e)
    BY <1>4 DEF Materialize, Scope, UserFiles
  <2>2. QED
    BY <2>1, RemovedUserConfig DEF UserFiles
<1>5. CASE o = "installProject"
  <2>1. f = "claudeUser" /\ \A e : Materialize(o, f, e) = InstallProject(e)
    BY <1>5 DEF Materialize, Scope
  <2>2. QED
    BY <2>1, InstalledProject
<1>6. CASE o = "removeProject"
  <2>1. /\ f = "claudeUser"
        /\ \A e : Materialize(o, f, e) = RemoveProjectConfig(e, EquivalentKeys(e))
    BY <1>6 DEF Materialize, Scope
  <2>2. QED
    BY <2>1, RemovedProject
<1>7. QED
  BY <1>1, <1>2, <1>3, <1>4, <1>5, <1>6 DEF Operations, Plan

-----------------------------------------------------------------------------
(* The state.                                                              *)

\* Every file is sound; only what is parsed is malformed, only what holds a table
\* misshapen, and unreadable only what may come to be.
MayBe(f, d) ==
  /\ Sound(d)
  /\ d.kind = "malformed" => f \notin TextFiles
  /\ d.kind = "misshapen" => f \in ServerFiles
  /\ d.kind = "unreadable" => f \in Unreadable

FileInv ==
  /\ file \in [Files -> Docs]
  /\ \A f \in Files : MayBe(f, file[f])

\* What an operation makes of a file: nothing, without a directory to hold it.
Handled(o, f, d) == IF Blocked(f) THEN Skip(d) ELSE Materialize(o, f, d)

\* The operation would leave the file as it is.
Fixed(o, f) == Handled(o, f, file[f]).doc = file[f]

\* The files an operation has yet to handle.
InTodo == {todo[i] : i \in 1..Len(todo)}

\* An operation handles the files of its plan; what it has handled it would not
\* change again, and if it repeats the last one it would change nothing at all.
PlanInv ==
  /\ op \in Operations \union {"none"} /\ settled \in Operations \union {"none"}
  /\ todo \in Seq(Files) /\ again \in BOOLEAN
  /\ op = "none" <=> todo = <<>>
  /\ \A o \in Operations : op = o =>
       /\ InTodo \subseteq Scope[o] /\ settled = "none"
       /\ \A f \in Scope[o] : again \/ f \notin InTodo => Fixed(o, f)
  /\ \A o \in Operations : settled = o => \A f \in Scope[o] : Fixed(o, f)

\* What the last report tells of the operation, and of the project it installed.
ReportInv ==
  /\ again => report \in {"none", "unchanged", "skipped"}
  /\ settled = "installProject" /\ report # "skipped" =>
       LET d == file["claudeUser"]
       IN \E k \in Keys : /\ \A s \in Servers : d.project[k].entry[s] \in Owned
                          /\ \A j \in Keys \ {k}, s \in Servers :
                               d.project[j].entry[s] \notin Owned

\* The inductive invariant.
IInv == FileInv /\ PlanInv /\ ReportInv /\ stray \in [Dirs -> Strays] /\ edits \in 0..MaxEdits
          /\ report \in Reports

\* Each operation's plan is its files.
LEMMA Plans ==
  ASSUME NEW o \in Operations
  PROVE  /\ Scope[o] \subseteq Files
         /\ Plan[o] \in Seq(Files) /\ Plan[o] # <<>>
         /\ {Plan[o][i] : i \in 1..Len(Plan[o])} = Scope[o]
<1> USE DEF Plan, Scope, Files, UserFiles, RepoServerFiles, TextFiles
<1>1. CASE o = "installRepo"
  <2>1. Len(Plan[o]) = 7 /\ Plan[o] \in Seq(Files) /\ Plan[o] # <<>>
    BY <1>1
  <2>2. /\ Plan[o][1] = ".mcp.json" /\ Plan[o][2] = ".codex/config.toml"
        /\ Plan[o][3] = ".codex/.gitignore"
        /\ Plan[o][4] = ".claude/settings.local.json"
        /\ Plan[o][5] = ".claude/.gitignore" /\ Plan[o][6] = ".codex/hooks.json"
        /\ Plan[o][7] = "CLAUDE.md"
    BY <1>1
  <2>3. \A i \in 1..7 : i \in {1, 2, 3, 4, 5, 6, 7}
    OBVIOUS
  <2>4. Scope[o] = {".mcp.json", ".codex/config.toml", ".codex/.gitignore",
               ".claude/.gitignore", "CLAUDE.md", ".claude/settings.local.json",
               ".codex/hooks.json"}
    BY <1>1
  <2> HIDE DEF Plan, Scope
  <2>5. {Plan[o][i] : i \in 1..Len(Plan[o])} = Scope[o]
    <3>1. \A i \in 1..Len(Plan[o]) : Plan[o][i] \in Scope[o]
      BY <2>1, <2>2, <2>3, <2>4
    <3>2. \A f \in Scope[o] : \E i \in 1..7 : f = Plan[o][i]
      BY <2>2, <2>4
    <3>3. QED
      BY <3>1, <3>2, <2>1
  <2>6. QED
    BY <2>1, <2>4, <2>5
<1>2. CASE o \in {"installUser", "removeUser"}
  <2> DEFINE p == <<"codexUser", "claudeUser">>
  <2>0. Plan[o] = p
    BY <1>2
  <2>1. Len(p) = 2 /\ p \in Seq(Files) /\ p # <<>>
    OBVIOUS
  <2>2. Plan[o][1] = "codexUser" /\ Plan[o][2] = "claudeUser" /\ Scope[o] = UserFiles
    BY <1>2
  <2> HIDE DEF Plan, Scope, p
  <2>3. \A i \in 1..2 : i \in {1, 2}
    OBVIOUS
  <2>4. \A f : f \in {Plan[o][i] : i \in 1..2} <=> f \in {Plan[o][1], Plan[o][2]}
    BY <2>3
  <2>5. QED
    BY <2>0, <2>1, <2>2, <2>4
<1>3. CASE o \in {"removeHooks", "installProject", "removeProject"}
  <2>1. Len(Plan[o]) = 1 /\ Plan[o] \in Seq(Files) /\ Plan[o] # <<>>
    BY <1>3
  <2>2. Scope[o] = {Plan[o][1]} /\ Scope[o] \subseteq Files
    BY <1>3
  <2> HIDE DEF Plan, Scope
  <2>3. QED
    BY <2>1, <2>2
<1>4. QED
  BY <1>1, <1>2, <1>3 DEF Operations

\* What became of a file that is handled, blocked or not.
LEMMA HandledFacts ==
  ASSUME FileInv, NEW o \in Operations, NEW f \in Scope[o]
  PROVE  LET d == file[f]
             e == Handled(o, f, d).doc
         IN /\ IF f = ".codex/config.toml" THEN AdaptsText(d, e) ELSE Adapts(d, e)
            /\ Handled(o, f, e).doc = e
            /\ e \in Docs /\ MayBe(f, e)
            /\ d.kind = "unreadable" =>
                 e = d \/ (o \in {"installRepo", "installUser"} /\ f # ".codex/hooks.json")
<1> DEFINE d == file[f]
           e == Handled(o, f, d).doc
<1>1. f \in Files /\ d \in Docs /\ MayBe(f, d)
  BY Plans DEF FileInv
<1>2. /\ IF f = ".codex/config.toml" THEN AdaptsText(d, e) ELSE Adapts(d, e)
      /\ Handled(o, f, e).doc = e
      /\ d.kind = "unreadable" =>
           e = d \/ (o \in {"installRepo", "installUser"} /\ f # ".codex/hooks.json")
  <2>1. CASE Blocked(f)
    BY <1>1, <2>1
       DEF Handled, Skip, Adapts, Keeps, AdaptsText, Lends, KeepsProjects, MayBe
  <2>2. CASE ~Blocked(f)
    BY <1>1, <2>2, MaterializeFacts DEF Handled, MayBe
  <2>3. QED
    BY <2>1, <2>2
<1> HIDE DEF e
<1>3. e \in Docs /\ Sound(e) /\ e.kind \in {d.kind, "document", "malformed"}
      /\ (e.kind = "malformed" => d.kind = "malformed" \/ f = ".codex/config.toml")
  BY <1>2 DEF Adapts, AdaptsText
<1>4. MayBe(f, e)
  BY <1>1, <1>3 DEF MayBe, TextFiles
<1>5. QED
  BY <1>2, <1>3, <1>4 DEF e

\* The files that remain after the first.
LEMMA TodoTail ==
  ASSUME NEW q \in Seq(Files), q # <<>>
  PROVE  /\ Head(q) \in Files /\ Tail(q) \in Seq(Files)
         /\ {q[i] : i \in 1..Len(q)} = {Tail(q)[i] : i \in 1..Len(Tail(q))} \union {Head(q)}
         /\ Len(q) = 1 => Tail(q) = <<>> /\ {Tail(q)[i] : i \in 1..Len(Tail(q))} = {}
         /\ Len(q) # 1 => Tail(q) # <<>>
<1>1. /\ Head(q) = q[1] /\ Head(q) \in Files /\ Tail(q) \in Seq(Files)
      /\ Len(Tail(q)) = Len(q) - 1 /\ Len(q) \in Nat \ {0}
      /\ \A i \in 1..Len(Tail(q)) : Tail(q)[i] = q[i + 1]
  OBVIOUS
<1>2. ASSUME NEW i \in 1..Len(q)
      PROVE  q[i] \in {Tail(q)[j] : j \in 1..Len(Tail(q))} \union {Head(q)}
  <2>1. CASE i = 1
    BY <1>1, <2>1
  <2>2. CASE i # 1
    <3>1. i - 1 \in 1..Len(Tail(q)) /\ Tail(q)[i - 1] = q[i]
      BY <1>1, <2>2
    <3>2. QED
      BY <3>1
  <2>3. QED
    BY <2>1, <2>2
<1>3. ASSUME NEW i \in 1..Len(Tail(q)) PROVE Tail(q)[i] \in {q[j] : j \in 1..Len(q)}
  BY <1>1
<1>4. Head(q) \in {q[j] : j \in 1..Len(q)}
  BY <1>1
<1>5. {q[i] : i \in 1..Len(q)} = {Tail(q)[i] : i \in 1..Len(Tail(q))} \union {Head(q)}
  BY <1>2, <1>3, <1>4
<1>6. Tail(q) = <<>> <=> Len(q) = 1
  <2>1. Len(<<>>) = 0 /\ (Tail(q) # <<>> => Len(Tail(q)) # 0)
    BY <1>1, EmptySeq
  <2>2. Len(q) = 1 <=> Len(Tail(q)) = 0
    BY <1>1
  <2>3. QED
    BY <2>1, <2>2
<1>7. Len(q) = 1 => 1..Len(Tail(q)) = {}
  <2>1. Len(q) = 1 => Len(Tail(q)) = 0
    BY <1>1
  <2>2. 1..0 = {}
    OBVIOUS
  <2>3. QED
    BY <2>1, <2>2
<1>8. QED
  BY <1>1, <1>5, <1>6, <1>7

\* While no directory changes, what is fixed depends on what the file holds.
LEMMA FixedNext ==
  ASSUME NEW o, NEW f, stray' = stray
  PROVE  Fixed(o, f)' <=> Handled(o, f, file'[f]).doc = file'[f]
BY DEF Fixed, Handled, Blocked, Skip

\* None of the operations is none.
LEMMA NoneIsNoOperation ==
  \A o \in Operations : o # "none"
BY DEF Operations, Plan

\* An operation begins; it repeats the settled one only if that would change nothing.
LEMMA BeginKeeps ==
  ASSUME IInv, NEW o \in Operations, Begin(o)
  PROVE  IInv'
<1> USE DEF IInv
<1>1. /\ op' = o /\ todo' = Plan[o] /\ report' = "none" /\ again' = (settled = o)
      /\ settled' = "none" /\ file' = file /\ stray' = stray /\ edits' = edits
  BY DEF Begin
<1>2. FileInv' /\ ReportInv'
  BY <1>1 DEF FileInv, ReportInv
<1>3. /\ todo' \in Seq(Files) /\ todo' # <<>> /\ InTodo' = Scope[o]
  BY <1>1, Plans DEF InTodo
<1>4. ASSUME NEW f \in Scope[o], again' \/ f \notin InTodo' PROVE Fixed(o, f)'
  <2>1. settled = o
    BY <1>1, <1>3, <1>4
  <2>2. Fixed(o, f)
    BY <2>1 DEF PlanInv
  <2>3. QED
    BY <2>2, <1>1, FixedNext DEF Fixed
<1>5. PlanInv'
  <2>1. op' = "none" <=> todo' = <<>>
    BY <1>1, <1>3, NoneIsNoOperation
  <2>2. ASSUME NEW p \in Operations, op' = p
        PROVE  /\ InTodo' \subseteq Scope[p] /\ settled' = "none"
               /\ \A f \in Scope[p] : again' \/ f \notin InTodo' => Fixed(p, f)'
    BY <2>2, <1>1, <1>3, <1>4
  <2>3. \A p \in Operations : settled' # p
    BY <1>1, NoneIsNoOperation
  <2>4. op' \in Operations /\ settled' = "none" /\ again' \in BOOLEAN
    BY <1>1
  <2>5. QED
    BY <1>3, <2>1, <2>2, <2>3, <2>4 DEF PlanInv
<1>6. QED
  BY <1>1, <1>2, <1>5 DEF Reports

\* A step after which nothing is under way and nothing is settled.
LEMMA NothingPlanned ==
  ASSUME op' = "none", settled' = "none", todo' = <<>>, again' = FALSE
  PROVE  PlanInv'
<1>1. <<>> \in Seq(Files) /\ FALSE \in BOOLEAN
  OBVIOUS
<1>2. \A o \in Operations : op' # o /\ settled' # o
  BY NoneIsNoOperation
<1>3. QED
  BY <1>1, <1>2 DEF PlanInv

\* A file that is replaced by one that it may be.
LEMMA FileReplaced ==
  ASSUME FileInv, NEW f \in Files, NEW d \in Docs, MayBe(f, d),
         file' = [file EXCEPT ![f] = d]
  PROVE  FileInv'
<1>1. file' \in [Files -> Docs] /\ file'[f] = d /\ \A g \in Files \ {f} : file'[g] = file[g]
  BY DEF FileInv
<1>2. \A g \in Files : MayBe(g, file'[g])
  BY <1>1 DEF FileInv
<1>3. QED
  BY <1>1, <1>2 DEF FileInv, MayBe, Sound

\* An operation that fails has settled nothing.
LEMMA AbortKeeps ==
  ASSUME IInv, Abort, ~Idle, FileInv', edits' \in 0..MaxEdits
  PROVE  IInv'
<1> USE DEF IInv
<1>1. /\ op' = "none" /\ todo' = <<>> /\ report' = "none" /\ again' = FALSE
      /\ settled' = settled /\ stray' = stray
  BY DEF Abort
<1>2. settled = "none"
  BY DEF PlanInv, Idle
<1>3. PlanInv'
  BY <1>1, <1>2, NothingPlanned
<1>4. ReportInv'
  BY <1>1, <1>2 DEF ReportInv
<1>5. QED
  BY <1>1, <1>3, <1>4 DEF Reports

\* What is left of a write that is cut short is a document like any other.
LEMMA TornFacts ==
  ASSUME NEW f \in Files, NEW d \in Docs, MayBe(f, d), NEW e \in Torn(f, d)
  PROVE  e \in Docs /\ MayBe(f, e)
<1>1. CASE e \in {[Document EXCEPT !.managed = m] : m \in {"none", "current"}}
  <2>1. PICK m \in {"none", "current"} : e = [Document EXCEPT !.managed = m]
    BY <1>1
  <2>2. /\ e \in Docs /\ e.kind = "document" /\ e.entry = NoEntries
        /\ e.project = Document.project
    BY <2>1, EmptyDocs DEF Docs
  <2>3. QED
    BY <2>2, EmptyDocs DEF MayBe, Sound
<1>2. CASE e = [d EXCEPT !.kind = "malformed"] /\ f \notin TextFiles
  <2>1. /\ e \in Docs /\ e.kind = "malformed" /\ e.table = d.table /\ e.entry = d.entry
        /\ e.project = d.project
    BY <1>2 DEF Docs, Kinds
  <2>2. QED
    BY <1>2, <2>1 DEF MayBe, Sound
<1>3. CASE e \in {[Document EXCEPT !.table = (x # NoEntries), !.entry = x] :
                    x \in CutShort(d.entry)}
  <2>1. PICK x \in CutShort(d.entry) :
          e = [Document EXCEPT !.table = (x # NoEntries), !.entry = x]
    BY <1>3
  <2>2. x \in [Servers -> Entries]
    BY <2>1 DEF CutShort
  <2>3. /\ e \in Docs /\ e.kind = "document" /\ e.table = (x # NoEntries) /\ e.entry = x
        /\ e.project = Document.project
    BY <2>1, <2>2, EmptyDocs DEF Docs
  <2>4. ~e.table => e.entry = NoEntries
    BY <2>3
  <2>5. QED
    BY <2>3, <2>4, EmptyDocs DEF MayBe, Sound
<1>4. QED
  BY <1>1, <1>2, <1>3 DEF Torn

\* The first write of a project install, if the second fails.
LEMMA FirstWriteFacts ==
  ASSUME NEW d \in Docs, MayBe("claudeUser", d)
  PROVE  LET e == FirstWrite(d)
         IN /\ Adapts(d, e) /\ e \in Docs /\ MayBe("claudeUser", e)
            /\ d.kind = "unreadable" => e = d
<1> DEFINE e == FirstWrite(d)
<1>1. Sound(d) /\ ProjectKey(d) \in Keys
  BY ProjectKeys DEF MayBe
<1>2. Adapts(d, e) /\ (d.kind = "unreadable" => e = d)
  BY <1>1, ProjectConfig DEF FirstWrite
<1>3. QED
  BY <1>2 DEF Adapts, MayBe

\* A write that fails: nothing was written, a part, or the first of two.
LEMMA WriteFailsKeeps ==
  ASSUME IInv, WriteFails
  PROVE  IInv'
<1> USE DEF IInv
<1> DEFINE f == Head(todo)
           out == Materialize(op, f, file[f])
<1>1. /\ ~Idle /\ ~Blocked(f) /\ Abort
      /\ \/ UNCHANGED <<file, edits>>
         \/ /\ edits < MaxEdits /\ edits' = edits + 1
            /\ \E d \in Torn(f, out.doc) : file' = [file EXCEPT ![f] = d]
         \/ /\ op = "installProject" /\ edits' = edits
            /\ file' = [file EXCEPT ![f] = FirstWrite(file[f])]
  BY DEF WriteFails
<1>2. op \in Operations /\ todo \in Seq(Files) /\ todo # <<>> /\ InTodo \subseteq Scope[op]
  BY <1>1 DEF PlanInv, Idle
<1>3. f \in Files /\ f \in InTodo
  BY <1>2, TodoTail DEF InTodo
<1>4. out.doc \in Docs /\ MayBe(f, out.doc)
  <2>1. Handled(op, f, file[f]) = out
    BY <1>1 DEF Handled
  <2> HIDE DEF out, f
  <2>2. QED
    BY <1>2, <1>3, <2>1, HandledFacts
<1> HIDE DEF f, out
<1>5. edits' \in 0..MaxEdits
  BY <1>1, InstallAssumption
<1>6. CASE UNCHANGED <<file, edits>>
  <2>1. FileInv'
    BY <1>6 DEF FileInv
  <2>2. QED
    BY <1>1, <1>5, <2>1, AbortKeeps
<1>7. CASE \E d \in Torn(f, out.doc) : file' = [file EXCEPT ![f] = d]
  <2>1. FileInv'
    BY <1>3, <1>4, <1>7, TornFacts, FileReplaced
  <2>2. QED
    BY <1>1, <1>5, <2>1, AbortKeeps
<1>8. CASE op = "installProject" /\ file' = [file EXCEPT ![f] = FirstWrite(file[f])]
  <2>1. f = "claudeUser"
    BY <1>2, <1>3, <1>8 DEF Scope
  <2>2. file[f] \in Docs /\ MayBe(f, file[f])
    BY <1>3 DEF FileInv
  <2>3. FileInv'
    BY <1>3, <1>8, <2>1, <2>2, FirstWriteFacts, FileReplaced
  <2>4. QED
    BY <1>1, <1>5, <2>3, AbortKeeps
<1>9. QED
  BY <1>1, <1>6, <1>7, <1>8

\* The next file is handled: it is as the operation would have it from now on, and
\* the files handled before are not touched.
LEMMA HandleKeeps ==
  ASSUME IInv, HandleFile
  PROVE  IInv'
<1> USE DEF IInv
<1> DEFINE f == Head(todo)
           out == Handled(op, f, file[f])
<1>1. todo # <<>> /\ todo' = Tail(todo) /\ UNCHANGED <<stray, again, edits>>
      /\ file' = [file EXCEPT ![f] = out.doc]
      /\ report' = Action(file[f], out)
      /\ settled' = (IF Len(todo) = 1 THEN op ELSE "none")
      /\ op' = (IF Len(todo) = 1 THEN "none" ELSE op)
  BY DEF HandleFile, Idle, Handled
<1>2. op \in Operations /\ settled = "none" /\ todo \in Seq(Files)
      /\ InTodo \subseteq Scope[op]
  BY <1>1 DEF PlanInv
<1> DEFINE Same(o) == \A g \in Scope[o] : again \/ g \notin InTodo' => Fixed(o, g)'
<1>3. /\ f \in Files /\ todo' \in Seq(Files)
      /\ InTodo = InTodo' \union {f}
      /\ Len(todo) = 1 => todo' = <<>> /\ InTodo' = {}
      /\ Len(todo) # 1 => todo' # <<>>
  <2>1. InTodo' = {Tail(todo)[i] : i \in 1..Len(Tail(todo))}
    BY <1>1 DEF InTodo
  <2>2. QED
    BY <1>1, <1>2, <2>1, TodoTail DEF InTodo
<1> HIDE DEF f
<1>4. f \in Scope[op]
  BY <1>2, <1>3
<1>5. out.doc \in Docs /\ MayBe(f, out.doc) /\ Handled(op, f, out.doc).doc = out.doc
  BY <1>2, <1>4, HandledFacts
<1> HIDE DEF out
<1>6. file' \in [Files -> Docs] /\ file'[f] = out.doc
      /\ \A g \in Files \ {f} : file'[g] = file[g]
  BY <1>1, <1>3, <1>5 DEF FileInv
<1>7. FileInv'
  BY <1>1, <1>3, <1>5, FileReplaced
<1>8. ASSUME NEW o \in Operations, op = o
      PROVE  Same(o)
  <2> SUFFICES ASSUME NEW g \in Scope[o], again \/ g \notin InTodo'
               PROVE  Fixed(o, g)'
    OBVIOUS
  <2>0. g \in Files
    BY Plans
  <2>1. CASE g = f
    <3>1. Handled(o, g, file'[g]).doc = file'[g]
      BY <2>1, <1>5, <1>6, <1>8
    <3>2. QED
      BY <1>1, <3>1, FixedNext
  <2>2. CASE g # f
    <3>1. Fixed(o, g)
      BY <1>2, <1>3, <1>8, <2>2 DEF PlanInv
    <3>2. QED
      BY <2>0, <2>2, <3>1, <1>1, <1>6, FixedNext DEF Fixed
  <2>3. QED
    BY <2>1, <2>2
<1>9. op' = "none" <=> todo' = <<>>
  BY <1>1, <1>2, <1>3, NoneIsNoOperation
<1>10. PlanInv'
  <2>1. ASSUME NEW o \in Operations, op' = o
        PROVE  InTodo' \subseteq Scope[o] /\ settled' = "none" /\ Same(o)
    <3>1. Len(todo) # 1 /\ op = o
      BY <1>1, <2>1, NoneIsNoOperation
    <3>2. QED
      BY <3>1, <1>1, <1>2, <1>3, <1>8
  <2>2. ASSUME NEW o \in Operations, settled' = o
        PROVE  \A g \in Scope[o] : Fixed(o, g)'
    <3>1. Len(todo) = 1 /\ op = o
      BY <1>1, <2>2, NoneIsNoOperation
    <3>2. QED
      BY <3>1, <1>3, <1>8
  <2>3. /\ op' \in Operations \union {"none"} /\ settled' \in Operations \union {"none"}
        /\ again' = again /\ again \in BOOLEAN
    BY <1>1, <1>2 DEF PlanInv
  <2>4. QED
    BY <1>3, <1>9, <2>1, <2>2, <2>3 DEF PlanInv
<1>11. report' \in Reports
  BY <1>1 DEF Action, Reports
<1>12. again => report' \in {"unchanged", "skipped"}
  <2>1. again => out.doc = file[f]
    BY <1>2, <1>4 DEF PlanInv, Fixed, out
  <2>2. QED
    BY <2>1, <1>1 DEF Action
<1>13. ASSUME settled' = "installProject", report' # "skipped"
       PROVE  \E k \in Keys :
                /\ \A s \in Servers : file'["claudeUser"].project[k].entry[s] \in Owned
                /\ \A j \in Keys \ {k}, s \in Servers :
                     file'["claudeUser"].project[j].entry[s] \notin Owned
  <2>1. op = "installProject" /\ f = "claudeUser"
    BY <1>1, <1>4, <1>13 DEF Scope
  <2>2. ~out.skipped
    BY <1>1, <1>13 DEF Action
  <2>3. out = InstallProject(file[f])
    <3>1. \A d : Materialize("installProject", "claudeUser", d) = InstallProject(d)
      BY DEF Materialize
    <3>2. QED
      BY <2>1, <2>2, <3>1 DEF out, Handled, Skip
  <2>4. file[f] \in Docs /\ Sound(file[f])
    BY <1>3 DEF FileInv, MayBe
  <2>5. \E k \in Keys :
           /\ \A s \in Servers : out.doc.project[k].entry[s] \in Owned
           /\ \A j \in Keys \ {k}, s \in Servers : out.doc.project[j].entry[s] \notin Owned
    BY <2>2, <2>3, <2>4, InstalledProject
  <2>6. QED
    BY <2>1, <2>5, <1>6
<1>14. ReportInv'
  BY <1>1, <1>12, <1>13 DEF ReportInv
<1>15. QED
  BY <1>1, <1>7, <1>10, <1>11, <1>14

\* Beside the files and the directories an edit resets everything.
LEMMA EditKeeps ==
  ASSUME IInv, Edit, op' = op, todo' = todo, FileInv', stray' \in [Dirs -> Strays]
  PROVE  IInv'
<1> USE DEF IInv
<1>1. op = "none" /\ todo = <<>>
  BY DEF Edit, Idle, PlanInv
<1>2. PlanInv'
  BY <1>1, NothingPlanned DEF Edit
<1>3. ReportInv'
  BY DEF Edit, ReportInv
<1>4. report' \in Reports /\ edits' \in 0..MaxEdits
  BY InstallAssumption DEF Edit, Reports
<1>5. QED
  BY <1>2, <1>3, <1>4

\* An entry at the hand of the user or the host.
LEMMA EditEntryKeeps ==
  ASSUME IInv, EditEntry
  PROVE  IInv'
<1>1. PICK f \in ServerFiles, s \in Servers, e \in Entries :
        /\ file[f].kind \in {"absent", "document"}
        /\ file' = [file EXCEPT ![f] =
             [@ EXCEPT !.kind = "document", !.table = TRUE, !.entry[s] = e]]
  BY DEF EditEntry
<1> DEFINE d == [file[f] EXCEPT !.kind = "document", !.table = TRUE, !.entry[s] = e]
<1>2. f \in Files /\ file[f] \in Docs /\ Sound(file[f])
  BY DEF IInv, FileInv, MayBe, ServerFiles, Files
<1>3. [file[f].entry EXCEPT ![s] = e] \in [Servers -> Entries]
  BY <1>2, Fields
<1>4. d \in Docs /\ d.kind = "document" /\ d.table /\ d.project = file[f].project
  BY <1>2, <1>3 DEF Docs, Kinds
<1>5. MayBe(f, d)
  BY <1>2, <1>4 DEF Sound, MayBe
<1>6. file' = [file EXCEPT ![f] = d]
  BY <1>1
<1> HIDE DEF d
<1>7. FileInv'
  BY <1>2, <1>4, <1>5, <1>6, FileReplaced DEF IInv
<1>8. QED
  BY <1>7, EditKeeps DEF EditEntry, IInv

\* An entry of a project.
LEMMA EditProjectKeeps ==
  ASSUME IInv, EditProject
  PROVE  IInv'
<1> DEFINE f == "claudeUser"
<1>1. PICK k \in Keys, s \in Servers, e \in PlainEntries, more \in BOOLEAN :
        /\ file[f].kind \in {"absent", "document"}
        /\ file' = [file EXCEPT ![f] =
             [file[f] EXCEPT !.kind = "document",
                !.project[k] = [there |-> TRUE, more |-> more,
                                entry |-> [file[f].project[k].entry EXCEPT ![s] = e]]]]
  BY DEF EditProject
<1>2. f \in Files /\ file[f] \in Docs /\ Sound(file[f])
  BY DEF IInv, FileInv, MayBe, Files, UserFiles
<1> HIDE DEF f
<1> DEFINE p == [there |-> TRUE, more |-> more,
                 entry |-> [file[f].project[k].entry EXCEPT ![s] = e]]
           d == [file[f] EXCEPT !.kind = "document", !.project[k] = p]
<1>3. p \in Projects /\ p.there
  <2>1. [file[f].project[k].entry EXCEPT ![s] = e] \in [Servers -> Entries]
    BY <1>2, Fields DEF Entries
  <2>2. QED
    BY <2>1 DEF Projects
<1>4. [file[f].project EXCEPT ![k] = p] \in [Keys -> Projects]
  BY <1>2, <1>3, Fields
<1> HIDE DEF p
<1>5. d \in Docs /\ d.kind = "document" /\ d.table = file[f].table
      /\ d.entry = file[f].entry /\ d.project = [file[f].project EXCEPT ![k] = p]
  BY <1>2, <1>4 DEF Docs, Projects, Kinds
<1>6. \A j \in Keys : ~d.project[j].there => d.project[j] = NoProject
  <2> SUFFICES ASSUME NEW j \in Keys, ~d.project[j].there PROVE d.project[j] = NoProject
    OBVIOUS
  <2>1. file[f].project \in [Keys -> Projects]
    BY <1>2, Fields
  <2>2. j # k /\ d.project[j] = file[f].project[j]
    BY <1>3, <1>5, <2>1
  <2>3. QED
    BY <1>2, <2>2 DEF Sound
<1>7. MayBe(f, d)
  BY <1>2, <1>5, <1>6 DEF Sound, MayBe
<1>8. file' = [file EXCEPT ![f] = d]
  BY <1>1 DEF p
<1> HIDE DEF d
<1>9. FileInv'
  BY <1>2, <1>5, <1>7, <1>8, FileReplaced DEF IInv
<1>10. QED
  BY <1>9, EditKeeps DEF EditProject, IInv

\* An older block, rule or hook.
LEMMA EditManagedKeeps ==
  ASSUME IInv, EditManaged
  PROVE  IInv'
<1>1. PICK f \in Files \ ServerFiles, m \in {"none", "old"} :
        file' = [file EXCEPT ![f] = [@ EXCEPT !.kind = "document", !.managed = m]]
  BY DEF EditManaged
<1> DEFINE d == [file[f] EXCEPT !.kind = "document", !.managed = m]
<1>2. file[f] \in Docs /\ Sound(file[f])
  BY DEF IInv, FileInv, MayBe
<1>3. d \in Docs /\ d.kind = "document" /\ d.table = file[f].table
      /\ d.entry = file[f].entry /\ d.project = file[f].project
  BY <1>2 DEF Docs, Kinds
<1>4. MayBe(f, d)
  BY <1>2, <1>3 DEF Sound, MayBe
<1>5. file' = [file EXCEPT ![f] = d]
  BY <1>1
<1> HIDE DEF d
<1>6. FileInv'
  BY <1>2, <1>3, <1>4, <1>5, FileReplaced DEF IInv
<1>7. QED
  BY <1>6, EditKeeps DEF EditManaged, IInv

\* A file that is damaged.
LEMMA EditBreaksKeeps ==
  ASSUME IInv, EditBreaks
  PROVE  IInv'
<1>1. PICK f \in Files :
        \/ f \notin TextFiles /\ file' = [file EXCEPT ![f].kind = "malformed"]
        \/ f \in ServerFiles /\ file' = [file EXCEPT ![f] = Misshapen]
        \/ f \in Unreadable /\ file' = [file EXCEPT ![f].kind = "unreadable"]
  BY DEF EditBreaks
<1>2. file[f] \in Docs /\ Sound(file[f]) /\ FileInv
  BY DEF IInv, FileInv, MayBe
<1>3. ASSUME NEW kind \in {"malformed", "unreadable"},
             file' = [file EXCEPT ![f].kind = kind],
             kind = "malformed" => f \notin TextFiles,
             kind = "unreadable" => f \in Unreadable
      PROVE  FileInv'
  <2> DEFINE d == [file[f] EXCEPT !.kind = kind]
  <2>1. d \in Docs /\ d.kind = kind /\ d.table = file[f].table
        /\ d.entry = file[f].entry /\ d.project = file[f].project
    BY <1>2 DEF Docs, Kinds
  <2>2. MayBe(f, d)
    BY <1>2, <1>3, <2>1 DEF Sound, MayBe
  <2>3. file' = [file EXCEPT ![f] = d]
    BY <1>3
  <2> HIDE DEF d
  <2>4. QED
    BY <1>2, <2>1, <2>2, <2>3, FileReplaced
<1>4. ASSUME f \in ServerFiles, file' = [file EXCEPT ![f] = Misshapen]
      PROVE  FileInv'
  <2>1. Misshapen \in Docs /\ MayBe(f, Misshapen)
    BY <1>4, EmptyDocs DEF Sound, MayBe
  <2>2. QED
    BY <1>2, <1>4, <2>1, FileReplaced
<1>5. FileInv'
  BY <1>1, <1>3, <1>4
<1>6. QED
  BY <1>5, EditKeeps DEF EditBreaks, IInv

\* A directory that is replaced.
LEMMA EditStrayKeeps ==
  ASSUME IInv, EditStray
  PROVE  IInv'
<1>1. PICK dir \in Dirs, thing \in Strays :
        /\ stray' = [stray EXCEPT ![dir] = thing]
        /\ file' = [f \in Files |-> IF dir \in DirOf(f) THEN Absent ELSE file[f]]
  BY DEF EditStray
<1>2. stray' \in [Dirs -> Strays]
  BY <1>1 DEF IInv
<1>3. Absent \in Docs /\ \A f \in Files : MayBe(f, Absent)
  BY EmptyDocs DEF Sound, MayBe
<1>4. ASSUME NEW f \in Files
      PROVE  file'[f] \in Docs /\ MayBe(f, file'[f])
  BY <1>1, <1>3 DEF IInv, FileInv
<1>5. file' \in [Files -> Docs]
  BY <1>1, <1>4
<1>6. FileInv'
  BY <1>4, <1>5 DEF FileInv, MayBe, Sound
<1>7. QED
  BY <1>2, <1>6, EditKeeps DEF EditStray, IInv

\* What an older version left is sound.
LEMMA InitHolds ==
  Init => IInv
<1> SUFFICES ASSUME Init PROVE IInv
  OBVIOUS
<1>1. PICK ss \in {{}, Servers} :
        file = [f \in Files |-> IF f = "claudeUser" THEN LegacyUser(ss)
                                ELSE IF f \in RepoServerFiles \union UserFiles THEN Legacy(ss)
                                ELSE Absent]
  BY DEF Init
<1>2. Absent \in Docs /\ \A f \in Files : MayBe(f, Absent)
  BY EmptyDocs DEF Sound, MayBe
<1> DEFINE entry == [s \in Servers |-> IF s \in ss THEN "outdated" ELSE "none"]
           p == [there |-> TRUE, more |-> FALSE, entry |-> entry]
<1>3. entry \in [Servers -> Entries] /\ p \in Projects /\ p.there /\ p.entry = entry
  BY DEF Entries, PlainEntries, Projects
<1>4. Document \in Docs /\ \A k \in Keys : Document.project[k] = NoProject
  BY EmptyDocs
<1> HIDE DEF p, entry
<1>5. ASSUME ss # {} PROVE FileInv
  <2>0. Legacy(ss) = [Document EXCEPT !.table = TRUE, !.entry = entry]
    BY <1>5 DEF Legacy, entry
  <2>1. /\ Legacy(ss) \in Docs /\ Legacy(ss).kind = "document" /\ Legacy(ss).table
        /\ Legacy(ss).project = Document.project /\ Legacy(ss).entry = entry
    BY <2>0, <1>3, EmptyDocs DEF Docs
  <2>2. \A f \in Files : MayBe(f, Legacy(ss))
    BY <2>1, <1>4 DEF Sound, MayBe
  <2>3. LegacyUser(ss) = [Legacy(ss) EXCEPT !.project["verbatim"] = p]
    BY <1>5, <2>1 DEF LegacyUser, p
  <2> DEFINE q == [Document.project EXCEPT !["verbatim"] = p]
  <2>4. q \in [Keys -> Projects] /\ \A k \in Keys : ~q[k].there => q[k] = NoProject
    <3>1. Document.project \in [Keys -> Projects]
      BY <1>4, Fields
    <3>2. \A k \in Keys : q[k] = IF k = "verbatim" THEN p ELSE NoProject
      BY <3>1, <1>4
    <3>3. QED
      BY <3>1, <3>2, <1>3, EmptyDocs
  <2>5. LegacyUser(ss) = [Legacy(ss) EXCEPT !.project = q]
    BY <2>1, <2>3
  <2> HIDE DEF q
  <2>6. /\ LegacyUser(ss) \in Docs /\ LegacyUser(ss).kind = "document"
        /\ LegacyUser(ss).table /\ LegacyUser(ss).project = q
    BY <2>1, <2>4, <2>5 DEF Docs, Projects
  <2>7. \A f \in Files : MayBe(f, LegacyUser(ss))
    BY <2>4, <2>6 DEF Sound, MayBe
  <2>8. FileInv
    BY <1>1, <1>2, <2>1, <2>2, <2>6, <2>7 DEF FileInv
  <2>9. QED
    BY <1>5, <2>8
<1>6. FileInv
  <2>1. CASE ss = {}
    BY <2>1, <1>1, <1>2 DEF FileInv, Legacy, LegacyUser
  <2>2. QED
    BY <1>5, <2>1
<1>7. PlanInv
  <2>1. <<>> \in Seq(Files) /\ \A o \in Operations : op # o /\ settled # o
    BY NoneIsNoOperation DEF Init
  <2>2. QED
    BY <2>1 DEF Init, PlanInv
<1>8. stray \in [Dirs -> Strays]
  BY DEF Init, Strays
<1>9. QED
  BY <1>6, <1>7, <1>8, InstallAssumption DEF Init, IInv, ReportInv, Reports

\* Every step keeps the inductive invariant.
LEMMA NextKeeps ==
  ASSUME IInv, [Next]_vars
  PROVE  IInv'
<1>1. ASSUME NEW o \in Operations, Begin(o) PROVE IInv'
  BY <1>1, BeginKeeps
<1>2. CASE CreateDirFails
  <2>1. FileInv' /\ edits' \in 0..MaxEdits
    BY <1>2 DEF CreateDirFails, IInv, FileInv
  <2>2. QED
    BY <1>2, <2>1, AbortKeeps DEF CreateDirFails
<1>11. CASE WriteFails
  BY <1>11, WriteFailsKeeps
<1>3. CASE HandleFile
  BY <1>3, HandleKeeps
<1>4. CASE EditEntry
  BY <1>4, EditEntryKeeps
<1>5. CASE EditProject
  BY <1>5, EditProjectKeeps
<1>6. CASE EditManaged
  BY <1>6, EditManagedKeeps
<1>7. CASE EditBreaks
  BY <1>7, EditBreaksKeeps
<1>8. CASE EditStray
  BY <1>8, EditStrayKeeps
<1>9. CASE UNCHANGED vars
  <2>1. UNCHANGED <<file, stray, op, todo, report, settled, again, edits>>
    BY <1>9 DEF vars
  <2>2. \A o, f : Fixed(o, f)' <=> Fixed(o, f)
    BY <2>1, FixedNext DEF Fixed
  <2>3. FileInv' /\ ReportInv' /\ InTodo' = InTodo
    BY <2>1 DEF IInv, FileInv, ReportInv, InTodo
  <2>4. PlanInv'
    BY <2>1, <2>2, <2>3 DEF IInv, PlanInv
  <2>5. QED
    BY <2>1, <2>3, <2>4 DEF IInv
<1>10. QED
  BY <1>1, <1>2, <1>3, <1>4, <1>5, <1>6, <1>7, <1>8, <1>9, <1>11 DEF Next

\* Every reachable state is as IInv says.
LEMMA IInvHolds ==
  Spec => []IInv
<1>1. Init => IInv
  BY InitHolds
<1>2. IInv /\ [Next]_vars => IInv'
  BY NextKeeps
<1>3. QED
  BY <1>1, <1>2, PTL DEF Spec

(* The theorems.                                                           *)

\* Every variable keeps its type.
THEOREM TypeCorrect ==
  Spec => []TypeOK
<1>1. IInv => TypeOK
  BY DEF IInv, FileInv, PlanInv, TypeOK, Docs
<1>2. QED
  BY <1>1, IInvHolds, PTL

\* Installing or removing again changes no file, whatever condition the files were in
\* before the first run.
THEOREM SecondRunIsIdle ==
  Spec => []SecondRunChangesNothing
<1>1. IInv => SecondRunChangesNothing
  BY DEF IInv, ReportInv, SecondRunChangesNothing
<1>2. QED
  BY <1>1, IInvHolds, PTL

\* A completed removal at user scope would take out nothing more.
LEMMA RemovedFromUserScope ==
  ASSUME IInv, settled = "removeUser", NEW f \in UserFiles, NEW s \in Servers,
         file[f].kind = "document"
  PROVE  file[f].entry[s] \notin Owned
<1>1. "removeUser" \in Operations /\ f \in Scope["removeUser"]
  BY DEF Operations, Plan, Scope
<1>2. Fixed("removeUser", f)
  BY <1>1 DEF IInv, PlanInv
<1>3. ~Blocked(f) /\ Materialize("removeUser", f, file[f]) = RemoveUserConfig(file[f])
  BY DEF Blocked, DirOf, Materialize, UserFiles
<1>4. RemoveUserConfig(file[f]).doc = file[f] /\ file[f] \in Docs
  BY <1>2, <1>3 DEF Fixed, Handled, IInv, FileInv, UserFiles, Files
<1>5. [file[f] EXCEPT !.entry = WithoutOwned(file[f].entry)] = file[f]
  BY <1>4 DEF RemoveUserConfig, WriteIf
<1>6. WithoutOwned(file[f].entry) = file[f].entry
  BY <1>4, <1>5 DEF Docs
<1>7. QED
  BY <1>6 DEF WithoutOwned, Owned

\* Nor would one at project scope, under either spelling.
LEMMA RemovedFromProjectScope ==
  ASSUME IInv, settled = "removeProject", file["claudeUser"].kind = "document",
         NEW k \in Keys, NEW s \in Servers
  PROVE  file["claudeUser"].project[k].entry[s] \notin Owned
<1> DEFINE f == "claudeUser"
           d == file[f]
           ks == EquivalentKeys(d)
<1>1. "removeProject" \in Operations /\ f \in Scope["removeProject"] /\ f \in Files
  BY DEF Operations, Plan, Scope, Files, UserFiles
<1>2. Fixed("removeProject", f)
  BY <1>1 DEF IInv, PlanInv
<1>3. ~Blocked(f) /\ Materialize("removeProject", f, d) = RemoveProjectConfig(d, ks)
  BY DEF Blocked, DirOf, Materialize
<1>4. RemoveProjectConfig(d, ks).doc = d /\ d \in Docs /\ Sound(d)
  BY <1>1, <1>2, <1>3 DEF Fixed, Handled, IInv, FileInv, MayBe
<1>5. ks = {j \in Keys : d.project[j].there}
  BY DEF EquivalentKeys
<1> HIDE DEF d, ks
<1>6. CASE k \in ks
  BY <1>4, <1>5, <1>6, RemovedProjectConfig DEF d
<1>7. CASE k \notin ks
  BY <1>4, <1>5, <1>7, EmptyDocs DEF Sound, Owned, d
<1>8. QED
  BY <1>6, <1>7

\* After a completed removal nothing of ours is left in a scope it could read, under
\* any spelling; after a project install it is under one spelling, all of it.
THEOREM ScopesAreClean ==
  Spec => []ScopesClean
<1>1. ASSUME IInv, settled = "installProject", report # "skipped"
      PROVE  \E k \in Keys :
               /\ \A s \in Servers : file["claudeUser"].project[k].entry[s] \in Owned
               /\ \A j \in Keys \ {k} :
                    ~ \E s \in Servers : file["claudeUser"].project[j].entry[s] \in Owned
  BY <1>1 DEF IInv, ReportInv
<1>2. IInv => ScopesClean
  BY <1>1, RemovedFromUserScope, RemovedFromProjectScope DEF ScopesClean
<1>3. QED
  BY <1>2, IInvHolds, PTL

\* What readiness concludes of a file is so.
LEMMA InspectedFile ==
  ASSUME NEW d \in Docs, Sound(d), NEW expected, NEW s \in expected,
         expected \subseteq Servers
  PROVE  LET found == InspectConfig(d, expected)
         IN /\ found \in {"absent", "unreadable", "drifted", "current"}
            /\ found = "current" =>
                 d.entry[s] \in Owned /\ d.kind = "document"
            /\ found = "absent" => d.entry[s] = "none" \/ d.kind = "unreadable"
<1>1. CASE d.kind \in {"absent", "unreadable", "malformed", "misshapen"}
  BY <1>1, EmptyDocs DEF InspectConfig, Sound
<1>2. CASE d.kind = "document" /\ ~d.table
  BY <1>2, EmptyDocs DEF InspectConfig, Sound
<1>3. CASE d.kind = "document" /\ d.table
  BY <1>3 DEF InspectConfig
<1>4. QED
  BY <1>1, <1>2, <1>3, Fields DEF Kinds

\* Where readiness says configured, the entry that the host will use is ours.
THEOREM ConfiguredIsServed ==
  Spec => []ConfiguredIsEffective
<1>1. ASSUME IInv, NEW h \in Hosts, Readiness(h), NEW s \in RepoExpected(h)
      PROVE  IF file[RepoFile(h)].entry[s] # "none" /\ ~Unusable(RepoFile(h))
             THEN file[RepoFile(h)].entry[s] \in Owned
             ELSE file[UserFile(h)].entry[s] \in Owned
  <2> DEFINE user == file[UserFile(h)]
             repo == file[RepoFile(h)]
             seenUser == InspectConfig(user, Servers)
             seenRepo == InspectConfig(repo, RepoExpected(h))
  <2>1. /\ user \in Docs /\ Sound(user) /\ repo \in Docs /\ Sound(repo)
        /\ s \in Servers /\ RepoExpected(h) \subseteq Servers
    BY <1>1 DEF IInv, FileInv, MayBe, UserFile, RepoFile, Files, UserFiles, RepoServerFiles,
         RepoExpected
  <2>2. /\ seenRepo \in {"absent", "unreadable", "drifted", "current"}
        /\ seenRepo = "current" => repo.entry[s] \in Owned /\ repo.kind = "document"
        /\ seenRepo = "absent" => repo.entry[s] = "none" \/ repo.kind = "unreadable"
        /\ seenUser = "current" => user.entry[s] \in Owned
    BY <1>1, <2>1, InspectedFile
  <2>3. Configured(seenUser, seenRepo)
    BY <1>1 DEF Readiness
  <2>4. Unusable(RepoFile(h)) <=> repo.kind \in {"unreadable", "malformed"}
    BY DEF Unusable
  <2> HIDE DEF user, repo, seenUser, seenRepo
  <2>5. IF repo.entry[s] # "none" /\ repo.kind \notin {"unreadable", "malformed"}
        THEN repo.entry[s] \in Owned ELSE user.entry[s] \in Owned
    BY <2>2, <2>3 DEF Configured, Owned
  <2>6. QED
    BY <2>4, <2>5 DEF user, repo
<1>2. IInv => ConfiguredIsEffective
  BY <1>1 DEF ConfiguredIsEffective
<1>3. QED
  BY <1>2, IInvHolds, PTL

\* What a step of an operation keeps of each file, if it did not take it for absent.
LEMMA OperationKeeps ==
  ASSUME IInv, [Next]_vars, edits' = edits, NEW f \in Files
  PROVE  LET d == file[f]
             e == file'[f]
         IN TakenForAbsent(f) \/
              /\ d.kind = "unreadable" => e = d
              /\ IF f = ".codex/config.toml" THEN AdaptsText(d, e) ELSE Adapts(d, e)
<1>0. file[f] \in Docs /\ Sound(file[f])
  BY DEF IInv, FileInv, MayBe
<1>1. CASE file'[f] = file[f]
  BY <1>0, <1>1 DEF Adapts, AdaptsText, Keeps, Lends, KeepsProjects
<1>2. CASE HandleFile
  <2> DEFINE g == Head(todo)
             e == Handled(op, g, file[g]).doc
  <2>1. todo # <<>> /\ file' = [file EXCEPT ![g] = e]
    BY <1>2 DEF HandleFile, Idle, Handled
  <2>2. op \in Operations /\ todo \in Seq(Files) /\ InTodo \subseteq Scope[op] /\ FileInv
    BY <2>1 DEF IInv, PlanInv
  <2>3. g \in Files /\ g \in InTodo
    BY <2>1, <2>2, TodoTail DEF InTodo
  <2> HIDE DEF g
  <2>4. /\ IF g = ".codex/config.toml" THEN AdaptsText(file[g], e) ELSE Adapts(file[g], e)
        /\ file[g].kind = "unreadable" =>
             e = file[g] \/ (op \in {"installRepo", "installUser"} /\ g # ".codex/hooks.json")
    BY <2>2, <2>3, HandledFacts
  <2> HIDE DEF e
  <2>5. file'[f] = IF f = g THEN e ELSE file[f]
    BY <2>1, <2>2, <2>3 DEF FileInv
  <2>6. QED
    BY <1>1, <2>4, <2>5 DEF TakenForAbsent
<1>3. CASE WriteFails /\ ~UNCHANGED file
  <2> DEFINE g == Head(todo)
  <2>1. /\ op = "installProject" /\ todo # <<>>
        /\ file' = [file EXCEPT ![g] = FirstWrite(file[g])]
    BY <1>3 DEF WriteFails, IInv, Idle
  <2>2. todo \in Seq(Files) /\ InTodo \subseteq Scope["installProject"] /\ FileInv
    BY <2>1, NoneIsNoOperation DEF IInv, PlanInv, Operations, Plan
  <2>3. g = "claudeUser" /\ g \in Files
    BY <2>1, <2>2, TodoTail DEF InTodo, Scope
  <2> HIDE DEF g
  <2>4. file[g] \in Docs /\ MayBe("claudeUser", file[g])
    BY <2>2, <2>3 DEF FileInv
  <2>5. file'[f] = IF f = g THEN FirstWrite(file[g]) ELSE file[f]
    BY <2>1, <2>2, <2>3 DEF FileInv
  <2>6. QED
    BY <1>1, <2>3, <2>4, <2>5, FirstWriteFacts
<1>4. ~Edit
  BY DEF Edit, IInv
<1>5. HandleFile \/ WriteFails \/ UNCHANGED file
  BY <1>4 DEF Next, Begin, CreateDirFails, EditEntry, EditProject,
     EditManaged, EditBreaks, EditStray, vars
<1>6. QED
  BY <1>1, <1>2, <1>3, <1>5

\* No operation, completed or aborted, whatever the files are, changes one it cannot
\* parse, or anything that is not ours in one that it reads.
THEOREM UserContentIsKept ==
  Spec => UserContentKept
<1> DEFINE Kept(f) ==
       /\ Unusable(f) => file'[f] = file[f]
       /\ file[f].kind = "misshapen" /\ ~Fragile(f) => file'[f] = file[f]
       /\ file'[f].kind = "malformed" => file[f].kind = "malformed" \/ Fragile(f)
       /\ \A s \in Servers :
            /\ file[f].entry[s] \in Others =>
                 \/ file'[f].entry[s] = file[f].entry[s]
                 \/ f = ".codex/config.toml" /\ s \in Approved
                    /\ file'[f].entry[s] = "allowed"
            /\ \A k \in Keys : file[f].project[k].entry[s] \in Others =>
                 file'[f].project[k].entry[s] = file[f].project[k].entry[s]
       /\ \A k \in Keys : file[f].project[k].more => file'[f].project[k].more
<1>1. ASSUME IInv, [Next]_vars, edits' = edits, NEW f \in Files, ~TakenForAbsent(f)
      PROVE  Kept(f)
  <2> DEFINE d == file[f]
             e == file'[f]
  <2>1. /\ d.kind = "unreadable" => e = d
        /\ IF f = ".codex/config.toml" THEN AdaptsText(d, e) ELSE Adapts(d, e)
    BY <1>1, OperationKeeps
  <2>2. Unusable(f) <=> d.kind \in {"unreadable", "malformed"}
    BY DEF Unusable
  <2>3. Fragile(f) <=> f = ".codex/config.toml" /\ Breakable(d)
    BY DEF Fragile, Breakable
  <2> HIDE DEF d, e
  <2>4. CASE e = d
    BY <2>2, <2>4 DEF d, e
  <2>5. CASE d.kind # "unreadable" /\ f # ".codex/config.toml"
    <3>1. /\ e.kind \in {d.kind, "document"} /\ Keeps(d, e)
          /\ d.kind \in {"malformed", "misshapen"} => e = d
      BY <2>1, <2>5 DEF Adapts
    <3>2. QED
      BY <2>2, <2>5, <3>1 DEF Keeps, KeepsProjects, d, e
  <2>6. CASE d.kind # "unreadable" /\ f = ".codex/config.toml"
    <3>1. /\ d.kind = "malformed" => e = d
          /\ e.kind = "malformed" => d.kind = "malformed" \/ Breakable(d)
          /\ Lends(d, e)
      BY <2>1, <2>6 DEF AdaptsText
    <3>2. d.kind = "misshapen" => Breakable(d)
      BY DEF Breakable
    <3>3. QED
      BY <2>2, <2>3, <2>6, <3>1, <3>2 DEF Lends, KeepsProjects, d, e
  <2>7. QED
    BY <2>1, <2>4, <2>5, <2>6
<1>2. IInv /\ [Next]_vars =>
        [edits' = edits => \A f \in Files : TakenForAbsent(f) \/ Kept(f)]_vars
  BY <1>1
<1>3. QED
  BY <1>2, IInvHolds, PTL DEF Spec, UserContentKept
=============================================================================
