------------------------------- MODULE EnvWizard -------------------------------
(***************************************************************************)
(* .env and the commands that edit it: `bot-cmder configure`, the wizard   *)
(* that reads the file, asks questions for minutes and writes the file     *)
(* back, and `bot-cmder init`, which creates it and, with --force, writes  *)
(* it anew.  Several wizards may be open at once, and each may be killed   *)
(* anywhere; one init runs at a time.                                      *)
(*                                                                         *)
(* The file is a sequence of lines, an assignment or a comment (key "#").  *)
(* Edited by hand it may end without a newline; what is appended then runs *)
(* on from its last line.  A save puts a new file in the place of the old, *)
(* which init may still hold open: inode tells the one from the other.     *)
(*                                                                         *)
(* The sections of the wizard touch nothing but the wizard's own copy, so  *)
(* the questions of one section are one action.  What an operator types is *)
(* the wizard's name: enough to see whose answer a value is, and a value   *)
(* that is read back as it was typed (neither quoted nor padded).          *)
(***************************************************************************)
EXTENDS Integers, Sequences, FiniteSetsExt, SequencesExt

CONSTANTS
    Wizards,      \* runs of `bot-cmder configure`
    MasterKeys,   \* what Fernet.generate_key may return
    InitialFiles, \* .env before anything happens, [there, lines]
    Picks,        \* what the operators choose: a platform or "all"
    MaxEdits,     \* answers other than Keep or Skip in one run
    MaxInits      \* runs of `bot-cmder init`

ASSUME WizardAssumption ==
    /\ Picks \subseteq {"telegram", "discord", "slack", "all"}
    /\ {MaxEdits, MaxInits} \subseteq Nat
    /\ "" \notin MasterKeys
    /\ Wizards \cap {"before", "truncate", "init"} = {}

VARIABLES
    file,      \* .env on disk: what the name leads to
    inode,     \* which file that is: one more with every os.replace
    yaml,      \* app.yaml exists
    wz,        \* each wizard's process
    init,      \* the init process: what it does next, the key it will write, the file it has open
    inits,     \* init runs so far
    saved,     \* history: who wrote a version of the file, read from which, and what for
    keys,      \* history: master keys written into the file
    rotated,   \* history: some init was asked to rotate the key
    cut,       \* history: an init was killed between truncating and writing
    glued      \* history: keys of an assignment that ran on from another line, or of that line

vars == <<file, inode, yaml, wz, init, inits, saved, keys, rotated, cut, glued>>

--------------------------------------------------------------------------------
(* The file. *)

\* ended: the newline is there.
Line(k, v) == [key |-> k, val |-> v, ended |-> TRUE]
Unended(k, v) == [key |-> k, val |-> v, ended |-> FALSE]

\* Its text begins with a newline of its own.
Header == Line("#", "added by configure")
HasHeader(lines) == \E l \in ToSet(lines) : l.key = "#" /\ l.val = Header.val

At(lines, k) == {i \in DOMAIN lines : lines[i].key = k}

\* The last assignment counts; an absent key reads as an empty one.
Get(lines, k) == IF At(lines, k) = {} THEN "" ELSE lines[Max(At(lines, k))].val

\* Slip: the first of several assignments of a key is rewritten.
SetFirst(lines, k, v) ==
    IF At(lines, k) # {}
    THEN [lines EXCEPT ![Min(At(lines, k))] = Line(k, v)]
    ELSE Append(lines, Line(k, v))

\* In place, or at the end under the header.
SetKey(lines, k, v) ==
    IF At(lines, k) # {}
    THEN [lines EXCEPT ![Max(At(lines, k))] = Line(k, v)]
    ELSE (IF HasHeader(lines) THEN lines ELSE Append(lines, Header))
         \o <<Line(k, v)>>

\* What f says, and where it says nothing, what g does.
Over(f, g) == [k \in DOMAIN f \cup DOMAIN g |-> IF k \in DOMAIN f THEN f[k] ELSE g[k]]

\* Where one line runs on into the next.
Seams(lines) == {i \in DOMAIN lines : ~lines[i].ended /\ i < Len(lines) /\ lines[i + 1] # Header}

\* The value of an assignment with another assignment behind it.
Mangled == "glued"

\* What the text of some lines reads as, line by line: an assignment that runs on from an
\* other line is not one any more, and is part of the value it runs on from.
OnDisk(lines) ==
    LET ended == [i \in DOMAIN lines |-> [lines[i] EXCEPT !.ended = @ \/ i < Len(lines)]]
        i == Max(Seams(lines))
        seam == [ended[i] EXCEPT !.val = IF lines[i].key = "#" THEN @ ELSE Mangled]
    IN IF Seams(lines) = {} THEN ended ELSE RemoveAt([ended EXCEPT ![i] = seam], i + 1)

Damaged(lines) ==
    IF Seams(lines) = {} THEN {}
    ELSE LET i == Max(Seams(lines)) IN {lines[i].key, lines[i + 1].key}

Absent == [there |-> FALSE, lines |-> << >>]
Written(lines) == [there |-> TRUE, lines |-> OnDisk(lines)]

MASTER == "BOT_CMDER_MASTER_KEY"

\* _ENV_TEMPLATE: the key and a page of comments.
Template(key) == <<Line("#", "template"), Line(MASTER, key), Line("#", "adapters")>>

--------------------------------------------------------------------------------
(* The sections: which keys are asked for, in which order. *)

Platforms == {"telegram", "discord", "slack"}

ModeKey(p) ==
    CASE p = "telegram" -> "TELEGRAM_MODE"
      [] p = "discord" -> "DISCORD_MODE"
      [] p = "slack" -> "SLACK_MODE"

Modes(p) ==
    CASE p = "telegram" -> {"webhook", "polling"}
      [] p = "discord" -> {"interactions", "gateway"}
      [] p = "slack" -> {"events", "socket"}

TokenKey(p) ==
    CASE p = "telegram" -> "TELEGRAM_TOKEN"
      [] p = "discord" -> "DISCORD_BOT_TOKEN"
      [] p = "slack" -> "SLACK_BOT_TOKEN"

TelegramFields(mode) ==
    <<"TELEGRAM_TOKEN">> \o
    (IF mode = "webhook" THEN <<"TELEGRAM_WEBHOOK_SECRET">> ELSE << >>)

DiscordFields(mode) ==
    <<"DISCORD_BOT_TOKEN", "DISCORD_APPLICATION_ID">> \o
    (IF mode = "interactions" THEN <<"DISCORD_PUBLIC_KEY">> ELSE << >>) \o
    <<"DISCORD_GUILD_ID">>

SlackFields(mode) ==
    <<"SLACK_BOT_TOKEN">> \o
    (IF mode = "events" THEN <<"SLACK_SIGNING_SECRET", "SLACK_REQUEST_URL">>
                        ELSE <<"SLACK_APP_TOKEN", "SLACK_SIGNING_SECRET">>)

Fields(p, mode) ==
    CASE p = "telegram" -> TelegramFields(mode)
      [] p = "discord" -> DiscordFields(mode)
      [] p = "slack" -> SlackFields(mode)

AllKeys == {MASTER} \cup {ModeKey(p) : p \in Platforms}
                    \cup UNION {ToSet(Fields(p, m)) : p \in Platforms, m \in UNION {Modes(q) : q \in Platforms}}

\* What a .env may read before anything happens.  None but its last line is unended.
ASSUME FileAssumption ==
    \A f \in InitialFiles :
       /\ f \in [there : BOOLEAN,
                 lines : Seq([key : AllKeys \cup {"#"}, val : {l.val : l \in ToSet(f.lines)},
                              ended : BOOLEAN])]
       /\ f.lines # << >> => f.there
       /\ \A i \in DOMAIN f.lines : i < Len(f.lines) => f.lines[i].ended

\* One field.  Clear is offered for a value that is there, a new or generated value
\* always; Keep, Skip and an empty entry leave the key out of the answers.
Answers(lines, w, k) == {w} \cup (IF Get(lines, k) # "" THEN {""} ELSE {})

\* What one section may come to: the mode, when it is not what the file says, and any
\* of its fields, at most room answers in all.
SectionAnswers(lines, w, p, mode, room) ==
    LET moded == IF mode = Get(lines, ModeKey(p)) THEN {} ELSE {ModeKey(p)}
        asked == {ks \in SUBSET (moded \cup ToSet(Fields(p, mode))) :
                    moded \subseteq ks /\ Cardinality(ks) <= room}
        options(k) == IF k \in moded THEN {mode} ELSE Answers(lines, w, k)
    IN UNION {{f \in [ks -> {mode, w, ""}] : \A k \in ks : f[k] \in options(k)} : ks \in asked}

\* The mode first, then the fields.
Asked(p, mode) == <<ModeKey(p)>> \o Fields(p, mode)

\* Every answer is set in the order it was asked for.
Edited(lines, p, mode, answers) ==
    LET Set(l, k) == IF k \in DOMAIN answers THEN SetKey(l, k, answers[k]) ELSE l
    IN FoldLeft(Set, lines, Asked(p, mode))

--------------------------------------------------------------------------------
(* The wizard. *)

NoAnswers == [k \in {} |-> ""]

\* before: the section's snapshot, restored on Abort.
\* answered: history, the answers of the sections completed; asked: of the one at hand.
Wizard(pc) == [pc |-> pc, lines |-> << >>, loaded |-> << >>, base |-> 0, todo |-> << >>,
               before |-> << >>, changed |-> FALSE, answered |-> NoAnswers, asked |-> NoAnswers]

\* Once it has ended a process leaves nothing but what it wrote.
Finish(w) == wz' = [wz EXCEPT ![w] = Wizard("done")]

Todo(pick) == IF pick = "all" THEN <<"telegram", "discord", "slack">> ELSE <<pick>>

\* Slip: the file is edited whether or not it holds a master key.
AnyFile == file.there

Usable == file.there /\ Get(file.lines, MASTER) # ""

\* A version init wrote after its truncation and behind somebody's os.replace: it went to
\* a file that had no name any more.
Overtaken(vs, n) == vs[n].by = "init" /\ vs[n - 1].by # "truncate"

\* The last version .env was given.
Latest(vs) == Max({n \in DOMAIN vs : ~Overtaken(vs, n)})

\* _load_env, then the menu or the argument.  The second load only feeds the preview.
Load(w) ==
    /\ wz[w].pc = "start" /\ Usable
    /\ \E pick \in Picks :
         wz' = [wz EXCEPT ![w] = [Wizard("walk") EXCEPT
                   !.lines = file.lines, !.loaded = file.lines,
                   !.base = Latest(saved), !.todo = Todo(pick)]]
    /\ UNCHANGED <<file, inode, yaml, init, inits, saved, keys, rotated, cut, glued>>

\* No file, no master key, Quit, or --non-interactive.
Refuse(w) ==
    /\ wz[w].pc = "start"
    /\ Finish(w)
    /\ UNCHANGED <<file, inode, yaml, init, inits, saved, keys, rotated, cut, glued>>

\* One section up to its last field.  A mode in the file that the menu does not have
\* ends the wizard with an exception.
Walk(w) ==
    /\ wz[w].pc = "walk" /\ wz[w].todo # << >>
    /\ LET me == wz[w]
           p == Head(me.todo)
       IN IF Get(me.lines, ModeKey(p)) \notin Modes(p) \cup {""}
          THEN Finish(w)
          ELSE \E mode \in Modes(p) :
               \E a \in SectionAnswers(me.lines, w, p, mode,
                                     MaxEdits - Cardinality(DOMAIN me.answered)) :
                 wz' = [wz EXCEPT ![w] =
                          IF a = NoAnswers THEN [me EXCEPT !.todo = Tail(me.todo)]
                          ELSE [me EXCEPT !.pc = "validate",
                                          !.lines = Edited(me.lines, p, mode, a),
                                          !.before = me.lines, !.asked = a]]
    /\ UNCHANGED <<file, inode, yaml, init, inits, saved, keys, rotated, cut, glued>>

\* The live check never passes without a token; what else it says is the network's.
Verdicts(lines, p) == IF Get(lines, TokenKey(p)) = "" THEN {FALSE} ELSE BOOLEAN

Completed(me) == [me EXCEPT !.pc = "walk", !.todo = Tail(me.todo), !.before = << >>,
                            !.changed = TRUE, !.answered = Over(me.asked, me.answered),
                            !.asked = NoAnswers]

\* Slip: Abort means there is nothing to write.
ForgetChanges(me) == [me EXCEPT !.pc = "walk", !.todo = << >>, !.lines = me.before,
                                !.before = << >>, !.changed = FALSE, !.asked = NoAnswers]

\* _Aborted in cmd_configure: the section's changes go, and so do the sections to come.
Aborted(me) == [me EXCEPT !.pc = "walk", !.todo = << >>, !.lines = me.before,
                          !.before = << >>, !.asked = NoAnswers]

\* _ask_validate.  Declined, passed and "Save anyway" complete the section; Retry asks
\* the network again about the same copy.
Validate(w) ==
    /\ wz[w].pc = "validate"
    /\ LET me == wz[w] IN
         \/ wz' = [wz EXCEPT ![w] = Completed(me)]
         \/ FALSE \in Verdicts(me.lines, Head(me.todo)) /\ wz' = [wz EXCEPT ![w] = Aborted(me)]
    /\ UNCHANGED <<file, inode, yaml, init, inits, saved, keys, rotated, cut, glued>>

\* Nothing changed, or --dry-run.
EndUnsaved(w) ==
    /\ wz[w].pc = "walk" /\ wz[w].todo = << >>
    /\ Finish(w)
    /\ UNCHANGED <<file, inode, yaml, init, inits, saved, keys, rotated, cut, glued>>

\* save, up to the temporary file on disk with its mode.
WriteTmp(w) ==
    /\ wz[w].pc = "walk" /\ wz[w].todo = << >> /\ wz[w].changed
    /\ wz' = [wz EXCEPT ![w].pc = "replace"]
    /\ UNCHANGED <<file, inode, yaml, init, inits, saved, keys, rotated, cut, glued>>

\* os.replace.
Replace(w) ==
    /\ wz[w].pc = "replace"
    /\ file' = Written(wz[w].lines) /\ inode' = inode + 1
    /\ saved' = Append(saved, [by |-> w, base |-> wz[w].base, answers |-> wz[w].answered])
    /\ glued' = glued \cup Damaged(wz[w].lines)
    /\ Finish(w)
    /\ UNCHANGED <<yaml, init, inits, keys, rotated, cut>>

\* Ctrl-C at a question or in the middle of a save, an OSError out of one, or kill.
Stop(w) ==
    /\ wz[w].pc \notin {"start", "done"}
    /\ Finish(w)
    /\ UNCHANGED <<file, inode, yaml, init, inits, saved, keys, rotated, cut, glued>>

--------------------------------------------------------------------------------
(* bot-cmder init. *)

\* fh: the file it has open.
Idle == [pc |-> "idle", key |-> "", rotate |-> FALSE, fh |-> 0]

\* The guard looks at app.yaml alone; app.yaml is written first.
InitScaffold(force, rotate) ==
    /\ init.pc = "idle" /\ inits < MaxInits
    /\ ~yaml \/ force
    /\ yaml' = TRUE
    /\ init' = [Idle EXCEPT !.pc = "key", !.rotate = rotate]
    /\ inits' = inits + 1
    /\ rotated' = (rotated \/ rotate)
    /\ UNCHANGED <<file, inode, wz, saved, keys, cut, glued>>

\* Slip: the old key is taken without looking whether there is one.
OldKey == {Get(file.lines, MASTER)}

\* _read_existing_master_key, or a new one.
KeyToWrite ==
    IF init.rotate \/ Get(file.lines, MASTER) = ""
    THEN MasterKeys \ ToSet(keys)
    ELSE {Get(file.lines, MASTER)}

InitKey ==
    /\ init.pc = "key"
    /\ \E k \in KeyToWrite : init' = [init EXCEPT !.pc = "truncate", !.key = k]
    /\ UNCHANGED <<file, inode, yaml, wz, inits, saved, keys, rotated, cut, glued>>

Emptied == [k \in AllKeys |-> ""]

\* write_text opens the file for writing and so empties it ...
InitTruncate ==
    /\ init.pc = "truncate"
    /\ file' = Written(<< >>)
    /\ saved' = Append(saved, [by |-> "truncate", base |-> 0, answers |-> Emptied])
    /\ init' = [init EXCEPT !.pc = "write", !.fh = inode]
    /\ UNCHANGED <<inode, yaml, wz, inits, keys, rotated, cut, glued>>

\* ... then writes to the file it has opened, whatever .env has come to be since.
InitWrite ==
    /\ init.pc = "write"
    /\ file' = IF init.fh = inode THEN Written(Template(init.key)) ELSE file
    /\ saved' = Append(saved, [by |-> "init", base |-> 0,
                               answers |-> [Emptied EXCEPT ![MASTER] = init.key]])
    /\ keys' = IF Contains(keys, init.key) THEN keys ELSE Append(keys, init.key)
    /\ init' = Idle
    /\ UNCHANGED <<inode, yaml, wz, inits, rotated, cut, glued>>

InitKilled ==
    /\ init.pc # "idle"
    /\ cut' = (cut \/ init.pc = "write")
    /\ init' = Idle
    /\ UNCHANGED <<file, inode, yaml, wz, inits, saved, keys, rotated, glued>>

--------------------------------------------------------------------------------

Init ==
    /\ file \in InitialFiles
    /\ yaml \in BOOLEAN
    /\ wz = [w \in Wizards |-> Wizard("start")]
    /\ init = Idle /\ inits = 0
    /\ saved = <<[by |-> "before", base |-> 0,
                  answers |-> [k \in AllKeys |-> Get(file.lines, k)]]>>
    /\ keys = IF Get(file.lines, MASTER) = "" THEN << >> ELSE <<Get(file.lines, MASTER)>>
    /\ rotated = FALSE /\ cut = FALSE /\ inode = 0 /\ glued = {}

Next ==
    \/ \E w \in Wizards : \/ Load(w) \/ Refuse(w) \/ Walk(w) \/ Validate(w) \/ EndUnsaved(w)
                          \/ WriteTmp(w) \/ Replace(w) \/ Stop(w)
    \/ \E force, rotate \in BOOLEAN : InitScaffold(force, rotate)
    \/ InitKey \/ InitTruncate \/ InitWrite \/ InitKilled

Spec == Init /\ [][Next]_vars

--------------------------------------------------------------------------------
(* Properties. *)

IsLines(s) == \A i \in DOMAIN s : s[i].key \in AllKeys \cup {"#"} /\ s[i].ended \in BOOLEAN

\* Types; besides, init never sets out to write an empty key, and holds no file open that
\* is yet to come.
TypeOK ==
    /\ file.there \in BOOLEAN /\ IsLines(file.lines) /\ (file.lines # << >> => file.there)
    /\ yaml \in BOOLEAN /\ rotated \in BOOLEAN /\ cut \in BOOLEAN /\ inode \in Nat
    /\ \A w \in Wizards :
         /\ wz[w].pc \in {"start", "walk", "validate", "replace", "done"}
         /\ IsLines(wz[w].lines) /\ IsLines(wz[w].loaded) /\ IsLines(wz[w].before)
         /\ wz[w].base \in 0..Len(saved)
         /\ ToSet(wz[w].todo) \subseteq Platforms
    /\ init.pc \in {"idle", "key", "truncate", "write"} /\ init.fh \in 0..inode
    /\ init.pc \in {"truncate", "write"} => init.key # ""
    /\ inits \in 0..MaxInits
    /\ glued \subseteq AllKeys \cup {"#"}
    /\ \A i \in DOMAIN saved : saved[i].base < i

\* What version n of the file should read: its writer's answers over the version
\* the writer had read.
Ledger[n \in 0..Len(saved)] ==
    IF n = 0 THEN Emptied
    ELSE Over(saved[n].answers, Ledger[saved[n].base])

\* Whatever overlaps, is aborted or is killed, the file on disk reads as the last version
\* somebody completed, and that version as its writer's completed answers over the version
\* it had started from.  So an answer is visible although its key is assigned twice, an
\* aborted section leaves nothing, no half-written file is ever seen, and another wizard's
\* answers are lost only to one that was open across them.  Two things the code does not
\* keep up, and they go no further than this: an init a wizard's save has overtaken leaves
\* nothing of its file, and an unended last line garbles its own key and the one key
\* written behind it.
FileIsLedger ==
    \A k \in AllKeys \ glued : Get(file.lines, k) = Ledger[Latest(saved)][k]

\* Nothing but the assignments of ks differs; what is new stands at the end.
Surgical(lines, loaded, ks) ==
    /\ Len(loaded) <= Len(lines)
    /\ \A i \in DOMAIN loaded :
          lines[i] # loaded[i] => loaded[i].key \in ks /\ lines[i].key = loaded[i].key
    /\ \A i \in DOMAIN lines \ DOMAIN loaded : lines[i].key \in ks \/ lines[i] = Header

\* Surgical edits: the wizard's copy has every other line of the loaded file, in its
\* place, at every moment; and one that is about to say "No changes to write." holds no
\* answer.
CopyIsAnswers ==
    \A w \in Wizards :
      LET me == wz[w]
          ks == DOMAIN me.answered \cup DOMAIN me.asked
      IN /\ Surgical(me.lines, me.loaded, ks)
         /\ (me.pc = "walk" /\ ~me.changed) => me.lines = me.loaded /\ me.answered = NoAnswers

\* As long as nobody asks for a rotation, no init is killed between emptying the file
\* and writing it, and nothing runs on from the key's line, the master key never changes,
\* whatever wizards and init --force do at once: TOTP enrollments stay readable.
KeyKept ==
    (~rotated /\ ~cut /\ MASTER \notin glued /\ init.pc # "write") =>
        /\ Len(keys) <= 1
        /\ keys # << >> => Get(file.lines, MASTER) = keys[1]

================================================================================
