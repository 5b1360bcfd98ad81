------------------------------ MODULE MCEnvWizard ------------------------------
(* Two wizards, two init runs, and the files to start from. *)
EXTENDS EnvWizard, TLC

CONSTANT k1

\* Edited by hand: a key assigned twice, a mode uncommented together with the comment
\* behind it, nothing behind the last line.
HandEdited ==
    <<Line("TELEGRAM_TOKEN", "old"), Line(MASTER, k1), Line("#", "text"),
      Line("TELEGRAM_TOKEN", "older"), Unended("SLACK_MODE", "webhook # or")>>

\* By hand too, below the header an earlier wizard has put there.
RunsOn == <<Line(MASTER, k1), Header, Unended("DISCORD_GUILD_ID", "old")>>

\* None; one just initialised; edited by hand.
MCInitialFiles ==
    {Absent} \cup
    {[there |-> TRUE, lines |-> ls] : ls \in {Template(k1), HandEdited, RunsOn}}

Symmetry == Permutations(Wizards)
================================================================================
