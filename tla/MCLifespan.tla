------------------------------- MODULE MCLifespan -------------------------------
(* Three deployments: every platform once as a daemon, once as a router, and one *)
(* without the credentials its mode asks for. *)
EXTENDS Lifespan

MCDeployments ==
    {[mode |-> [telegram |-> "polling", discord |-> "interactions", slack |-> "socket"],
      set |-> {"TELEGRAM_TOKEN", "DISCORD_BOT_TOKEN", "DISCORD_APPLICATION_ID",
               "DISCORD_PUBLIC_KEY", "SLACK_APP_TOKEN"}],
     [mode |-> [telegram |-> "webhook", discord |-> "gateway", slack |-> "events"],
      set |-> {"TELEGRAM_TOKEN", "TELEGRAM_WEBHOOK_SECRET", "DISCORD_BOT_TOKEN",
               "DISCORD_APPLICATION_ID", "SLACK_SIGNING_SECRET"}],
     [mode |-> [telegram |-> "webhook", discord |-> "interactions", slack |-> "events"],
      set |-> {"TELEGRAM_TOKEN", "DISCORD_BOT_TOKEN", "SLACK_APP_TOKEN"}]}
================================================================================
