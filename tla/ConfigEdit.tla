----------------------------- MODULE ConfigEdit -----------------------------
(***************************************************************************)
(* Editing the configuration in the browser: GET and PUT /api/config       *)
(* (cmd/miniagent/web_config.go) and SaveConfig, LoadConfig                *)
(* (config/config_save.go, config_load.go), with edits of the file by      *)
(* others, reloads and crashes.                                            *)
(*                                                                         *)
(* Of a configuration there is what GET masks: a function from the names   *)
(* of its providers, and from Web for web.key, to keys.  Everything else   *)
(* passes through a PUT as it came.                                        *)
(***************************************************************************)
EXTENDS Naturals

CONSTANTS
  Browsers,    \* clients of the configuration page
  Names,       \* names of providers
  Web,         \* the server itself, whose web.key is the other secret
  Keys,        \* secrets somebody may enter
  NoKey,       \* the empty key
  Mask,        \* maskedSecret
  NoConfig,    \* nothing: no form, no save, a file that does not load
  FirstConfig, \* what the server started with
  OthersEdit,  \* does anybody else change the file?
  MaxChanges   \* bound on the changes explored

ASSUME ConfigEditAssumption ==
  /\ Mask \notin Keys \cup {NoKey} /\ NoKey \notin Keys /\ Web \notin Names
  /\ OthersEdit \in BOOLEAN /\ MaxChanges \in Nat

VARIABLES
  running,   \* webServer.cfg
  cfgOnDisk, \* what cfgPath holds; NoConfig if it does not load
  form,      \* per browser: the configuration it shows
  saving,    \* per browser: what its PUT is about to rename into place
  told,      \* per browser: how its last PUT ended
  entered,   \* every <<owner, key>> somebody entered
  changes    \* changes of a form or of the file so far

configVars == <<running, cfgOnDisk, form, saving, told, entered, changes>>

\* Valid configurations: at least one provider.
Configs == UNION {[D \cup {Web} -> Keys \cup {NoKey}] : D \in (SUBSET Names) \ {{}}}

Owners == Names \cup {Web}

\* The server starts from a configuration that LoadConfig accepted.
ASSUME FirstConfigAssumption == FirstConfig \in Configs /\ NoConfig \notin Configs

KeysOf(c) == {<<n, c[n]>> : n \in {m \in DOMAIN c : c[m] \in Keys}}

ConfigInit ==
  /\ running = FirstConfig
  /\ cfgOnDisk = FirstConfig
  /\ form = [b \in Browsers |-> NoConfig]
  /\ saving = [b \in Browsers |-> NoConfig]
  /\ told = [b \in Browsers |-> "nothing"]
  /\ entered = KeysOf(FirstConfig)
  /\ changes = 0

MaskedConfig(c) == [n \in DOMAIN c |-> IF c[n] = NoKey THEN NoKey ELSE Mask]

\* The file is the basis of an edit, the running configuration if it does not load.
ConfigGet(b) ==
  /\ saving[b] = NoConfig
  /\ form' = [form EXCEPT ![b] =
       MaskedConfig(IF cfgOnDisk = NoConfig THEN running ELSE cfgOnDisk)]
  /\ UNCHANGED <<running, cfgOnDisk, saving, told, entered, changes>>

\* The user changes one thing of the form: enters or clears a key, of the server, of a
\* provider, of a new one, removes a provider, renames one.
FormEdit(b) ==
  LET c == form[b] IN
  /\ c # NoConfig /\ saving[b] = NoConfig /\ changes < MaxChanges
  /\ \/ \E n \in Owners, k \in Keys \cup {NoKey} :
          form' = [form EXCEPT ![b] = [m \in DOMAIN c \cup {n} |-> IF m = n THEN k ELSE c[m]]]
     \/ \E n \in DOMAIN c \ {Web} :
          form' = [form EXCEPT ![b] = [m \in DOMAIN c \ {n} |-> c[m]]]
     \/ \E n \in DOMAIN c \ {Web}, new \in Names \ DOMAIN c :
          form' = [form EXCEPT ![b] =
            [m \in (DOMAIN c \ {n}) \cup {new} |-> IF m = new THEN c[n] ELSE c[m]]]
  /\ changes' = changes + 1
  /\ UNCHANGED <<running, cfgOnDisk, saving, told, entered>>

\* Mutant: a name that is not found is passed over.
UnmaskedIfFound(dst) ==
  [n \in DOMAIN dst |-> IF dst[n] = Mask /\ n \in DOMAIN running THEN running[n] ELSE dst[n]]

\* applyMaskedSecrets: a masked web.key is the running one, which always is there, the
\* masked key of a provider is looked up by name in the running configuration; it is
\* refused where there is none of that name.
Unmasked(dst) ==
  IF \E n \in DOMAIN dst : dst[n] = Mask /\ n \notin DOMAIN running THEN NoConfig
  ELSE [n \in DOMAIN dst |-> IF dst[n] = Mask THEN running[n] ELSE dst[n]]

\* Nothing is written unless it is valid.
ConfigPut(b) ==
  LET incoming == Unmasked(form[b]) IN
  /\ form[b] # NoConfig /\ saving[b] = NoConfig
  /\ entered' = entered \cup KeysOf(form[b])
  /\ IF incoming = NoConfig \/ DOMAIN form[b] = {Web}
     THEN told' = [told EXCEPT ![b] = "refused"] /\ UNCHANGED saving
     ELSE saving' = [saving EXCEPT ![b] = incoming] /\ UNCHANGED told
  /\ UNCHANGED <<running, cfgOnDisk, form, changes>>

\* A step of SaveConfig up to the rename fails; its temporary file is removed.
ConfigSaveFails(b) ==
  /\ saving[b] # NoConfig
  /\ saving' = [saving EXCEPT ![b] = NoConfig]
  /\ told' = [told EXCEPT ![b] = "failed"]
  /\ UNCHANGED <<running, cfgOnDisk, form, entered, changes>>

\* The rename, and the answer: does what was saved differ from what runs?  The
\* form is filled with what was saved.
ConfigRename(b) ==
  /\ saving[b] # NoConfig
  /\ cfgOnDisk' = saving[b]
  /\ told' = [told EXCEPT ![b] = IF saving[b] = running THEN "saved" ELSE "restart"]
  /\ form' = [form EXCEPT ![b] = MaskedConfig(saving[b])]
  /\ saving' = [saving EXCEPT ![b] = NoConfig]
  /\ UNCHANGED <<running, entered, changes>>

\* Somebody else changes the file: to another valid configuration, or breaks it.
OtherEdit ==
  /\ OthersEdit /\ changes < MaxChanges
  /\ cfgOnDisk' \in {[FirstConfig EXCEPT ![n] = k] : n \in DOMAIN FirstConfig, k \in Keys}
                      \cup {NoConfig}
  /\ entered' = entered \cup (IF cfgOnDisk' = NoConfig THEN {} ELSE KeysOf(cfgOnDisk'))
  /\ changes' = changes + 1
  /\ UNCHANGED <<running, form, saving, told>>

\* The next generation runs what the file holds, and there is none if that does
\* not load.  A save under way goes on after
\* a reload and is lost with a crash.
ConfigReload ==
  /\ cfgOnDisk # NoConfig
  /\ running' = cfgOnDisk
  /\ \/ UNCHANGED saving
     \/ saving' = [b \in Browsers |-> NoConfig]
  /\ UNCHANGED <<cfgOnDisk, form, told, entered, changes>>

ConfigNext ==
  \/ \E b \in Browsers :
       ConfigGet(b) \/ FormEdit(b) \/ ConfigPut(b) \/ ConfigSaveFails(b) \/ ConfigRename(b)
  \/ OtherEdit \/ ConfigReload

ConfigSpec == ConfigInit /\ [][ConfigNext]_configVars

(***************************************************************************)
(* Properties.                                                             *)
(***************************************************************************)

\* Types of the variables.
ConfigTypeOK ==
  /\ running \in Configs /\ cfgOnDisk \in Configs \cup {NoConfig}
  /\ \A b \in Browsers :
       /\ form[b] = NoConfig \/ DOMAIN form[b] \subseteq Owners
       /\ saving[b] \in Configs \cup {NoConfig}
       /\ told[b] \in {"nothing", "refused", "failed", "saved", "restart"}
  /\ entered \subseteq Owners \X Keys

\* However forms go stale, providers are renamed and the file is changed from
\* outside, a key that is stored with a provider, or for the server, is one somebody
\* entered there: never the placeholder, never the key of another
\* (web_config.go:245).
KeysBelong ==
  \A c \in ({running, cfgOnDisk} \cup {saving[b] : b \in Browsers}) \ {NoConfig} :
    \A n \in DOMAIN c : c[n] # NoKey => <<n, c[n]>> \in entered

=============================================================================
