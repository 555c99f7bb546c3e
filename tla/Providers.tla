------------------------------ MODULE Providers ------------------------------
(* The providers a user keeps, and the one in use (main.c: /provider and
   /model; endpoints.c, models.c, favorites.c, secrets.c, config.c).

   A provider is spread over four places: its settings and the profiles of its
   models in the config file, its key in the credentials file or in a key
   store, its pinned models and the choice of one in the state file. A dialog
   writes them one after the other; any of the writes can fail, and the process
   can end between two of them. What a turn uses is a copy in memory.

   The base URL stands for the URL and the API it speaks. One key store stands
   for those of the system. *)
EXTENDS Naturals, FiniteSets

CONSTANTS
    Name, Base, Key, Model,
    Unset,        \* no value
    Project,      \* the base URLs the project's file names
    Kepts,        \* what is kept when arqan starts
    Room,         \* AGENT_MAX_ENDPOINTS
    MaxDialogs    \* bound: dialogs begun

VARIABLES
    kept,     \* the files and the key store
    cfg,      \* the connection in memory
    dlg,      \* the dialog
    behind,   \* a step that failed left memory behind the files
    torn,     \* providers of which only a part was written or removed
    entered,  \* the keys the user gave a provider, since there is one of that name
    deleted,     \* providers said to be deleted
    dialogs

provVars == <<kept, cfg, dlg, behind, torn, entered, deleted, dialogs>>

--------------------------------------------------------------------------------
Err     == "error"
Sources == {"file", "store", "command"}
NoConnection == [prov |-> Unset, url |-> Unset, key |-> Unset, model |-> Unset, tuned |-> FALSE]
NoDialog == [pc |-> "idle", kind |-> "", p |-> Unset, m |-> Unset, url |-> Unset, setkey |-> FALSE, key |-> Unset,
             src |-> "file", eps |-> Unset, ok |-> TRUE]

\* endpoints_load: the user's providers come first, and a project file redefines none of them.
Endpoints(k) ==
    [p \in Name |-> IF k.conf[p] # Unset THEN [url |-> k.conf[p], own |-> TRUE]
                    ELSE [url |-> Project[p], own |-> FALSE]]
Known(e) == {p \in Name : e[p].url # Unset}

\* What the files and the key store can hold.
KeptRec == [conf : [Name -> Base \cup {Unset}],
            creds : [Name -> [src : Sources, key : Key \cup {Unset}]],
            store : [Name -> Key \cup {Unset}], open : BOOLEAN,
            profiles : SUBSET (Name \X Model), pins : SUBSET (Name \X Model),
            prov : Name \cup {Unset}, model : Model \cup {Unset}]
\* A key is in one place.
Tidy(k, p) == /\ k.creds[p].src = "store" => k.creds[p].key = Unset
              /\ k.store[p] # Unset => k.creds[p].src = "store"
\* Of a provider that only the project's file has, no key is kept that an edit would make its own.
Bare(k, p) == k.conf[p] = Unset /\ Project[p] # Unset => k.creds[p].key = Unset /\ k.store[p] = Unset

ASSUME ProvAssumption ==
    /\ Unset \notin Name \cup Base \cup Key \cup Model
    /\ Err \notin Key \cup {Unset}
    /\ Project \in [Name -> Base \cup {Unset}]
    /\ \A k \in Kepts : /\ k \in KeptRec
                        /\ k.prov \in Known(Endpoints(k)) \cup {Unset}
                        /\ \A p \in Name : Tidy(k, p) /\ Bare(k, p)

\* endpoints_key, and secret_lookup behind it: what it can return. A provider of a project file
\* has no key; credentials others can read are not opened; a store that holds nothing is an error.
KeyRead(k, e, p) ==
    IF ~e[p].own THEN {Unset}
    ELSE IF ~k.open THEN {Err}
    ELSE CASE k.creds[p].src = "file"    -> {k.creds[p].key}
           [] k.creds[p].src = "store"   -> {Err} \cup ({k.store[p]} \ {Unset})
           [] k.creds[p].src = "command" -> {Err, k.creds[p].key}
\* The same when the helper program of the store answers.
KeyHeld(k, e, p) == IF KeyRead(k, e, p) = {Err} THEN Unset ELSE CHOOSE v \in KeyRead(k, e, p) : v # Err

\* conf_apply_endpoint and config_load: the connection a start finds, with this key.
Resumed(k, key) ==
    IF k.prov \notin Known(Endpoints(k)) THEN NoConnection
    ELSE [prov |-> k.prov, url |-> Endpoints(k)[k.prov].url, key |-> key,
          model |-> k.model, tuned |-> <<k.prov, k.model>> \in k.profiles]
AtStart(k) == Resumed(k, IF k.prov \in Known(Endpoints(k)) THEN KeyHeld(k, Endpoints(k), k.prov) ELSE Unset)

NoProvider == cfg.prov = Unset
Serving(p) == cfg.prov = p

ProvInit ==
    /\ kept \in Kepts
    /\ cfg = AtStart(kept) /\ dlg = NoDialog /\ behind = FALSE /\ torn = {} /\ deleted = {} /\ dialogs = 0
    /\ entered = [p \in Name |-> IF p \in Known(Endpoints(kept)) THEN {KeyHeld(kept, Endpoints(kept), p)} ELSE {}]

--------------------------------------------------------------------------------
Begins(d) == /\ dlg.pc = "idle" /\ dialogs < MaxDialogs /\ dialogs' = dialogs + 1
             /\ dlg' = d
Goes(d)   == dlg' = d /\ UNCHANGED dialogs
Ends      == Goes(NoDialog)

\* The answers to the questions about a provider's settings, and the choice of a row of the picker.
ToSave(kind, p, u, setkey, key, src) ==
    [pc |-> "save", kind |-> kind, p |-> p, m |-> Unset, url |-> u, setkey |-> setkey, key |-> key,
     src |-> src, eps |-> Endpoints(kept), ok |-> TRUE]
Picked(pc, kind, p, m) ==
    [pc |-> pc, kind |-> kind, p |-> p, m |-> m, url |-> Unset, setkey |-> FALSE, key |-> Unset,
     src |-> "file", eps |-> Endpoints(kept), ok |-> TRUE]

\* add_endpoint, the questions, and the probe whose failure the user accepted.
AddAsks(p, u, key, src) ==
    /\ p \notin Known(Endpoints(kept)) /\ Cardinality(Known(Endpoints(kept))) < Room
    /\ Begins(ToSave("add", p, u, TRUE, key, IF key = Unset THEN "file" ELSE src))
    /\ entered' = [entered EXCEPT ![p] = {key}] /\ deleted' = deleted \ {p}
    /\ UNCHANGED <<kept, cfg, behind, torn>>

\* edit_endpoint, the questions. A key that is kept or moved is read first.
Source(p)   == IF kept.open THEN kept.creds[p].src ELSE "file"
EditAsks(p, u) ==
    /\ p \in Known(Endpoints(kept))
    /\ \/ /\ KeyRead(kept, Endpoints(kept), p) # {Err} /\ UNCHANGED entered
          /\ Begins(ToSave("edit", p, u, FALSE, Unset, "file"))
       \/ \E key \in Key \cup {Unset}, src \in {"file", "store"} :
             /\ Begins(ToSave("edit", p, u, TRUE, key, src))
             /\ entered' = [entered EXCEPT ![p] = @ \cup {key}]
       \/ \E key \in KeyRead(kept, Endpoints(kept), p) \ {Err, Unset}, src \in {"file", "store"} :
             Begins(ToSave("edit", p, u, TRUE, key, src)) /\ UNCHANGED entered
       \/ Begins(ToSave("edit", p, u, TRUE, Unset, Source(p))) /\ UNCHANGED entered
    /\ UNCHANGED <<kept, cfg, behind, torn, deleted>>

\* A step of a dialog failed and the user is told: what was written stays.
Halts == /\ Ends /\ torn' = torn \cup {dlg.p}
          /\ behind' = (behind \/ Serving(dlg.p))

\* A bug: the list of providers in memory keeps the old settings.
Listed_Stale(e, p, u) == e
\* endpoints_put over the list of the dialog: what a project file named is the user's now.
Listed(e, p, u) == [e EXCEPT ![p] = [url |-> u, own |-> TRUE]]

\* endpoints_put and endpoints_save_one.
Saves ==
    /\ dlg.pc = "save"
    /\ \/ /\ kept' = [kept EXCEPT !.conf[dlg.p] = dlg.url]
          /\ IF dlg.setkey \/ Serving(dlg.p)
             THEN Goes([dlg EXCEPT !.pc = IF dlg.setkey THEN "erase" ELSE "use",
                                   !.eps = Listed(@, dlg.p, dlg.url), !.m = cfg.model])
             ELSE Ends
       \/ Ends /\ UNCHANGED kept
    /\ UNCHANGED <<cfg, behind, torn, entered, deleted>>

\* endpoints_set_key. What another source holds is erased, and whether that worked is not asked.
Superseded(c, src, key) == c.src # "file" /\ (c.src # src \/ key = Unset)
SecretErases ==
    /\ dlg.pc = "erase"
    /\ IF ~kept.open \/ dlg.src = "command"
       THEN Halts /\ UNCHANGED kept
       ELSE /\ Goes([dlg EXCEPT !.pc = "put"]) /\ UNCHANGED behind
            /\ IF Superseded(kept.creds[dlg.p], dlg.src, dlg.key) /\ kept.creds[dlg.p].src = "store"
               THEN \/ kept' = [kept EXCEPT !.store[dlg.p] = Unset] /\ UNCHANGED torn
                    \/ torn' = torn \cup {dlg.p} /\ UNCHANGED kept
               ELSE UNCHANGED <<kept, torn>>
    /\ UNCHANGED <<cfg, entered, deleted>>

\* secret_store.
SecretPuts ==
    /\ dlg.pc = "put"
    /\ IF dlg.src = "store" /\ dlg.key # Unset
       THEN \/ /\ kept' = [kept EXCEPT !.store[dlg.p] = dlg.key]
               /\ Goes([dlg EXCEPT !.pc = "write"]) /\ UNCHANGED <<behind, torn>>
            \/ Halts /\ UNCHANGED kept
       ELSE Goes([dlg EXCEPT !.pc = "write"]) /\ UNCHANGED <<kept, behind, torn>>
    /\ UNCHANGED <<cfg, entered, deleted>>

\* A bug: a key that went to the store stays in the file.
Written_BothPlaces(c, src, key) == [src |-> src, key |-> IF src = "file" THEN key ELSE c.key]
\* The key and where it is; of a key in a store the file has only that.
Written(c, src, key) == [src |-> src, key |-> IF src = "file" THEN key ELSE Unset]

SecretWrites ==
    /\ dlg.pc = "write"
    /\ \/ /\ kept' = [kept EXCEPT !.creds[dlg.p] = Written(@, dlg.src, dlg.key)]
          /\ UNCHANGED <<behind, torn>>
          /\ IF dlg.kind = "add"
             THEN \* the first provider: a model is picked next, or none is
                  \/ NoProvider /\ \E m \in Model : Goes([dlg EXCEPT !.pc = "use", !.m = m])
                  \/ Ends
             ELSE IF Serving(dlg.p) THEN Goes([dlg EXCEPT !.pc = "use"]) ELSE Ends
       \/ Halts /\ UNCHANGED kept
    /\ UNCHANGED <<cfg, entered, deleted>>

--------------------------------------------------------------------------------
\* choose_model and pick_model: a pair of the list, or one typed in.
ModelAsks(p, m) ==
    /\ p \in Known(Endpoints(kept))
    /\ Begins(Picked("use", "model", p, m))
    /\ UNCHANGED <<kept, cfg, behind, torn, entered, deleted>>

\* use_model: nothing of the connection changes when the key cannot be read. An edit does not
\* choose, and remembers nothing; a choice that cannot be remembered is used all the same.
Uses ==
    /\ dlg.pc = "use" /\ Ends
    /\ \E key \in KeyRead(kept, dlg.eps, dlg.p) :
          IF key = Err
          THEN /\ behind' = (behind \/ dlg.kind = "edit") /\ UNCHANGED <<kept, cfg>>
          ELSE /\ cfg' = [prov |-> dlg.p, url |-> dlg.eps[dlg.p].url, key |-> key, model |-> dlg.m,
                          tuned |-> <<dlg.p, dlg.m>> \in kept.profiles]
               /\ IF dlg.kind = "edit" THEN UNCHANGED <<kept, behind>>
                  ELSE \/ kept' = [kept EXCEPT !.prov = dlg.p, !.model = dlg.m] /\ behind' = FALSE
                       \/ behind' = TRUE /\ UNCHANGED kept
    /\ UNCHANGED <<torn, entered, deleted>>

\* edit_model_profile, over a row of the picker.
ProfileSaved(p, m) ==
    /\ p \in Known(Endpoints(kept)) /\ dlg.pc = "idle" /\ dialogs < MaxDialogs /\ dialogs' = dialogs + 1
    /\ \E tuned \in BOOLEAN :
          /\ kept' = [kept EXCEPT !.profiles = IF tuned THEN @ \cup {<<p, m>>} ELSE @ \ {<<p, m>>}]
          /\ cfg' = IF Serving(p) /\ cfg.model = m THEN [cfg EXCEPT !.tuned = tuned] ELSE cfg
    /\ UNCHANGED <<dlg, behind, torn, entered, deleted>>

\* favorites_toggle, over a row of the picker.
Pinned(p, m) ==
    /\ p \in Known(Endpoints(kept)) /\ dlg.pc = "idle" /\ dialogs < MaxDialogs /\ dialogs' = dialogs + 1
    /\ kept' = [kept EXCEPT !.pins = IF <<p, m>> \in @ THEN @ \ {<<p, m>>} ELSE @ \cup {<<p, m>>}]
    /\ UNCHANGED <<cfg, dlg, behind, torn, entered, deleted>>

--------------------------------------------------------------------------------
\* delete_endpoint and endpoints_delete: four removals, each tried whatever became of the others.
DeleteAsks(p) ==
    /\ p \in Known(Endpoints(kept)) /\ kept.open
    /\ Begins(Picked("delete key", "delete", p, Unset))
    /\ UNCHANGED <<kept, cfg, behind, torn, entered, deleted>>

LessOf(set, p) == {x \in set : x[1] # p}
Lessened(k, pc, p) ==
    CASE pc = "delete key"      -> [k EXCEPT !.store[p] = IF k.creds[p].src = "store" THEN Unset ELSE @]
      [] pc = "delete creds"    -> [k EXCEPT !.creds[p] = [src |-> "file", key |-> Unset]]
      [] pc = "delete profiles" -> [k EXCEPT !.profiles = LessOf(@, p)]
      [] pc = "delete section"  -> [k EXCEPT !.conf[p] = Unset]

Removal == [pc \in {"delete key", "delete creds", "delete profiles", "delete section"} |->
              CASE pc = "delete key"      -> "delete creds"
                [] pc = "delete creds"    -> "delete profiles"
                [] pc = "delete profiles" -> "delete section"
                [] pc = "delete section"  -> "forget"]
Deletes ==
    /\ dlg.pc \in DOMAIN Removal
    /\ \/ kept' = Lessened(kept, dlg.pc, dlg.p) /\ Goes([dlg EXCEPT !.pc = Removal[dlg.pc]])
       \/ Goes([dlg EXCEPT !.pc = Removal[dlg.pc], !.ok = FALSE]) /\ UNCHANGED kept
    /\ UNCHANGED <<cfg, behind, torn, entered, deleted>>

\* Then, unless one of them failed, its pins, the choice and the connection in memory. Whether
\* the state file could be written is not asked.
Forgotten(k, p, chosen) ==
    [k EXCEPT !.pins = LessOf(@, p), !.prov = IF chosen THEN Unset ELSE @, !.model = IF chosen THEN Unset ELSE @]
DeleteForgets ==
    /\ dlg.pc = "forget"
    /\ IF ~dlg.ok THEN Halts /\ UNCHANGED <<kept, cfg, deleted>>
       ELSE /\ Ends /\ deleted' = deleted \cup {dlg.p}
            /\ cfg' = IF Serving(dlg.p) THEN NoConnection ELSE cfg
            /\ \/ /\ kept' = Forgotten(kept, dlg.p, Serving(dlg.p)) /\ UNCHANGED behind
                  \* the choice of another was not remembered, and this one still is
                  /\ torn' = IF kept'.prov = dlg.p THEN torn \cup {dlg.p} ELSE torn
               \/ torn' = torn \cup {dlg.p} /\ behind' = (behind \/ Serving(dlg.p)) /\ UNCHANGED kept
    /\ UNCHANGED entered

\* The process ends, anywhere, and arqan starts again.
Restarts ==
    /\ dialogs < MaxDialogs /\ dialogs' = dialogs + 1
    /\ dlg' = NoDialog
    /\ torn' = IF dlg.pc = "idle" THEN torn ELSE torn \cup {dlg.p}
    /\ \E key \in IF kept.prov \in Known(Endpoints(kept)) THEN KeyRead(kept, Endpoints(kept), kept.prov)
                 ELSE {Unset} :
          /\ cfg' = Resumed(kept, IF key = Err THEN Unset ELSE key)
          /\ behind' = (key = Err)
    /\ UNCHANGED <<kept, entered, deleted>>

ProvNext ==
    \/ \E p \in Name : \/ \E u \in Base, key \in Key \cup {Unset}, src \in {"file", "store"} : AddAsks(p, u, key, src)
                       \/ \E u \in Base : EditAsks(p, u)
                       \/ \E m \in Model : ModelAsks(p, m) \/ ProfileSaved(p, m) \/ Pinned(p, m)
                       \/ DeleteAsks(p)
    \/ Saves \/ SecretErases \/ SecretPuts \/ SecretWrites \/ Uses \/ Deletes \/ DeleteForgets \/ Restarts

ProvSpec == ProvInit /\ [][ProvNext]_provVars

--------------------------------------------------------------------------------
ProvTypeOK ==
    /\ kept.conf \in [Name -> Base \cup {Unset}] /\ kept.store \in [Name -> Key \cup {Unset}]
    /\ \A p \in Name : kept.creds[p].src \in Sources /\ kept.creds[p].key \in Key \cup {Unset}
    /\ kept.profiles \subseteq Name \X Model /\ kept.pins \subseteq Name \X Model
    /\ cfg.prov \in Name \cup {Unset} /\ Cardinality(Known(Endpoints(kept))) <= Room

\* What is in use is what a start would find, unless a step about it failed: the provider, its URL, its key,
\* the model and its profile (use_model, edit_endpoint, delete_endpoint against
\* conf_apply_endpoint).
SameAtStart ==
    dlg.pc = "idle" /\ ~behind /\ kept.prov \notin torn => cfg = AtStart(kept)

\* A key is in one place, and a provider has no key but one that was given to it: one added
\* under the name of a deleted one inherits nothing
\* (tests/cases/test_provider.py:710, "a new provider never inherits a leftover key").
KeysOwn ==
    dlg.pc = "idle" =>
    \A p \in Name \ torn :
       /\ kept.creds[p].src # "file" => kept.creds[p].key = Unset \/ kept.creds[p].src = "command"
       /\ kept.store[p] # Unset => kept.creds[p].src = "store"
       /\ p \in Known(Endpoints(kept)) => KeyHeld(kept, Endpoints(kept), p) \in entered[p] \cup {Unset}
       /\ Serving(p) => cfg.key \in entered[p] \cup {Unset}

\* Of a provider said to be deleted nothing is left: no key, no profile, no pin, and it is not
\* chosen (tests/cases/test_provider.py:202, 221).
NothingLeft ==
    \A p \in deleted \ torn : Project[p] = Unset =>
       /\ kept.creds[p].key = Unset /\ kept.store[p] = Unset
       /\ LessOf(kept.profiles, p) = kept.profiles /\ LessOf(kept.pins, p) = kept.pins
       /\ kept.prov # p /\ cfg.prov # p

InUseTrue == SameAtStart /\ KeysOwn /\ NothingLeft
=============================================================================
