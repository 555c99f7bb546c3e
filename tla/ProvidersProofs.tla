--------------------------- MODULE ProvidersProofs ---------------------------
(* What is in use is what a start would find, a key is the provider's own, and
   a deleted provider leaves nothing: for any names, keys and models.

   A dialog writes the parts of a provider one after the other, so between two
   of its steps none of the three holds of the provider it is about. The
   invariant says of each step what it has done so far (StageOK), and of every
   other provider that all its parts fit (NamesOK). A step that fails makes its
   provider one of torn, of which nothing is claimed until it is whole again. *)
EXTENDS Providers, TLAPS

\* The key a provider has when the helper program of its store answers.
Have(k, p) ==
    IF k.conf[p] = Unset \/ ~k.open THEN Unset
    ELSE IF k.creds[p].src = "store" THEN k.store[p] ELSE k.creds[p].key

Owned(k, e, p) == k.conf[p] # Unset => Have(k, p) \in e[p] \cup {Unset}
KeysSound(k, e, p) == Tidy(k, p) /\ Bare(k, p) /\ Owned(k, e, p)
Gone(k, p) == /\ k.conf[p] = Unset /\ k.creds[p].key = Unset /\ k.store[p] = Unset
              /\ \A x \in k.profiles \cup k.pins : x[1] # p
              /\ k.prov # p

--------------------------------------------------------------------------------
Saving   == {"save", "erase", "put", "write"}
Deleting == {"delete creds", "delete profiles", "delete section", "forget"}
Stages   == {"idle", "use", "delete key"} \cup Saving \cup Deleting
\* Steps between which the parts of the provider need not fit.
Apart    == (Saving \ {"save"}) \cup Deleting

IsDlg(d) == d = [pc |-> d.pc, kind |-> d.kind, p |-> d.p, m |-> d.m, url |-> d.url, setkey |-> d.setkey,
                 key |-> d.key, src |-> d.src, eps |-> d.eps, ok |-> d.ok]
DlgTypeOK ==
    /\ IsDlg(dlg) /\ dlg.pc \in Stages /\ dlg.p \in Name \cup {Unset} /\ dlg.m \in Model \cup {Unset}
    /\ dlg.url \in Base \cup {Unset} /\ dlg.key \in Key \cup {Unset} /\ dlg.src \in Sources
IsConn(c) == c = [prov |-> c.prov, url |-> c.url, key |-> c.key, model |-> c.model, tuned |-> c.tuned]
TypesOK ==
    /\ kept \in KeptRec
    /\ IsConn(cfg) /\ cfg.prov \in Name \cup {Unset} /\ cfg.model \in Model \cup {Unset}
    /\ DlgTypeOK
    /\ torn \subseteq Name /\ deleted \subseteq Name
    /\ entered \in [Name -> SUBSET (Key \cup {Unset})]

\* What a dialog may be about, and that its list is the one that is kept.
DlgOK ==
    /\ dlg.pc = "idle" => dlg = NoDialog
    /\ dlg.pc # "idle" => dlg.p \in Name /\ (dlg.p \in deleted \ torn => Project[dlg.p] # Unset)
    /\ dlg.pc \in Saving \cup {"use"} => dlg.eps = Endpoints(kept) /\ dlg.kind \in {"add", "edit", "model"}
    /\ dlg.pc \in Saving => dlg.kind # "model"
    /\ dlg.pc = "save" => dlg.url \in Base
    /\ dlg.pc = "save" /\ dlg.kind # "edit" => dlg.setkey /\ dlg.p \notin Known(Endpoints(kept))
    /\ dlg.pc = "save" /\ dlg.kind = "edit" => dlg.p \in Known(Endpoints(kept))
    /\ dlg.pc \in {"erase", "put", "write"} => kept.conf[dlg.p] # Unset
    /\ dlg.pc \in {"erase", "put", "write", "use"} /\ dlg.kind = "edit" => dlg.m = cfg.model
    /\ dlg.pc \in {"put", "write"} => dlg.src # "command"
    /\ dlg.pc = "use" => dlg.p \in Known(Endpoints(kept))
    /\ dlg.pc = "use" /\ dlg.kind = "edit" => cfg.prov = dlg.p
    /\ dlg.kind = "add" /\ kept.prov = dlg.p => dlg.p \in torn
    /\ dlg.pc = "save" /\ dlg.setkey /\ dlg.p \notin torn => dlg.key \in entered[dlg.p] \cup {Unset}
    /\ dlg.pc \in {"erase", "put", "write"} /\ dlg.p \notin torn => dlg.key \in entered[dlg.p] \cup {Unset}

\* What each step has made of the key, the profiles and the settings of its provider.
StageOK ==
    dlg.p \notin torn =>
    /\ dlg.pc \in {"erase", "put"} => Tidy(kept, dlg.p)
    /\ dlg.pc = "put" => (kept.store[dlg.p] # Unset => dlg.src = "store" /\ dlg.key # Unset)
    /\ dlg.pc = "write" => kept.store[dlg.p] = IF dlg.src = "store" THEN dlg.key ELSE Unset
    /\ dlg.pc \in Deleting /\ dlg.ok => kept.store[dlg.p] = Unset
    /\ dlg.pc \in Deleting \ {"delete creds"} /\ dlg.ok => kept.creds[dlg.p] = [src |-> "file", key |-> Unset]
    /\ dlg.pc \in {"delete section", "forget"} /\ dlg.ok => \A x \in kept.profiles : x[1] # dlg.p
    /\ dlg.pc = "forget" /\ dlg.ok => kept.conf[dlg.p] = Unset

NameSound(p) == /\ cfg.prov = p => cfg.key \in entered[p] \cup {Unset}
                /\ (dlg.p = p /\ dlg.pc \in Apart) \/ KeysSound(kept, entered, p)
NamesOK == \A p \in Name \ torn : NameSound(p)

\* What is chosen is a provider, unless its removal is under way or was not whole.
There(p) == p \in Known(Endpoints(kept)) \cup torn \cup {Unset} \/ (dlg.pc = "forget" /\ p = dlg.p)
ChosenOK == There(kept.prov) /\ There(cfg.prov)

\* An edit of the provider in use is under way, or its removal.
Unlike == kept.prov = dlg.p /\ (dlg.pc \in Apart \/ (dlg.pc = "use" /\ dlg.kind = "edit"))
StartOK ==
    ~behind /\ kept.prov \notin torn =>
        IF Unlike THEN cfg.prov = kept.prov /\ cfg.model = kept.model ELSE cfg = AtStart(kept)

GoneOK == \A p \in deleted \ torn : Project[p] = Unset => Gone(kept, p) /\ cfg.prov # p

IInv == TypesOK /\ DlgOK /\ StageOK /\ NamesOK /\ ChosenOK /\ StartOK /\ GoneOK
--------------------------------------------------------------------------------
(* The operators of the model. *)

\* endpoints_load of what is kept: the user's settings hide those of the project.
LEMMA EndpointIs ==
    ASSUME NEW k, NEW p \in Name
    PROVE  /\ p \in Known(Endpoints(k)) <=> k.conf[p] # Unset \/ Project[p] # Unset
           /\ Endpoints(k)[p].own <=> k.conf[p] # Unset
           /\ k.conf[p] # Unset => Endpoints(k)[p].url = k.conf[p]
<1>1. Endpoints(k)[p] = IF k.conf[p] # Unset THEN [url |-> k.conf[p], own |-> TRUE]
                        ELSE [url |-> Project[p], own |-> FALSE]
  BY DEF Endpoints
<1>2. CASE k.conf[p] # Unset
  BY <1>1, <1>2 DEF Known
<1>3. CASE k.conf[p] = Unset
  BY <1>1, <1>3 DEF Known
<1> QED BY <1>2, <1>3

\* The list of what is kept follows from the settings alone.
LEMMA SameEndpoints ==
    ASSUME NEW k, NEW l, k.conf = l.conf
    PROVE  Endpoints(k) = Endpoints(l)
BY DEF Endpoints

\* endpoints_key reads the key a provider has, or fails.
LEMMA ReadsHeld ==
    ASSUME NEW k \in KeptRec, NEW p \in Name
    PROVE  /\ Have(k, p) \in Key \cup {Unset}
           /\ \A v \in KeyRead(k, Endpoints(k), p) : v = Err \/ v = Have(k, p)
           /\ KeyHeld(k, Endpoints(k), p) = Have(k, p)
<1> DEFINE R == KeyRead(k, Endpoints(k), p)
<1>1. /\ k.creds[p].src \in Sources /\ k.creds[p].key \in Key \cup {Unset}
      /\ k.store[p] \in Key \cup {Unset}
  BY DEF KeptRec
<1>2. Have(k, p) \in Key \cup {Unset}
  BY <1>1 DEF Have
<1>3. Err # Have(k, p)
  BY <1>2, ProvAssumption
<1>4. R = {Have(k, p)} \/ R = {Err, Have(k, p)} \/ (R = {Err} /\ Have(k, p) = Unset)
  <2>1. CASE k.conf[p] = Unset
    <3>1. R = {Unset} /\ Have(k, p) = Unset
      BY <2>1, EndpointIs DEF KeyRead, Have
    <3> QED BY <3>1
  <2>2. CASE k.conf[p] # Unset /\ ~k.open
    <3>1. R = {Err} /\ Have(k, p) = Unset
      BY <2>2, EndpointIs DEF KeyRead, Have
    <3> QED BY <3>1
  <2>3. CASE k.conf[p] # Unset /\ k.open
    <3>0. R = CASE k.creds[p].src = "file"    -> {k.creds[p].key}
                [] k.creds[p].src = "store"   -> {Err} \cup ({k.store[p]} \ {Unset})
                [] k.creds[p].src = "command" -> {Err, k.creds[p].key}
      BY <2>3, EndpointIs DEF KeyRead
    <3>1. CASE k.creds[p].src = "file"
      <4>1. R = {k.creds[p].key} /\ Have(k, p) = k.creds[p].key
        BY <2>3, <3>0, <3>1 DEF Have
      <4> QED BY <4>1
    <3>2. CASE k.creds[p].src = "store"
      <4>1. R = {Err} \cup ({k.store[p]} \ {Unset}) /\ Have(k, p) = k.store[p]
        BY <2>3, <3>0, <3>2 DEF Have
      <4>2. CASE k.store[p] = Unset
        <5>1. R = {Err}
          BY <4>1, <4>2
        <5> QED BY <4>1, <4>2, <5>1
      <4>3. CASE k.store[p] # Unset
        <5>1. R = {Err, k.store[p]}
          BY <4>1, <4>3
        <5> QED BY <4>1, <5>1
      <4> QED BY <4>2, <4>3
    <3>3. CASE k.creds[p].src = "command"
      <4>1. R = {Err, k.creds[p].key} /\ Have(k, p) = k.creds[p].key
        BY <2>3, <3>0, <3>3 DEF Have
      <4> QED BY <4>1
    <3> QED BY <1>1, <3>1, <3>2, <3>3 DEF Sources
  <2> QED BY <2>1, <2>2, <2>3
<1>5. \A v \in R : v = Err \/ v = Have(k, p)
  BY <1>4
<1>6. KeyHeld(k, Endpoints(k), p) = Have(k, p)
  <2>0. KeyHeld(k, Endpoints(k), p) = IF R = {Err} THEN Unset ELSE CHOOSE v \in R : v # Err
    BY DEF KeyHeld
  <2>1. CASE R = {Err}
    <3>1. Have(k, p) = Unset
      BY <1>3, <1>4, <2>1
    <3> QED BY <2>0, <2>1, <3>1
  <2>2. CASE R # {Err}
    <3>1. Have(k, p) \in R
      BY <1>4, <2>2
    <3>2. (CHOOSE v \in R : v # Err) \in R /\ (CHOOSE v \in R : v # Err) # Err
      BY <3>1, <1>3
    <3> QED BY <2>0, <2>2, <3>2, <1>5
  <2> QED BY <2>1, <2>2
<1> QED BY <1>2, <1>5, <1>6

\* A start that reads the key of the chosen provider finds this connection.
LEMMA StartIs ==
    ASSUME NEW k \in KeptRec
    PROVE  /\ k.prov \notin Known(Endpoints(k)) => AtStart(k) = NoConnection
           /\ k.prov \in Known(Endpoints(k)) =>
                AtStart(k) = [prov |-> k.prov, url |-> Endpoints(k)[k.prov].url, key |-> Have(k, k.prov),
                              model |-> k.model, tuned |-> <<k.prov, k.model>> \in k.profiles]
<1>1. ASSUME k.prov \notin Known(Endpoints(k))
      PROVE  AtStart(k) = NoConnection
  BY <1>1 DEF AtStart, Resumed
<1>2. ASSUME k.prov \in Known(Endpoints(k))
      PROVE  AtStart(k) = [prov |-> k.prov, url |-> Endpoints(k)[k.prov].url, key |-> Have(k, k.prov),
                           model |-> k.model, tuned |-> <<k.prov, k.model>> \in k.profiles]
  <2>1. k.prov \in Name
    BY <1>2 DEF Known
  <2>2. KeyHeld(k, Endpoints(k), k.prov) = Have(k, k.prov)
    BY <2>1, ReadsHeld
  <2> QED BY <1>2, <2>2 DEF AtStart, Resumed
<1> QED BY <1>1, <1>2

--------------------------------------------------------------------------------
(* A write to what is kept of one provider. *)

\* l is k but for what is kept of p.
Elsewhere(k, l, p) ==
    /\ l.open = k.open /\ l.prov = k.prov /\ l.model = k.model
    /\ \A q \in Name \ {p} : /\ l.conf[q] = k.conf[q] /\ l.creds[q] = k.creds[q] /\ l.store[q] = k.store[q]
    /\ \A q \in Name \ {p}, m \in Model : /\ <<q, m>> \in l.profiles <=> <<q, m>> \in k.profiles
                                          /\ <<q, m>> \in l.pins <=> <<q, m>> \in k.pins

LEMMA SettingsWritten ==
    ASSUME NEW k \in KeptRec, NEW p \in Name, NEW u \in Base \cup {Unset}
    PROVE  LET l == [k EXCEPT !.conf[p] = u]
           IN  /\ l \in KeptRec /\ Elsewhere(k, l, p) /\ l.conf[p] = u
               /\ l.creds = k.creds /\ l.store = k.store /\ l.profiles = k.profiles /\ l.pins = k.pins
<1> DEFINE l == [k EXCEPT !.conf[p] = u]
<1>1. l \in KeptRec
  BY DEF KeptRec
<1>2. /\ l.creds = k.creds /\ l.store = k.store /\ l.profiles = k.profiles /\ l.pins = k.pins
      /\ l.open = k.open /\ l.prov = k.prov /\ l.model = k.model
  BY DEF KeptRec
<1>3. l.conf[p] = u /\ \A q \in Name \ {p} : l.conf[q] = k.conf[q]
  BY DEF KeptRec
<1>4. Elsewhere(k, l, p)
  <2> HIDE DEF l
  <2> QED BY <1>2, <1>3 DEF Elsewhere
<1> QED BY <1>1, <1>2, <1>3, <1>4, Zenon

LEMMA StoreWritten ==
    ASSUME NEW k \in KeptRec, NEW p \in Name, NEW v \in Key \cup {Unset}
    PROVE  LET l == [k EXCEPT !.store[p] = v]
           IN  /\ l \in KeptRec /\ Elsewhere(k, l, p) /\ l.store[p] = v
               /\ l.creds = k.creds /\ l.conf = k.conf /\ l.profiles = k.profiles /\ l.pins = k.pins
<1> DEFINE l == [k EXCEPT !.store[p] = v]
<1>1. l \in KeptRec
  BY DEF KeptRec
<1>2. /\ l.creds = k.creds /\ l.conf = k.conf /\ l.profiles = k.profiles /\ l.pins = k.pins
      /\ l.open = k.open /\ l.prov = k.prov /\ l.model = k.model
  BY DEF KeptRec
<1>3. l.store[p] = v /\ \A q \in Name \ {p} : l.store[q] = k.store[q]
  BY DEF KeptRec
<1>4. Elsewhere(k, l, p)
  <2> HIDE DEF l
  <2> QED BY <1>2, <1>3 DEF Elsewhere
<1> QED BY <1>1, <1>2, <1>3, <1>4, Zenon

LEMMA CredsWritten ==
    ASSUME NEW k \in KeptRec, NEW p \in Name, NEW c \in [src : Sources, key : Key \cup {Unset}]
    PROVE  LET l == [k EXCEPT !.creds[p] = c]
           IN  /\ l \in KeptRec /\ Elsewhere(k, l, p) /\ l.creds[p] = c
               /\ l.store = k.store /\ l.conf = k.conf /\ l.profiles = k.profiles /\ l.pins = k.pins
<1> DEFINE l == [k EXCEPT !.creds[p] = c]
<1>1. l \in KeptRec
  BY DEF KeptRec
<1>2. /\ l.store = k.store /\ l.conf = k.conf /\ l.profiles = k.profiles /\ l.pins = k.pins
      /\ l.open = k.open /\ l.prov = k.prov /\ l.model = k.model
  BY DEF KeptRec
<1>3. l.creds[p] = c /\ \A q \in Name \ {p} : l.creds[q] = k.creds[q]
  BY DEF KeptRec
<1>4. Elsewhere(k, l, p)
  <2> HIDE DEF l
  <2> QED BY <1>2, <1>3 DEF Elsewhere
<1> QED BY <1>1, <1>2, <1>3, <1>4, Zenon

LEMMA ProfilesWritten ==
    ASSUME NEW k \in KeptRec, NEW p \in Name, NEW s \in SUBSET (Name \X Model),
           \A q \in Name \ {p}, m \in Model : <<q, m>> \in s <=> <<q, m>> \in k.profiles
    PROVE  LET l == [k EXCEPT !.profiles = s]
           IN  /\ l \in KeptRec /\ Elsewhere(k, l, p) /\ l.profiles = s
               /\ l.creds = k.creds /\ l.store = k.store /\ l.conf = k.conf /\ l.pins = k.pins
<1> DEFINE l == [k EXCEPT !.profiles = s]
<1>1. l \in KeptRec
  BY DEF KeptRec
<1>2. /\ l.store = k.store /\ l.conf = k.conf /\ l.creds = k.creds /\ l.pins = k.pins /\ l.profiles = s
      /\ l.open = k.open /\ l.prov = k.prov /\ l.model = k.model
  BY DEF KeptRec
<1>3. \A q \in Name \ {p} : l.conf[q] = k.conf[q] /\ l.creds[q] = k.creds[q] /\ l.store[q] = k.store[q]
  <2> HIDE DEF l
  <2> QED BY <1>2
<1>4. Elsewhere(k, l, p)
  <2> HIDE DEF l
  <2> QED BY <1>2, <1>3 DEF Elsewhere
<1> QED BY <1>1, <1>2, <1>4, Zenon

LEMMA PinsWritten ==
    ASSUME NEW k \in KeptRec, NEW p \in Name, NEW s \in SUBSET (Name \X Model),
           \A q \in Name \ {p}, m \in Model : <<q, m>> \in s <=> <<q, m>> \in k.pins
    PROVE  LET l == [k EXCEPT !.pins = s]
           IN  /\ l \in KeptRec /\ Elsewhere(k, l, p) /\ l.pins = s
               /\ l.creds = k.creds /\ l.store = k.store /\ l.conf = k.conf /\ l.profiles = k.profiles
<1> DEFINE l == [k EXCEPT !.pins = s]
<1>1. l \in KeptRec
  BY DEF KeptRec
<1>2. /\ l.store = k.store /\ l.conf = k.conf /\ l.creds = k.creds /\ l.profiles = k.profiles /\ l.pins = s
      /\ l.open = k.open /\ l.prov = k.prov /\ l.model = k.model
  BY DEF KeptRec
<1>3. \A q \in Name \ {p} : l.conf[q] = k.conf[q] /\ l.creds[q] = k.creds[q] /\ l.store[q] = k.store[q]
  <2> HIDE DEF l
  <2> QED BY <1>2
<1>4. Elsewhere(k, l, p)
  <2> HIDE DEF l
  <2> QED BY <1>2, <1>3 DEF Elsewhere
<1> QED BY <1>1, <1>2, <1>4, Zenon

\* The choice of a provider and its model, in the state file.
LEMMA ProvWritten ==
    ASSUME NEW k \in KeptRec, NEW v \in Name \cup {Unset}
    PROVE  LET l == [k EXCEPT !.prov = v]
           IN  /\ l \in KeptRec /\ l.prov = v /\ l.model = k.model /\ l.open = k.open
               /\ l.creds = k.creds /\ l.store = k.store /\ l.conf = k.conf /\ l.profiles = k.profiles
               /\ l.pins = k.pins
<1> DEFINE l == [k EXCEPT !.prov = v]
<1>1. l \in KeptRec /\ l.prov = v /\ l.model = k.model /\ l.open = k.open
  BY DEF KeptRec
<1>2. /\ l.creds = k.creds /\ l.store = k.store /\ l.conf = k.conf /\ l.profiles = k.profiles /\ l.pins = k.pins
  BY DEF KeptRec
<1> QED BY <1>1, <1>2, Zenon

LEMMA ModelWritten ==
    ASSUME NEW k \in KeptRec, NEW v \in Model \cup {Unset}
    PROVE  LET l == [k EXCEPT !.model = v]
           IN  /\ l \in KeptRec /\ l.prov = k.prov /\ l.model = v /\ l.open = k.open
               /\ l.creds = k.creds /\ l.store = k.store /\ l.conf = k.conf /\ l.profiles = k.profiles
               /\ l.pins = k.pins
<1> DEFINE l == [k EXCEPT !.model = v]
<1>1. l \in KeptRec /\ l.prov = k.prov /\ l.model = v /\ l.open = k.open
  BY DEF KeptRec
<1>2. /\ l.creds = k.creds /\ l.store = k.store /\ l.conf = k.conf /\ l.profiles = k.profiles /\ l.pins = k.pins
  BY DEF KeptRec
<1> QED BY <1>1, <1>2, Zenon

--------------------------------------------------------------------------------
(* What a write to one provider leaves as it is. *)

LEMMA OthersSound ==
    ASSUME NEW k, NEW l, NEW p, Elsewhere(k, l, p), NEW q \in Name, q # p
    PROVE  /\ \A e : KeysSound(l, e, q) <=> KeysSound(k, e, q)
           /\ q \in Known(Endpoints(l)) <=> q \in Known(Endpoints(k))
<1>1. /\ l.conf[q] = k.conf[q] /\ l.creds[q] = k.creds[q] /\ l.store[q] = k.store[q] /\ l.open = k.open
  BY DEF Elsewhere
<1>2. Have(l, q) = Have(k, q)
  BY <1>1 DEF Have
<1>3. \A e : KeysSound(l, e, q) <=> KeysSound(k, e, q)
  BY <1>1, <1>2 DEF KeysSound, Tidy, Bare, Owned
<1> QED BY <1>1, <1>3, EndpointIs

LEMMA OthersGone ==
    ASSUME NEW k \in KeptRec, NEW l \in KeptRec, NEW p, Elsewhere(k, l, p), NEW q \in Name, q # p, Gone(k, q)
    PROVE  Gone(l, q)
<1>1. /\ l.conf[q] = k.conf[q] /\ l.creds[q] = k.creds[q] /\ l.store[q] = k.store[q] /\ l.prov = k.prov
      /\ \A m \in Model : /\ <<q, m>> \in l.profiles <=> <<q, m>> \in k.profiles
                          /\ <<q, m>> \in l.pins <=> <<q, m>> \in k.pins
  BY DEF Elsewhere
<1>2. l.profiles \cup l.pins \subseteq Name \X Model
  BY DEF KeptRec
<1>3. ASSUME NEW x \in l.profiles \cup l.pins, x[1] = q
      PROVE  FALSE
  <2>1. PICK m \in Model : x = <<q, m>>
    BY <1>2, <1>3
  <2>2. x \in k.profiles \cup k.pins
    BY <1>1, <2>1
  <2> QED BY <2>2, <1>3 DEF Gone
<1> QED BY <1>1, <1>3 DEF Gone

LEMMA OthersStart ==
    ASSUME NEW k \in KeptRec, NEW l \in KeptRec, NEW p, Elsewhere(k, l, p), k.prov # p
    PROVE  AtStart(l) = AtStart(k)
<1>1. l.prov = k.prov /\ l.model = k.model /\ l.open = k.open
  BY DEF Elsewhere
<1>2. CASE k.prov \notin Known(Endpoints(k))
  <2>1. l.prov \notin Known(Endpoints(l))
    <3>1. CASE k.prov \in Name
      BY <1>1, <1>2, <3>1, OthersSound
    <3>2. CASE k.prov \notin Name
      BY <1>1, <3>2 DEF Known
    <3> QED BY <3>1, <3>2
  <2> QED BY <1>2, <2>1, StartIs
<1>3. CASE k.prov \in Known(Endpoints(k))
  <2> DEFINE q == k.prov
  <2>1. q \in Name
    BY <1>3 DEF Known
  <2>2. q \in Known(Endpoints(l))
    BY <1>3, <2>1, OthersSound
  <2>3. l.conf[q] = k.conf[q] /\ l.creds[q] = k.creds[q] /\ l.store[q] = k.store[q]
    BY <2>1 DEF Elsewhere
  <2>4. Have(l, q) = Have(k, q)
    BY <1>1, <2>3 DEF Have
  <2>5. Endpoints(l)[q].url = Endpoints(k)[q].url
    BY <2>1, <2>3 DEF Endpoints
  <2>6. <<q, k.model>> \in l.profiles <=> <<q, k.model>> \in k.profiles
    <3>1. CASE k.model \in Model
      BY <2>1, <3>1 DEF Elsewhere
    <3>2. CASE k.model \notin Model
      BY <3>2 DEF KeptRec
    <3> QED BY <3>1, <3>2
  <2>7. (<<q, k.model>> \in l.profiles) = (<<q, k.model>> \in k.profiles)
    BY <2>6
  <2> QED BY <1>1, <1>3, <2>2, <2>4, <2>5, <2>7, StartIs
<1> QED BY <1>2, <1>3

--------------------------------------------------------------------------------
(* A step of a dialog. *)

LEMMA PcSet ==
    ASSUME NEW d, IsDlg(d), NEW x
    PROVE  LET e == [d EXCEPT !.pc = x]
           IN  /\ IsDlg(e) /\ e.pc = x /\ e.kind = d.kind /\ e.p = d.p /\ e.m = d.m /\ e.url = d.url
               /\ e.setkey = d.setkey /\ e.key = d.key /\ e.src = d.src /\ e.eps = d.eps /\ e.ok = d.ok
<1> DEFINE e == [d EXCEPT !.pc = x]
<1>1. e = [pc |-> x, kind |-> d.kind, p |-> d.p, m |-> d.m, url |-> d.url, setkey |-> d.setkey,
           key |-> d.key, src |-> d.src, eps |-> d.eps, ok |-> d.ok]
  BY DEF IsDlg
<1> HIDE DEF e
<1>2. /\ e.pc = x /\ e.kind = d.kind /\ e.p = d.p /\ e.m = d.m /\ e.url = d.url
      /\ e.setkey = d.setkey /\ e.key = d.key /\ e.src = d.src /\ e.eps = d.eps /\ e.ok = d.ok
  BY <1>1
<1>3. IsDlg(e)
  BY <1>1, <1>2 DEF IsDlg
<1> QED BY <1>2, <1>3, Zenon DEF e

LEMMA EpsSet ==
    ASSUME NEW d, IsDlg(d), NEW x
    PROVE  LET e == [d EXCEPT !.eps = x]
           IN  /\ IsDlg(e) /\ e.pc = d.pc /\ e.kind = d.kind /\ e.p = d.p /\ e.m = d.m /\ e.url = d.url
               /\ e.setkey = d.setkey /\ e.key = d.key /\ e.src = d.src /\ e.eps = x /\ e.ok = d.ok
<1> DEFINE e == [d EXCEPT !.eps = x]
<1>1. e = [pc |-> d.pc, kind |-> d.kind, p |-> d.p, m |-> d.m, url |-> d.url, setkey |-> d.setkey,
           key |-> d.key, src |-> d.src, eps |-> x, ok |-> d.ok]
  BY DEF IsDlg
<1> HIDE DEF e
<1>2. /\ e.pc = d.pc /\ e.kind = d.kind /\ e.p = d.p /\ e.m = d.m /\ e.url = d.url
      /\ e.setkey = d.setkey /\ e.key = d.key /\ e.src = d.src /\ e.eps = x /\ e.ok = d.ok
  BY <1>1
<1>3. IsDlg(e)
  BY <1>1, <1>2 DEF IsDlg
<1> QED BY <1>2, <1>3, Zenon DEF e

LEMMA ModelSet ==
    ASSUME NEW d, IsDlg(d), NEW x
    PROVE  LET e == [d EXCEPT !.m = x]
           IN  /\ IsDlg(e) /\ e.pc = d.pc /\ e.kind = d.kind /\ e.p = d.p /\ e.m = x /\ e.url = d.url
               /\ e.setkey = d.setkey /\ e.key = d.key /\ e.src = d.src /\ e.eps = d.eps /\ e.ok = d.ok
<1> DEFINE e == [d EXCEPT !.m = x]
<1>1. e = [pc |-> d.pc, kind |-> d.kind, p |-> d.p, m |-> x, url |-> d.url, setkey |-> d.setkey,
           key |-> d.key, src |-> d.src, eps |-> d.eps, ok |-> d.ok]
  BY DEF IsDlg
<1> HIDE DEF e
<1>2. /\ e.pc = d.pc /\ e.kind = d.kind /\ e.p = d.p /\ e.m = x /\ e.url = d.url
      /\ e.setkey = d.setkey /\ e.key = d.key /\ e.src = d.src /\ e.eps = d.eps /\ e.ok = d.ok
  BY <1>1
<1>3. IsDlg(e)
  BY <1>1, <1>2 DEF IsDlg
<1> QED BY <1>2, <1>3, Zenon DEF e

LEMMA OkSet ==
    ASSUME NEW d, IsDlg(d), NEW x
    PROVE  LET e == [d EXCEPT !.ok = x]
           IN  /\ IsDlg(e) /\ e.pc = d.pc /\ e.kind = d.kind /\ e.p = d.p /\ e.m = d.m /\ e.url = d.url
               /\ e.setkey = d.setkey /\ e.key = d.key /\ e.src = d.src /\ e.eps = d.eps /\ e.ok = x
<1> DEFINE e == [d EXCEPT !.ok = x]
<1>1. e = [pc |-> d.pc, kind |-> d.kind, p |-> d.p, m |-> d.m, url |-> d.url, setkey |-> d.setkey,
           key |-> d.key, src |-> d.src, eps |-> d.eps, ok |-> x]
  BY DEF IsDlg
<1> HIDE DEF e
<1>2. /\ e.pc = d.pc /\ e.kind = d.kind /\ e.p = d.p /\ e.m = d.m /\ e.url = d.url
      /\ e.setkey = d.setkey /\ e.key = d.key /\ e.src = d.src /\ e.eps = d.eps /\ e.ok = x
  BY <1>1
<1>3. IsDlg(e)
  BY <1>1, <1>2 DEF IsDlg
<1> QED BY <1>2, <1>3, Zenon DEF e

LEMMA AtPrompt ==
    /\ IsDlg(NoDialog) /\ NoDialog.pc = "idle" /\ NoDialog.kind = "" /\ NoDialog.p = Unset
    /\ NoDialog.m = Unset /\ NoDialog.url = Unset /\ NoDialog.setkey = FALSE /\ NoDialog.key = Unset
    /\ NoDialog.src = "file" /\ NoDialog.eps = Unset /\ NoDialog.ok = TRUE
<1>1. /\ NoDialog.pc = "idle" /\ NoDialog.kind = "" /\ NoDialog.p = Unset
      /\ NoDialog.m = Unset /\ NoDialog.url = Unset /\ NoDialog.setkey = FALSE /\ NoDialog.key = Unset
      /\ NoDialog.src = "file" /\ NoDialog.eps = Unset /\ NoDialog.ok = TRUE
  BY DEF NoDialog
<1>2. IsDlg(NoDialog)
  BY <1>1 DEF IsDlg, NoDialog
<1> QED BY <1>1, <1>2

\* A connection, and the change of its profile.
LEMMA ConnIs ==
    ASSUME NEW p, NEW u, NEW key, NEW m, NEW t, NEW c,
           c = [prov |-> p, url |-> u, key |-> key, model |-> m, tuned |-> t]
    PROVE  IsConn(c) /\ c.prov = p /\ c.url = u /\ c.key = key /\ c.model = m
<1>1. c.prov = p /\ c.url = u /\ c.key = key /\ c.model = m /\ c.tuned = t
  OBVIOUS
<1>2. IsConn(c)
  BY <1>1 DEF IsConn
<1> QED BY <1>1, <1>2

LEMMA TunedSet ==
    ASSUME NEW c, IsConn(c), NEW t
    PROVE  [c EXCEPT !.tuned = t]
             = [prov |-> c.prov, url |-> c.url, key |-> c.key, model |-> c.model, tuned |-> t]
BY DEF IsConn

LEMMA NoneIs ==
    /\ IsConn(NoConnection) /\ NoConnection.prov = Unset /\ NoConnection.url = Unset
    /\ NoConnection.key = Unset /\ NoConnection.model = Unset
BY ConnIs DEF NoConnection

--------------------------------------------------------------------------------
(* What a step of a dialog leaves to show: that the parts of its own provider
   fit, or what the stage it is at says of them. *)

LEMMA NothingElsewhere ==
    ASSUME NEW k, NEW p
    PROVE  Elsewhere(k, k, p)
BY DEF Elsewhere

LEMMA OneTouched ==
    ASSUME NEW p, p = dlg.p, IInv, TypesOK', DlgOK', StageOK', dlg.pc # "idle", Elsewhere(kept, kept', p),
           cfg' = cfg, entered' = entered, deleted' = deleted,
           torn \subseteq torn', torn' \subseteq torn \cup {dlg.p}, behind => behind',
           dlg'.p = dlg.p \/ dlg'.pc = "idle",
           p \notin torn' => NameSound(p)',
           \/ dlg.p \in torn' \/ dlg.p \in Known(Endpoints(kept')) \/ (dlg'.pc = "forget" /\ dlg'.p = dlg.p)
           \/ dlg.p \notin Known(Endpoints(kept)) /\ dlg.pc # "forget",
           ~behind' /\ kept.prov = dlg.p /\ dlg.p \notin torn' =>
               IF Unlike' THEN cfg.prov = kept.prov /\ cfg.model = kept.model ELSE cfg = AtStart(kept')
    PROVE  IInv'
<1>0. dlg.p \in Name /\ (dlg.p \in deleted \ torn => Project[dlg.p] # Unset)
  BY DEF IInv, DlgOK
<1>1. kept \in KeptRec /\ kept' \in KeptRec /\ torn \subseteq Name
  BY DEF IInv, TypesOK
<1>2. kept'.prov = kept.prov /\ kept'.model = kept.model
  BY DEF Elsewhere
<1>3. NamesOK'
  <2>1. ASSUME NEW q \in Name, q \notin torn', q # dlg.p
        PROVE  NameSound(q)'
    <3>1. q \notin torn /\ NameSound(q)
      BY <2>1 DEF IInv, NamesOK
    <3>2. KeysSound(kept, entered, q)
      BY <2>1, <3>1 DEF NameSound
    <3>3. KeysSound(kept', entered, q)
      BY <2>1, <3>2, OthersSound
    <3> QED BY <3>1, <3>3 DEF NameSound
  <2> QED BY <2>1 DEF NamesOK
<1>4. ChosenOK'
  <2>1. ASSUME NEW x, There(x)
        PROVE  There(x)'
    <3>1. CASE x = dlg.p
      <4>1. x # Unset
        BY <1>0, <3>1, ProvAssumption
      <4> QED BY <2>1, <3>1, <4>1 DEF There
    <3>2. CASE x # dlg.p /\ x \in Known(Endpoints(kept))
      <4>1. x \in Name
        BY <3>2 DEF Known
      <4>2. x \in Known(Endpoints(kept'))
        BY <3>2, <4>1, OthersSound
      <4> QED BY <4>2 DEF There
    <3>3. CASE x # dlg.p /\ x \in torn \cup {Unset}
      BY <3>3 DEF There
    <3> QED BY <2>1, <3>1, <3>2, <3>3 DEF There
  <2> QED BY <2>1, <1>2 DEF ChosenOK, IInv
<1>5. StartOK'
  <2>1. SUFFICES ASSUME ~behind', kept.prov \notin torn'
                 PROVE  IF Unlike' THEN cfg.prov = kept.prov /\ cfg.model = kept.model ELSE cfg = AtStart(kept')
    BY <1>2 DEF StartOK
  <2>2. CASE kept.prov = dlg.p
    BY <2>1, <2>2
  <2>3. CASE kept.prov # dlg.p
    <3>1. ~Unlike /\ ~Unlike'
      BY <2>3, <1>2 DEF Unlike, Apart, Saving, Deleting
    <3>2. cfg = AtStart(kept)
      BY <2>1, <3>1 DEF IInv, StartOK
    <3>3. AtStart(kept') = AtStart(kept)
      BY <1>1, <2>3, OthersStart
    <3> QED BY <3>1, <3>2, <3>3
  <2> QED BY <2>2, <2>3
<1>6. GoneOK'
  <2>1. ASSUME NEW q \in deleted, q \notin torn', Project[q] = Unset
        PROVE  Gone(kept', q) /\ cfg.prov # q
    <3>1. q # dlg.p /\ q \in Name /\ q \notin torn
      BY <1>0, <2>1 DEF IInv, TypesOK
    <3>2. Gone(kept, q) /\ cfg.prov # q
      BY <2>1, <3>1 DEF IInv, GoneOK
    <3> QED BY <1>1, <3>1, <3>2, OthersGone
  <2> QED BY <2>1 DEF GoneOK
<1> QED BY <1>3, <1>4, <1>5, <1>6 DEF IInv

\* A step that fails ends the dialog and leaves its provider torn.
LEMMA HaltsKeep ==
    ASSUME IInv, dlg.pc # "idle", Halts, UNCHANGED <<kept, cfg, entered, deleted>>
    PROVE  IInv'
<1>1. /\ kept' = kept /\ cfg' = cfg /\ entered' = entered /\ deleted' = deleted /\ dlg' = NoDialog
      /\ torn' = torn \cup {dlg.p} /\ behind' = (behind \/ Serving(dlg.p))
  BY DEF Halts, Ends, Goes
<1>2. dlg.p \in Name
  BY DEF IInv, DlgOK
<1>3. TypesOK'
  BY <1>1, <1>2, AtPrompt DEF IInv, TypesOK, DlgTypeOK, Stages, Sources
<1>4. DlgOK' /\ StageOK'
  BY <1>1, AtPrompt DEF DlgOK, StageOK, Saving, Deleting
<1>5. Elsewhere(kept, kept', dlg.p)
  BY <1>1, NothingElsewhere
<1> QED BY <1>1, <1>3, <1>4, <1>5, AtPrompt, OneTouched

\* A dialog that ends before it wrote anything of its provider, or after all of it.
LEMMA LeavesKeep ==
    ASSUME IInv, dlg.pc \in {"save", "use"}, dlg' = NoDialog, ~Unlike \/ behind', behind => behind',
           UNCHANGED <<kept, cfg, torn, entered, deleted>>
    PROVE  IInv'
<1>0. PICK p \in Name : p = dlg.p
  BY DEF IInv, DlgOK
<1>1. TypesOK'
  BY AtPrompt DEF IInv, TypesOK, DlgTypeOK, Stages, Sources
<1>2. DlgOK' /\ StageOK'
  BY AtPrompt DEF DlgOK, StageOK, Saving, Deleting
<1>3. Elsewhere(kept, kept', p)
  BY NothingElsewhere
<1>4. dlg.pc # "idle" /\ dlg.pc # "forget" /\ dlg.pc \notin Apart /\ dlg'.pc = "idle"
  BY AtPrompt DEF Apart, Saving, Deleting
<1>5. p \notin torn' => NameSound(p)'
  BY <1>4 DEF IInv, NamesOK, NameSound
<1>6. p \in Known(Endpoints(kept')) \/ dlg.p \notin Known(Endpoints(kept))
  BY <1>0
<1>7. ~behind' /\ kept.prov = dlg.p /\ dlg.p \notin torn' => cfg = AtStart(kept') /\ ~Unlike'
  BY <1>4 DEF IInv, StartOK, Unlike, Apart, Saving, Deleting
<1> QED BY <1>0, <1>1, <1>2, <1>3, <1>4, <1>5, <1>6, <1>7, OneTouched

--------------------------------------------------------------------------------
(* The settings: endpoints_save_one. *)

LEMMA ListedIs ==
    ASSUME NEW k, NEW l, NEW p \in Name, NEW u, u # Unset, l.conf[p] = u,
           \A q \in Name \ {p} : l.conf[q] = k.conf[q]
    PROVE  Listed(Endpoints(k), p, u) = Endpoints(l)
BY DEF Listed, Endpoints

\* The provider of the dialog, at its first write.
LEMMA BeforeSaving ==
    ASSUME IInv, dlg.pc = "save"
    PROVE  /\ dlg.p \in Name /\ dlg.url \in Base /\ dlg.url # Unset /\ dlg.eps = Endpoints(kept)
           /\ dlg.p \notin torn => KeysSound(kept, entered, dlg.p)
           /\ dlg.p \notin torn /\ ~behind /\ kept.prov = dlg.p =>
                dlg.kind = "edit" /\ cfg.prov = dlg.p /\ cfg.model = kept.model
<1>1. /\ dlg.p \in Name /\ dlg.url \in Base /\ dlg.eps = Endpoints(kept)
      /\ dlg.kind # "edit" => dlg.p \notin Known(Endpoints(kept))
  BY DEF IInv, DlgOK, Saving
<1>2. dlg.pc \notin Apart /\ dlg.pc # "forget" /\ ~Unlike
  BY DEF Apart, Saving, Deleting, Unlike
<1>3. dlg.url # Unset /\ dlg.p # Unset
  BY <1>1, ProvAssumption
<1>4. dlg.p \notin torn => KeysSound(kept, entered, dlg.p)
  BY <1>1, <1>2 DEF IInv, NamesOK, NameSound
<1>5. ASSUME dlg.p \notin torn, ~behind, kept.prov = dlg.p
      PROVE  dlg.kind = "edit" /\ cfg.prov = dlg.p /\ cfg.model = kept.model
  <2>1. kept.prov \in Known(Endpoints(kept))
    BY <1>2, <1>3, <1>5 DEF IInv, ChosenOK, There
  <2>2. cfg = AtStart(kept)
    BY <1>2, <1>5 DEF IInv, StartOK
  <2>3. kept \in KeptRec
    BY DEF IInv, TypesOK
  <2>4. cfg = [prov |-> kept.prov, url |-> Endpoints(kept)[kept.prov].url, key |-> Have(kept, kept.prov),
               model |-> kept.model, tuned |-> <<kept.prov, kept.model>> \in kept.profiles]
    BY <2>1, <2>2, <2>3, StartIs
  <2>5. cfg.prov = kept.prov /\ cfg.model = kept.model
    BY <2>4
  <2> QED BY <1>1, <1>5, <2>1, <2>5
<1> QED BY <1>1, <1>3, <1>4, <1>5

\* What a provider of the project has is no key, so the settings of a user bring none back.
LEMMA SavedSound ==
    ASSUME NEW k \in KeptRec, NEW l \in KeptRec, NEW p \in Name, NEW e, KeysSound(k, e, p),
           p \in Known(Endpoints(k)), l.creds = k.creds, l.store = k.store, l.open = k.open, l.conf[p] # Unset
    PROVE  KeysSound(l, e, p)
<1>1. Tidy(l, p) /\ Bare(l, p)
  BY DEF KeysSound, Tidy, Bare
<1>2. CASE k.conf[p] # Unset
  <2>1. Have(l, p) = Have(k, p)
    BY <1>2 DEF Have
  <2> QED BY <1>1, <1>2, <2>1 DEF KeysSound, Owned
<1>3. CASE k.conf[p] = Unset
  <2>1. k.creds[p].key = Unset /\ k.store[p] = Unset
    BY <1>3, EndpointIs DEF KeysSound, Bare
  <2>2. Have(l, p) = Unset
    BY <2>1 DEF Have
  <2> QED BY <1>1, <2>2 DEF KeysSound, Owned
<1> QED BY <1>2, <1>3

LEMMA SavesKeep ==
    ASSUME IInv, Saves
    PROVE  IInv'
<1>0. dlg.pc = "save" /\ UNCHANGED <<cfg, behind, torn, entered, deleted>>
  BY DEF Saves
<1>1. CASE Ends /\ UNCHANGED kept
  <2>1. ~Unlike
    BY <1>0 DEF Unlike, Apart, Saving, Deleting
  <2> QED BY <1>0, <1>1, <2>1, LeavesKeep DEF Ends, Goes
<1>2. CASE /\ kept' = [kept EXCEPT !.conf[dlg.p] = dlg.url]
           /\ IF dlg.setkey \/ Serving(dlg.p)
              THEN Goes([dlg EXCEPT !.pc = IF dlg.setkey THEN "erase" ELSE "use",
                                    !.eps = Listed(@, dlg.p, dlg.url), !.m = cfg.model])
              ELSE Ends
  <2>1. PICK p \in Name : p = dlg.p
    BY <1>0, BeforeSaving
  <2>2. /\ kept \in KeptRec /\ dlg.url \in Base /\ dlg.url # Unset /\ dlg.url \in Base \cup {Unset}
        /\ IsDlg(dlg) /\ cfg.model \in Model \cup {Unset}
    BY <1>0, BeforeSaving DEF IInv, TypesOK, DlgTypeOK
  <2>3. PICK u \in Base \cup {Unset} : u = dlg.url /\ u # Unset
    BY <2>2
  <2>4. kept' = [kept EXCEPT !.conf[p] = u]
    BY <1>2, <2>1, <2>3
  <2>5. /\ kept' \in KeptRec /\ Elsewhere(kept, kept', p) /\ kept'.conf[p] = u
        /\ kept'.creds = kept.creds /\ kept'.store = kept.store
    BY <2>2, <2>4, SettingsWritten
  <2>6. kept'.prov = kept.prov /\ kept'.open = kept.open /\ \A q \in Name \ {p} : kept'.conf[q] = kept.conf[q]
    BY <2>5 DEF Elsewhere
  <2>7. p \in Known(Endpoints(kept'))
    BY <2>3, <2>5, EndpointIs
  <2>8. ASSUME p \notin torn, dlg.kind = "edit"
        PROVE  KeysSound(kept', entered, p)
    <3>1. p \in Known(Endpoints(kept)) /\ KeysSound(kept, entered, p)
      BY <1>0, <2>1, <2>8, BeforeSaving DEF IInv, DlgOK
    <3> QED BY <2>2, <2>3, <2>5, <2>6, <3>1, SavedSound
  <2>9. p \notin torn => Tidy(kept', p) /\ (cfg.prov = p => cfg.key \in entered[p] \cup {Unset})
    <3>1. p \notin torn => KeysSound(kept, entered, p) /\ (cfg.prov = p => cfg.key \in entered[p] \cup {Unset})
      BY <1>0, <2>1, BeforeSaving DEF IInv, NamesOK, NameSound
    <3> QED BY <3>1, <2>5 DEF KeysSound, Tidy
  <2>10. CASE dlg.setkey \/ Serving(dlg.p)
    <3> DEFINE x == IF dlg.setkey THEN "erase" ELSE "use"
               a == [dlg EXCEPT !.pc = x]
               b == [a EXCEPT !.eps = Listed(dlg.eps, p, u)]
               c == [b EXCEPT !.m = cfg.model]
    <3>1. dlg' = c
      BY <1>2, <2>1, <2>3, <2>10 DEF Goes
    <3>2. Listed(dlg.eps, p, u) = Endpoints(kept')
      BY <1>0, <2>3, <2>5, <2>6, BeforeSaving, ListedIs
    <3>3. x \in {"erase", "use"} /\ (x = "erase" <=> dlg.setkey) /\ (x = "use" <=> ~dlg.setkey)
      OBVIOUS
    <3> HIDE DEF x
    <3>4. /\ IsDlg(a) /\ a.pc = x /\ a.kind = dlg.kind /\ a.p = dlg.p /\ a.m = dlg.m /\ a.url = dlg.url
          /\ a.setkey = dlg.setkey /\ a.key = dlg.key /\ a.src = dlg.src /\ a.ok = dlg.ok
      BY <2>2, PcSet
    <3> HIDE DEF a
    <3>5. /\ IsDlg(b) /\ b.pc = x /\ b.kind = dlg.kind /\ b.p = dlg.p /\ b.m = dlg.m /\ b.url = dlg.url
          /\ b.setkey = dlg.setkey /\ b.key = dlg.key /\ b.src = dlg.src /\ b.ok = dlg.ok
          /\ b.eps = Endpoints(kept')
      BY <3>2, <3>4, EpsSet
    <3> HIDE DEF b
    <3>6. /\ IsDlg(c) /\ c.pc = x /\ c.kind = dlg.kind /\ c.p = dlg.p /\ c.m = cfg.model /\ c.url = dlg.url
          /\ c.setkey = dlg.setkey /\ c.key = dlg.key /\ c.src = dlg.src /\ c.ok = dlg.ok
          /\ c.eps = Endpoints(kept')
      BY <3>5, ModelSet
    <3> HIDE DEF c
    <3>7. TypesOK'
      BY <1>0, <2>2, <2>5, <3>1, <3>3, <3>6 DEF IInv, TypesOK, DlgTypeOK, Stages, Saving
    <3>8. DlgOK'
      <4>1. /\ dlg.kind \in {"add", "edit", "model"} /\ dlg.kind # "model" /\ (dlg.p \in deleted \ torn => Project[dlg.p] # Unset)
            /\ dlg.kind # "edit" => dlg.setkey
            /\ dlg.kind = "add" /\ kept.prov = dlg.p => dlg.p \in torn
            /\ dlg.setkey /\ dlg.p \notin torn => dlg.key \in entered[dlg.p] \cup {Unset}
        BY <1>0 DEF IInv, DlgOK, Saving
      <4>2. x = "use" => dlg.kind = "edit" /\ cfg.prov = dlg.p
        BY <2>10, <3>3, <4>1 DEF Serving
      <4> QED BY <1>0, <2>1, <2>3, <2>5, <2>6, <2>7, <3>1, <3>3, <3>6, <4>1, <4>2 DEF DlgOK, Saving
    <3>9. StageOK'
      BY <1>0, <2>1, <2>9, <3>1, <3>3, <3>6 DEF StageOK, Deleting
    <3>10. p \notin torn' => NameSound(p)'
      <4>1. x = "use" => dlg.kind = "edit"
        BY <1>0, <3>3 DEF IInv, DlgOK
      <4>2. x = "erase" => x \in Apart
        BY DEF Apart, Saving
      <4> QED BY <1>0, <2>1, <2>8, <2>9, <3>1, <3>3, <3>6, <4>1, <4>2 DEF NameSound
    <3>11. ASSUME ~behind', kept.prov = dlg.p, dlg.p \notin torn'
           PROVE  IF Unlike' THEN cfg.prov = kept.prov /\ cfg.model = kept.model ELSE cfg = AtStart(kept')
      <4>1. dlg.kind = "edit" /\ cfg.prov = dlg.p /\ cfg.model = kept.model
        BY <1>0, <3>11, BeforeSaving
      <4>2. Unlike'
        BY <2>6, <3>1, <3>3, <3>6, <3>11, <4>1 DEF Unlike, Apart, Saving
      <4> QED BY <3>11, <4>1, <4>2
    <3> QED BY <1>0, <2>1, <2>5, <2>7, <3>1, <3>6, <3>7, <3>8, <3>9, <3>10, <3>11, OneTouched
  <2>11. CASE ~(dlg.setkey \/ Serving(dlg.p))
    <3>1. dlg' = NoDialog
      BY <1>2, <2>11 DEF Ends, Goes
    <3>2. dlg.kind = "edit"
      BY <1>0, <2>11 DEF IInv, DlgOK
    <3>3. TypesOK'
      BY <1>0, <2>5, <3>1, AtPrompt DEF IInv, TypesOK, DlgTypeOK, Stages, Sources
    <3>4. DlgOK' /\ StageOK'
      BY <3>1, AtPrompt DEF DlgOK, StageOK, Saving, Deleting
    <3>5. p \notin torn' => NameSound(p)'
      BY <1>0, <2>8, <2>9, <3>2 DEF NameSound
    <3>6. ~(~behind' /\ kept.prov = dlg.p /\ dlg.p \notin torn')
      BY <1>0, <2>11, BeforeSaving DEF Serving
    <3> QED BY <1>0, <2>1, <2>5, <2>7, <3>1, <3>3, <3>4, <3>5, <3>6, AtPrompt, OneTouched
  <2> QED BY <2>10, <2>11
<1> QED BY <1>1, <1>2 DEF Saves

--------------------------------------------------------------------------------
(* The key: endpoints_set_key. *)

LEMMA MovesOn ==
    ASSUME NEW p, p = dlg.p, IInv, TypesOK', DlgOK', StageOK', dlg.pc \in Apart \cup {"delete key"},
           dlg.pc # "forget", dlg'.pc \in Apart, dlg'.p = p, Elsewhere(kept, kept', p),
           UNCHANGED <<cfg, entered, deleted, behind>>, torn \subseteq torn', torn' \subseteq torn \cup {p},
           p \in Known(Endpoints(kept)) => p \in Known(Endpoints(kept')) \/ dlg'.pc = "forget"
    PROVE  IInv'
<1>1. dlg.p \in Name /\ kept \in KeptRec /\ kept'.prov = kept.prov
  BY DEF IInv, DlgOK, TypesOK, Apart, Saving, Deleting, Elsewhere
<1>2. p \notin torn' => NameSound(p)'
  BY <1>1 DEF IInv, NamesOK, NameSound
<1>3. ASSUME ~behind', kept.prov = dlg.p, dlg.p \notin torn'
      PROVE  Unlike' /\ cfg.prov = kept.prov /\ cfg.model = kept.model
  <2>1. Unlike'
    BY <1>1, <1>3 DEF Unlike
  <2>2. CASE dlg.pc \in Apart
    BY <1>3, <2>1, <2>2 DEF IInv, StartOK, Unlike
  <2>3. CASE dlg.pc = "delete key"
    <3>1. ~Unlike /\ kept.prov # Unset
      BY <1>1, <1>3, <2>3, ProvAssumption DEF Unlike, Apart, Saving, Deleting
    <3>2. kept.prov \in Known(Endpoints(kept))
      BY <1>3, <2>3, <3>1 DEF IInv, ChosenOK, There
    <3>3. cfg = [prov |-> kept.prov, url |-> Endpoints(kept)[kept.prov].url, key |-> Have(kept, kept.prov),
                 model |-> kept.model, tuned |-> <<kept.prov, kept.model>> \in kept.profiles]
      BY <1>1, <1>3, <3>1, <3>2, StartIs DEF IInv, StartOK
    <3> QED BY <2>1, <3>3
  <2> QED BY <2>2, <2>3
<1> QED BY <1>1, <1>2, <1>3, OneTouched DEF Apart, Saving, Deleting

\* What a stage of saving says of the dialog it is in.
LEMMA WhileSaving ==
    ASSUME IInv, dlg.pc \in {"erase", "put", "write"}
    PROVE  /\ dlg.p \in Name /\ kept.conf[dlg.p] # Unset /\ dlg.pc \in Apart /\ dlg.pc \in Saving
           /\ kept \in KeptRec /\ IsDlg(dlg) /\ dlg.key \in Key \cup {Unset} /\ dlg.src \in Sources
           /\ dlg.p \in Known(Endpoints(kept)) /\ dlg.eps = Endpoints(kept)
<1>1. dlg.p \in Name /\ kept.conf[dlg.p] # Unset /\ dlg.eps = Endpoints(kept)
  BY DEF IInv, DlgOK, Saving
<1>2. kept \in KeptRec /\ IsDlg(dlg) /\ dlg.key \in Key \cup {Unset} /\ dlg.src \in Sources
  BY DEF IInv, TypesOK, DlgTypeOK
<1> QED BY <1>1, <1>2, EndpointIs DEF Apart, Saving

\* From one stage of saving to the next only the stage of the dialog changes.
LEMMA NextStage ==
    ASSUME NEW p, p = dlg.p, IInv, dlg.pc \in {"erase", "put"}, NEW x \in {"put", "write"},
           dlg' = [dlg EXCEPT !.pc = x], dlg.src # "command", kept' \in KeptRec, kept'.conf = kept.conf,
           Elsewhere(kept, kept', p), UNCHANGED <<cfg, entered, deleted, behind>>,
           torn \subseteq torn', torn' \subseteq torn \cup {p},
           p \notin torn' => /\ x = "put" => Tidy(kept', p) /\ (kept'.store[p] # Unset => dlg.src = "store" /\ dlg.key # Unset)
                             /\ x = "write" => kept'.store[p] = IF dlg.src = "store" THEN dlg.key ELSE Unset
    PROVE  IInv'
<1>1. /\ p \in Name /\ kept.conf[p] # Unset /\ dlg.pc \in Apart /\ dlg.pc \in Saving /\ IsDlg(dlg)
      /\ dlg.p \in Known(Endpoints(kept)) /\ dlg.eps = Endpoints(kept)
  BY WhileSaving
<1> DEFINE e == [dlg EXCEPT !.pc = x]
<1>2. /\ IsDlg(e) /\ e.pc = x /\ e.kind = dlg.kind /\ e.p = dlg.p /\ e.m = dlg.m /\ e.url = dlg.url
      /\ e.setkey = dlg.setkey /\ e.key = dlg.key /\ e.src = dlg.src /\ e.eps = dlg.eps /\ e.ok = dlg.ok
  BY <1>1, PcSet
<1>3. dlg' = e
  OBVIOUS
<1> HIDE DEF e
<1>4. Endpoints(kept') = Endpoints(kept) /\ kept'.prov = kept.prov /\ torn' \subseteq Name
  BY <1>1, SameEndpoints DEF Elsewhere, IInv, TypesOK
<1>5. TypesOK'
  BY <1>2, <1>3, <1>4 DEF IInv, TypesOK, DlgTypeOK, Stages, Saving
<1>6. DlgOK'
  <2>1. /\ dlg.kind \in {"add", "edit", "model"} /\ dlg.kind # "model"
        /\ dlg.p \in deleted \ torn => Project[dlg.p] # Unset
        /\ dlg.kind = "edit" => dlg.m = cfg.model
        /\ dlg.kind = "add" /\ kept.prov = dlg.p => dlg.p \in torn
        /\ dlg.p \notin torn => dlg.key \in entered[dlg.p] \cup {Unset}
    BY <1>1 DEF IInv, DlgOK, Saving
  <2> QED BY <1>1, <1>2, <1>3, <1>4, <2>1 DEF DlgOK, Saving
<1>7. StageOK'
  BY <1>2, <1>3 DEF StageOK, Deleting
<1> QED BY <1>1, <1>2, <1>3, <1>4, <1>5, <1>6, <1>7, MovesOn DEF Apart, Saving, Deleting

LEMMA SecretErasesKeep ==
    ASSUME IInv, SecretErases
    PROVE  IInv'
<1>0. dlg.pc = "erase" /\ UNCHANGED <<cfg, entered, deleted>>
  BY DEF SecretErases
<1>1. PICK p \in Name : p = dlg.p
  BY <1>0, WhileSaving
<1>2. kept \in KeptRec /\ dlg.src \in Sources
  BY <1>0, WhileSaving
<1>3. p \notin torn => Tidy(kept, p)
  BY <1>0, <1>1 DEF IInv, StageOK
<1>4. CASE Halts /\ UNCHANGED kept
  BY <1>0, <1>4, HaltsKeep
<1>5. CASE /\ dlg' = [dlg EXCEPT !.pc = "put"] /\ UNCHANGED behind /\ dlg.src # "command"
           /\ kept' = [kept EXCEPT !.store[dlg.p] = Unset] /\ UNCHANGED torn
  <2>1. kept' = [kept EXCEPT !.store[p] = Unset]
    BY <1>1, <1>5
  <2>2. /\ kept' \in KeptRec /\ Elsewhere(kept, kept', p) /\ kept'.store[p] = Unset
        /\ kept'.creds = kept.creds /\ kept'.conf = kept.conf
    BY <1>2, <2>1, StoreWritten
  <2>3. p \notin torn => Tidy(kept', p)
    BY <1>3, <2>2 DEF Tidy
  <2> QED BY <1>0, <1>1, <1>5, <2>2, <2>3, NextStage
<1>6. CASE /\ dlg' = [dlg EXCEPT !.pc = "put"] /\ UNCHANGED behind /\ dlg.src # "command"
           /\ torn' = torn \cup {dlg.p} /\ UNCHANGED kept
  BY <1>0, <1>1, <1>2, <1>6, NothingElsewhere, NextStage
<1>7. CASE /\ dlg' = [dlg EXCEPT !.pc = "put"] /\ UNCHANGED <<behind, kept, torn>> /\ dlg.src # "command"
           /\ ~(Superseded(kept.creds[dlg.p], dlg.src, dlg.key) /\ kept.creds[dlg.p].src = "store")
  <2>1. p \notin torn => (kept.store[p] # Unset => dlg.src = "store" /\ dlg.key # Unset)
    BY <1>1, <1>3, <1>7 DEF Tidy, Superseded
  <2> QED BY <1>0, <1>1, <1>2, <1>3, <1>7, <2>1, NothingElsewhere, NextStage
<1> QED BY <1>4, <1>5, <1>6, <1>7 DEF SecretErases, Goes

LEMMA SecretPutsKeep ==
    ASSUME IInv, SecretPuts
    PROVE  IInv'
<1>0. dlg.pc = "put" /\ UNCHANGED <<cfg, entered, deleted>>
  BY DEF SecretPuts
<1>1. PICK p \in Name : p = dlg.p
  BY <1>0, WhileSaving
<1>2. kept \in KeptRec /\ dlg.key \in Key \cup {Unset} /\ dlg.src # "command"
  BY <1>0, WhileSaving DEF IInv, DlgOK
<1>3. CASE Halts /\ UNCHANGED kept
  BY <1>0, <1>3, HaltsKeep
<1>4. CASE /\ dlg.src = "store" /\ dlg.key # Unset /\ kept' = [kept EXCEPT !.store[dlg.p] = dlg.key]
           /\ dlg' = [dlg EXCEPT !.pc = "write"] /\ UNCHANGED <<behind, torn>>
  <2>1. PICK v \in Key \cup {Unset} : v = dlg.key
    BY <1>2
  <2>2. kept' = [kept EXCEPT !.store[p] = v]
    BY <1>1, <1>4, <2>1
  <2>3. /\ kept' \in KeptRec /\ Elsewhere(kept, kept', p) /\ kept'.store[p] = v /\ kept'.conf = kept.conf
    BY <1>2, <2>2, StoreWritten
  <2> QED BY <1>0, <1>1, <1>2, <1>4, <2>1, <2>3, NextStage
<1>5. CASE /\ ~(dlg.src = "store" /\ dlg.key # Unset)
           /\ dlg' = [dlg EXCEPT !.pc = "write"] /\ UNCHANGED <<kept, behind, torn>>
  <2>1. p \notin torn => kept.store[p] = Unset
    BY <1>0, <1>1, <1>5 DEF IInv, StageOK
  <2>2. p \notin torn => kept'.store[p] = IF dlg.src = "store" THEN dlg.key ELSE Unset
    BY <1>5, <2>1
  <2> QED BY <1>0, <1>1, <1>2, <1>5, <2>2, NothingElsewhere, NextStage
<1> QED BY <1>3, <1>4, <1>5 DEF SecretPuts, Goes

\* What was written is the key that was given, in the place that was named.
LEMMA WrittenSound ==
    ASSUME NEW l \in KeptRec, NEW p \in Name, NEW e, NEW src \in Sources, NEW key \in Key \cup {Unset},
           src # "command", l.creds[p] = Written(l.creds[p], src, key), l.conf[p] # Unset,
           l.store[p] = IF src = "store" THEN key ELSE Unset, key \in e[p] \cup {Unset}
    PROVE  KeysSound(l, e, p)
<1>1. /\ l.creds[p].src = src /\ l.creds[p].key = IF src = "file" THEN key ELSE Unset
  BY DEF Written
<1>2. Tidy(l, p) /\ Bare(l, p)
  BY <1>1 DEF Tidy, Bare, Sources
<1>3. Have(l, p) \in {key, Unset}
  BY <1>1 DEF Have
<1> QED BY <1>2, <1>3 DEF KeysSound, Owned

LEMMA SecretWritesKeep ==
    ASSUME IInv, SecretWrites
    PROVE  IInv'
<1>0. dlg.pc = "write" /\ UNCHANGED <<cfg, entered, deleted>>
  BY DEF SecretWrites
<1>1. PICK p \in Name : p = dlg.p
  BY <1>0, WhileSaving
<1>2. /\ kept \in KeptRec /\ dlg.key \in Key \cup {Unset} /\ dlg.src # "command" /\ dlg.src \in Sources
      /\ IsDlg(dlg) /\ kept.conf[p] # Unset /\ p \in Known(Endpoints(kept)) /\ dlg.eps = Endpoints(kept)
      /\ dlg.pc \in Apart
  BY <1>0, <1>1, WhileSaving DEF IInv, DlgOK
<1>3. CASE Halts /\ UNCHANGED kept
  BY <1>0, <1>3, HaltsKeep
<1>4. CASE /\ kept' = [kept EXCEPT !.creds[dlg.p] = Written(@, dlg.src, dlg.key)]
           /\ UNCHANGED <<behind, torn>>
           /\ IF dlg.kind = "add"
              THEN \/ NoProvider /\ \E m \in Model : Goes([dlg EXCEPT !.pc = "use", !.m = m])
                   \/ Ends
              ELSE IF Serving(dlg.p) THEN Goes([dlg EXCEPT !.pc = "use"]) ELSE Ends
  <2>1. PICK c \in [src : Sources, key : Key \cup {Unset}] : \A b : Written(b, dlg.src, dlg.key) = c
    <3>1. [src |-> dlg.src, key |-> IF dlg.src = "file" THEN dlg.key ELSE Unset]
            \in [src : Sources, key : Key \cup {Unset}]
      BY <1>2
    <3> QED BY <3>1, Zenon DEF Written
  <2>2. kept' = [kept EXCEPT !.creds[p] = c]
    BY <1>1, <1>4, <2>1
  <2>3. /\ kept' \in KeptRec /\ Elsewhere(kept, kept', p) /\ kept'.creds[p] = c
        /\ kept'.store = kept.store /\ kept'.conf = kept.conf
    BY <1>2, <2>2, CredsWritten
  <2>4. Endpoints(kept') = Endpoints(kept) /\ kept'.prov = kept.prov
    BY <2>3, SameEndpoints DEF Elsewhere
  <2>5. p \notin torn => KeysSound(kept', entered, p) /\ (cfg.prov = p => cfg.key \in entered[p] \cup {Unset})
    <3>1. ASSUME p \notin torn
          PROVE  /\ kept'.store[p] = IF dlg.src = "store" THEN dlg.key ELSE Unset
                 /\ dlg.key \in entered[p] \cup {Unset}
                 /\ cfg.prov = p => cfg.key \in entered[p] \cup {Unset}
      BY <1>0, <1>1, <1>2, <2>3, <3>1 DEF IInv, StageOK, DlgOK, Saving, NamesOK, NameSound
    <3>2. kept'.creds[p] = Written(kept'.creds[p], dlg.src, dlg.key)
      BY <2>1, <2>3
    <3> QED BY <1>2, <2>3, <3>1, <3>2, WrittenSound
  <2>6. ASSUME ~behind, kept.prov = dlg.p, dlg.p \notin torn
        PROVE  dlg.kind # "add" /\ cfg.prov = dlg.p /\ cfg.model = kept.model
    BY <1>2, <2>6 DEF IInv, StartOK, Unlike, DlgOK
  <2>7. CASE dlg' = NoDialog /\ ~(dlg.kind # "add" /\ Serving(dlg.p))
    <3>1. TypesOK'
      BY <1>0, <1>4, <2>3, <2>7, AtPrompt DEF IInv, TypesOK, DlgTypeOK, Stages, Sources
    <3>2. DlgOK' /\ StageOK'
      BY <2>7, AtPrompt DEF DlgOK, StageOK, Saving, Deleting
    <3>3. p \notin torn' => NameSound(p)'
      BY <1>0, <1>4, <2>5 DEF NameSound
    <3>4. ~(~behind' /\ kept.prov = dlg.p /\ dlg.p \notin torn')
      BY <1>4, <2>6, <2>7 DEF Serving
    <3> QED BY <1>0, <1>1, <1>2, <1>4, <2>3, <2>4, <2>7, <3>1, <3>2, <3>3, <3>4, AtPrompt, OneTouched
  <2>8. ASSUME NEW m \in Model \cup {Unset}, dlg' = [dlg EXCEPT !.pc = "use", !.m = m],
               dlg.kind = "edit" => Serving(dlg.p) /\ m = dlg.m
        PROVE  IInv'
    <3> DEFINE x == "use"
               a == [dlg EXCEPT !.pc = x]
               e == [a EXCEPT !.m = m]
    <3>0. IsDlg(dlg) /\ x = "use"
      BY <1>2
    <3>1. dlg' = e
      BY <2>8
    <3> HIDE DEF x
    <3>2. /\ IsDlg(a) /\ a.pc = "use" /\ a.kind = dlg.kind /\ a.p = dlg.p /\ a.url = dlg.url
          /\ a.setkey = dlg.setkey /\ a.key = dlg.key /\ a.src = dlg.src /\ a.ok = dlg.ok
          /\ a.eps = dlg.eps
      BY <3>0, PcSet
    <3> HIDE DEF a
    <3>3. /\ IsDlg(e) /\ e.pc = "use" /\ e.kind = dlg.kind /\ e.p = dlg.p /\ e.m = m /\ e.url = dlg.url
          /\ e.setkey = dlg.setkey /\ e.key = dlg.key /\ e.src = dlg.src /\ e.ok = dlg.ok
          /\ e.eps = dlg.eps
      BY <3>2, ModelSet
    <3> HIDE DEF e
    <3>4. TypesOK'
      BY <1>0, <1>4, <2>3, <3>1, <3>3 DEF IInv, TypesOK, DlgTypeOK, Stages
    <3>5. DlgOK'
      <4>1. /\ dlg.kind \in {"add", "edit", "model"}
            /\ dlg.p \in deleted \ torn => Project[dlg.p] # Unset
            /\ dlg.kind = "edit" => dlg.m = cfg.model
            /\ dlg.kind = "add" /\ kept.prov = dlg.p => dlg.p \in torn
        BY <1>0 DEF IInv, DlgOK, Saving
      <4>2. /\ dlg'.pc = "use" /\ dlg'.kind = dlg.kind /\ dlg'.p = dlg.p /\ dlg'.m = m /\ dlg'.eps = dlg.eps
            /\ cfg' = cfg /\ torn' = torn /\ deleted' = deleted
        BY <1>0, <1>4, <3>0, <3>1, <3>3
      <4>3. dlg'.kind = "edit" => cfg'.prov = dlg'.p /\ dlg'.m = cfg'.model
        BY <2>8, <4>1, <4>2 DEF Serving
      <4>4. dlg'.eps = Endpoints(kept') /\ dlg'.p \in Name /\ dlg'.p \in Known(Endpoints(kept'))
        BY <1>1, <1>2, <2>4, <4>2
      <4>5. dlg'.kind = "add" /\ kept'.prov = dlg'.p => dlg'.p \in torn'
        BY <2>4, <4>1, <4>2
      <4> QED BY <4>1, <4>2, <4>3, <4>4, <4>5 DEF DlgOK, Saving
    <3>6. StageOK'
      BY <3>1, <3>3 DEF StageOK, Deleting
    <3>7. p \notin torn' => NameSound(p)'
      BY <1>0, <1>4, <2>5 DEF NameSound
    <3>8. ASSUME ~behind', kept.prov = dlg.p, dlg.p \notin torn'
          PROVE  Unlike' /\ cfg.prov = kept.prov /\ cfg.model = kept.model
      <4>1. dlg.kind = "edit"
        BY <1>0, <1>4, <2>6, <3>8 DEF IInv, DlgOK, Saving
      <4> QED BY <1>4, <2>4, <2>6, <3>1, <3>3, <3>8, <4>1 DEF Unlike
    <3> QED BY <1>0, <1>1, <1>2, <1>4, <2>3, <2>4, <3>1, <3>3, <3>4, <3>5, <3>6, <3>7, <3>8, OneTouched
  <2>9. CASE dlg.kind = "add" /\ \E m \in Model : dlg' = [dlg EXCEPT !.pc = "use", !.m = m]
    BY <2>8, <2>9
  <2>10. CASE dlg.kind # "add" /\ Serving(dlg.p) /\ dlg' = [dlg EXCEPT !.pc = "use"]
    <3> DEFINE a == [dlg EXCEPT !.pc = "use"]
    <3>1. IsDlg(a) /\ a.m = dlg.m /\ dlg.m \in Model \cup {Unset}
      BY <1>2, PcSet DEF IInv, TypesOK, DlgTypeOK
    <3>2. [a EXCEPT !.m = dlg.m] = a
      <4> HIDE DEF a
      <4> QED BY <3>1 DEF IsDlg
    <3>3. dlg' = [dlg EXCEPT !.pc = "use", !.m = dlg.m]
      BY <2>10, <3>2
    <3> QED BY <2>8, <2>10, <3>1, <3>3
  <2> QED BY <1>4, <2>7, <2>9, <2>10 DEF Goes, Ends
<1> QED BY <1>3, <1>4 DEF SecretWrites

--------------------------------------------------------------------------------
(* The connection: use_model. *)

\* What is said of a provider's keys follows from its settings, its credentials and its store.
LEMMA SameKeys ==
    ASSUME NEW k, NEW l, NEW p, l.conf = k.conf, l.creds = k.creds, l.store = k.store, l.open = k.open
    PROVE  Have(l, p) = Have(k, p) /\ \A e : KeysSound(l, e, p) <=> KeysSound(k, e, p)
<1>1. Have(l, p) = Have(k, p)
  BY DEF Have
<1> QED BY <1>1 DEF KeysSound, Tidy, Bare, Owned

\* A connection that is the one a start finds is to the provider that is chosen.
LEMMA StartChosen ==
    ASSUME NEW k \in KeptRec, NEW p \in Name, AtStart(k).prov = p
    PROVE  k.prov = p /\ AtStart(k).model = k.model
<1>1. p # Unset
  BY ProvAssumption
<1>2. k.prov \in Known(Endpoints(k))
  <2>1. CASE k.prov \notin Known(Endpoints(k))
    <3>1. NoConnection.prov = Unset
      BY DEF NoConnection
    <3> QED BY <1>1, <2>1, <3>1, StartIs
  <2> QED BY <2>1
<1>3. AtStart(k) = [prov |-> k.prov, url |-> Endpoints(k)[k.prov].url, key |-> Have(k, k.prov),
                    model |-> k.model, tuned |-> <<k.prov, k.model>> \in k.profiles]
  BY <1>2, StartIs
<1>4. AtStart(k).prov = k.prov /\ AtStart(k).model = k.model
  BY <1>3
<1> QED BY <1>4

\* The key that is read of a provider that is whole was given to it.
LEMMA HeldEntered ==
    ASSUME NEW k \in KeptRec, NEW p \in Name, NEW e, KeysSound(k, e, p)
    PROVE  Have(k, p) \in e[p] \cup {Unset}
BY DEF KeysSound, Owned, Have

LEMMA UsesKeep ==
    ASSUME IInv, Uses
    PROVE  IInv'
<1>0. dlg.pc = "use" /\ dlg' = NoDialog /\ UNCHANGED <<torn, entered, deleted>>
  BY DEF Uses, Ends, Goes
<1>1. PICK p \in Name : p = dlg.p
  BY <1>0 DEF IInv, DlgOK
<1>2. /\ kept \in KeptRec /\ dlg.eps = Endpoints(kept) /\ p \in Known(Endpoints(kept)) /\ dlg.m \in Model \cup {Unset}
      /\ p \in deleted \ torn => Project[p] # Unset
      /\ dlg.kind = "edit" => cfg.prov = p /\ dlg.m = cfg.model
  BY <1>0, <1>1 DEF IInv, DlgOK, TypesOK, DlgTypeOK
<1>3. PICK key \in KeyRead(kept, Endpoints(kept), p) :
          IF key = Err
          THEN /\ behind' = (behind \/ dlg.kind = "edit") /\ UNCHANGED <<kept, cfg>>
          ELSE /\ cfg' = [prov |-> p, url |-> Endpoints(kept)[p].url, key |-> key, model |-> dlg.m,
                          tuned |-> <<p, dlg.m>> \in kept.profiles]
               /\ IF dlg.kind = "edit" THEN UNCHANGED <<kept, behind>>
                  ELSE \/ kept' = [kept EXCEPT !.prov = p, !.model = dlg.m] /\ behind' = FALSE
                       \/ behind' = TRUE /\ UNCHANGED kept
  BY <1>1, <1>2, Zenon DEF Uses
<1>4. CASE key = Err
  <2>1. ~Unlike \/ dlg.kind = "edit"
    BY <1>0 DEF Unlike, Apart, Saving, Deleting
  <2> QED BY <1>0, <1>3, <1>4, <2>1, LeavesKeep
<1>5. CASE key # Err
  <2>1. key = Have(kept, p)
    BY <1>2, <1>3, <1>5, ReadsHeld
  <2>2. cfg' = [prov |-> p, url |-> Endpoints(kept)[p].url, key |-> Have(kept, p), model |-> dlg.m,
                tuned |-> <<p, dlg.m>> \in kept.profiles]
    BY <1>3, <1>5, <2>1
  <2>3. IsConn(cfg') /\ cfg'.prov = p /\ cfg'.key = Have(kept, p) /\ cfg'.model = dlg.m
    <3>1. PICK u, t : u = Endpoints(kept)[p].url /\ t = (<<p, dlg.m>> \in kept.profiles)
      OBVIOUS
    <3>2. cfg' = [prov |-> p, url |-> u, key |-> Have(kept, p), model |-> dlg.m, tuned |-> t]
      BY <2>2, <3>1, Zenon
    <3> QED BY <3>2, ConnIs
  <2>4. PICK m \in Model \cup {Unset} : m = dlg.m
    BY <1>2
  <2>5a. ASSUME kept' = [kept EXCEPT !.prov = p, !.model = dlg.m]
         PROVE  /\ kept' \in KeptRec /\ kept'.open = kept.open /\ kept'.creds = kept.creds /\ kept'.store = kept.store
                /\ kept'.conf = kept.conf /\ kept'.profiles = kept.profiles /\ kept'.pins = kept.pins
                /\ kept'.prov = p /\ kept'.model = m
    <3> DEFINE a == [kept EXCEPT !.prov = p]
               l == [a EXCEPT !.model = m]
    <3>1. kept' = l
      BY <2>4, <2>5a
    <3>2. kept \in KeptRec /\ p \in Name \cup {Unset} /\ m \in Model \cup {Unset}
      BY <1>2, <2>4
    <3>3. /\ a \in KeptRec /\ a.prov = p /\ a.model = kept.model /\ a.open = kept.open
          /\ a.creds = kept.creds /\ a.store = kept.store /\ a.conf = kept.conf /\ a.profiles = kept.profiles
          /\ a.pins = kept.pins
      BY <3>2, ProvWritten
    <3> HIDE DEF a
    <3>4. /\ l \in KeptRec /\ l.prov = a.prov /\ l.model = m /\ l.open = a.open
          /\ l.creds = a.creds /\ l.store = a.store /\ l.conf = a.conf /\ l.profiles = a.profiles
          /\ l.pins = a.pins
      BY <3>2, <3>3, ModelWritten
    <3> HIDE DEF l
    <3> QED BY <3>1, <3>3, <3>4
  <2>5. /\ kept' \in KeptRec /\ kept'.open = kept.open /\ kept'.creds = kept.creds /\ kept'.store = kept.store
        /\ kept'.conf = kept.conf /\ kept'.profiles = kept.profiles /\ kept'.pins = kept.pins
        /\ kept' = kept \/ (kept'.prov = p /\ kept'.model = m)
    <3>1. CASE kept' = kept
      BY <1>2, <3>1
    <3>2. CASE kept' = [kept EXCEPT !.prov = p, !.model = dlg.m]
      BY <2>5a, <3>2
    <3> QED BY <1>3, <1>5, <3>1, <3>2
  <2>5b. (kept'.prov = p /\ kept'.model = m) \/ behind' \/ (kept' = kept /\ dlg.kind = "edit" /\ behind' = behind)
    <3>1. CASE dlg.kind = "edit"
      BY <1>3, <1>5, <3>1
    <3>2. CASE dlg.kind # "edit" /\ behind' = TRUE
      BY <3>2
    <3>3. CASE kept' = [kept EXCEPT !.prov = p, !.model = dlg.m]
      BY <2>5a, <3>3
    <3> QED BY <1>3, <1>5, <3>1, <3>2, <3>3
  <2>6. Endpoints(kept') = Endpoints(kept) /\ Have(kept', p) = Have(kept, p)
    BY <2>5, SameEndpoints, SameKeys
  <2>7. dlg.pc \notin Apart /\ dlg.pc # "forget"
    BY <1>0 DEF Apart, Saving, Deleting
  <2>8. TypesOK'
    BY <1>0, <1>2, <2>3, <2>5, AtPrompt DEF IInv, TypesOK, DlgTypeOK, Stages, Sources
  <2>9. DlgOK' /\ StageOK'
    BY <1>0, AtPrompt DEF DlgOK, StageOK, Saving, Deleting
  <2>10. NamesOK'
    <3>1. ASSUME NEW q \in Name, q \notin torn
          PROVE  NameSound(q)'
      <4>1. KeysSound(kept, entered, q)
        BY <2>7, <3>1 DEF IInv, NamesOK, NameSound
      <4>2. KeysSound(kept', entered, q)
        BY <2>5, <4>1, SameKeys
      <4>3. p = q => Have(kept, p) \in entered[q] \cup {Unset}
        BY <1>2, <4>1, HeldEntered
      <4> QED BY <1>0, <2>3, <4>2, <4>3 DEF NameSound
    <3> QED BY <1>0, <3>1 DEF NamesOK
  <2>11. ChosenOK'
    <3>1. kept.prov \in Known(Endpoints(kept)) \cup torn \cup {Unset}
      BY <2>7 DEF IInv, ChosenOK, There
    <3> QED BY <1>0, <1>2, <2>3, <2>5, <2>6, <3>1 DEF ChosenOK, There
  <2>12. StartOK'
    <3>1. ~Unlike'
      BY <1>0, AtPrompt DEF Unlike, Apart, Saving, Deleting
    <3>2. SUFFICES ASSUME ~behind', kept'.prov \notin torn
                   PROVE  cfg' = AtStart(kept')
      BY <1>0, <3>1 DEF StartOK
    <3>3. kept'.prov = p /\ kept'.model = m
      <4>1. CASE kept' = kept /\ dlg.kind = "edit" /\ behind' = behind
        <5>1. ~behind /\ kept.prov \notin torn /\ cfg.prov = p /\ m = cfg.model
          BY <1>2, <2>4, <3>2, <4>1
        <5>2. CASE Unlike
          BY <4>1, <5>1, <5>2 DEF IInv, StartOK
        <5>3. CASE ~Unlike
          <6>1. cfg = AtStart(kept)
            BY <5>1, <5>3 DEF IInv, StartOK
          <6> QED BY <1>2, <4>1, <5>1, <6>1, StartChosen
        <5> QED BY <5>2, <5>3
      <4> QED BY <2>5b, <3>2, <4>1
    <3>4. kept'.prov \in Known(Endpoints(kept'))
      BY <1>2, <2>6, <3>3
    <3>5. AtStart(kept') = [prov |-> p, url |-> Endpoints(kept)[p].url, key |-> Have(kept, p),
                            model |-> m, tuned |-> <<p, m>> \in kept.profiles]
      BY <2>5, <2>6, <3>3, <3>4, StartIs
    <3> QED BY <2>2, <2>4, <3>5
  <2>13. GoneOK'
    <3>1. ASSUME NEW q \in deleted, q \notin torn, Project[q] = Unset
          PROVE  Gone(kept', q) /\ cfg'.prov # q
      <4>1. q # p /\ Gone(kept, q)
        BY <1>2, <3>1 DEF IInv, GoneOK
      <4> QED BY <2>3, <2>5, <4>1 DEF Gone
    <3> QED BY <1>0, <3>1 DEF GoneOK
  <2> QED BY <2>8, <2>9, <2>10, <2>11, <2>12, <2>13 DEF IInv
<1> QED BY <1>4, <1>5

--------------------------------------------------------------------------------
(* The removals: endpoints_delete. *)

LEMMA RemovalIs ==
    /\ DOMAIN Removal = {"delete key", "delete creds", "delete profiles", "delete section"}
    /\ Removal["delete key"] = "delete creds" /\ Removal["delete creds"] = "delete profiles"
    /\ Removal["delete profiles"] = "delete section" /\ Removal["delete section"] = "forget"
BY DEF Removal

LEMMA LessIs ==
    ASSUME NEW s \in SUBSET (Name \X Model), NEW p
    PROVE  /\ LessOf(s, p) \in SUBSET (Name \X Model)
           /\ \A x \in LessOf(s, p) : x[1] # p
           /\ \A q \in Name \ {p}, m \in Model : <<q, m>> \in LessOf(s, p) <=> <<q, m>> \in s
BY DEF LessOf

\* One of the four removals is done with, whatever became of it.
LEMMA RemovalKeeps ==
    ASSUME NEW p, p = dlg.p, IInv, dlg.pc \in DOMAIN Removal, NEW x, x = Removal[dlg.pc],
           dlg'.pc = x, dlg'.p = p, dlg'.kind = dlg.kind, dlg'.m = dlg.m, dlg'.url = dlg.url, dlg'.key = dlg.key,
           dlg'.src = dlg.src, IsDlg(dlg'), dlg'.ok => dlg.ok,
           kept' \in KeptRec, Elsewhere(kept, kept', p), UNCHANGED <<cfg, entered, deleted, behind, torn>>,
           dlg.pc # "delete section" => kept'.conf = kept.conf,
           p \notin torn /\ dlg'.ok =>
               /\ kept'.store[p] = Unset
               /\ dlg.pc # "delete key" => kept'.creds[p] = [src |-> "file", key |-> Unset]
               /\ dlg.pc \notin {"delete key", "delete creds"} => \A y \in kept'.profiles : y[1] # p
               /\ dlg.pc = "delete section" => kept'.conf[p] = Unset
    PROVE  IInv'
<1>1. /\ x \in Deleting /\ (x = "forget" <=> dlg.pc = "delete section")
      /\ x \in Deleting \ {"delete creds"} => dlg.pc # "delete key"
      /\ x \in {"delete section", "forget"} => dlg.pc \notin {"delete key", "delete creds"}
      /\ dlg.pc \in Apart \cup {"delete key"} /\ dlg.pc # "forget" /\ dlg.pc # "idle" /\ x \in Apart
  BY RemovalIs DEF Deleting, Apart
<1>2. TypesOK'
  BY <1>1 DEF IInv, TypesOK, DlgTypeOK, Stages
<1>3. DlgOK'
  <2>1. /\ dlg.p \in Name /\ (dlg.p \in deleted \ torn => Project[dlg.p] # Unset)
        /\ dlg.kind = "add" /\ kept.prov = dlg.p => dlg.p \in torn
    BY <1>1 DEF IInv, DlgOK
  <2>2. kept'.prov = kept.prov
    BY DEF Elsewhere
  <2>3. x \notin Saving \cup {"idle", "use"}
    BY <1>1 DEF Deleting, Saving
  <2> QED BY <2>1, <2>2, <2>3 DEF DlgOK, Saving
<1>4. StageOK'
  <2>1. x \notin {"erase", "put", "write"}
    BY <1>1 DEF Deleting
  <2> QED BY <1>1, <2>1 DEF StageOK
<1>5. p \in Known(Endpoints(kept)) => p \in Known(Endpoints(kept')) \/ dlg'.pc = "forget"
  BY <1>1, SameEndpoints
<1> QED BY <1>1, <1>2, <1>3, <1>4, <1>5, MovesOn

LEMMA DeletesKeep ==
    ASSUME IInv, Deletes
    PROVE  IInv'
<1>0. dlg.pc \in DOMAIN Removal /\ UNCHANGED <<cfg, behind, torn, entered, deleted>>
  BY DEF Deletes
<1>1. dlg.pc # "idle" /\ IsDlg(dlg) /\ kept \in KeptRec
  BY <1>0, RemovalIs DEF IInv, TypesOK, DlgTypeOK
<1>2. PICK p \in Name : p = dlg.p
  BY <1>1 DEF IInv, DlgOK
<1> DEFINE x == Removal[dlg.pc]
           a == [dlg EXCEPT !.pc = x]
           b == [a EXCEPT !.ok = FALSE]
<1>3. \/ kept' = Lessened(kept, dlg.pc, dlg.p) /\ dlg' = a
      \/ dlg' = b /\ UNCHANGED kept
  BY Zenon DEF Deletes, Goes
<1> HIDE DEF x
<1>4. /\ IsDlg(a) /\ a.pc = x /\ a.kind = dlg.kind /\ a.p = dlg.p /\ a.m = dlg.m /\ a.url = dlg.url
      /\ a.key = dlg.key /\ a.src = dlg.src /\ a.ok = dlg.ok
  BY <1>1, PcSet
<1> HIDE DEF a
<1>5. /\ IsDlg(b) /\ b.pc = x /\ b.kind = dlg.kind /\ b.p = dlg.p /\ b.m = dlg.m /\ b.url = dlg.url
      /\ b.key = dlg.key /\ b.src = dlg.src /\ b.ok = FALSE
  BY <1>4, OkSet
<1> HIDE DEF b
<1>6. CASE dlg' = b /\ UNCHANGED kept
  BY <1>0, <1>1, <1>2, <1>5, <1>6, NothingElsewhere, RemovalKeeps DEF x
<1>7. CASE kept' = Lessened(kept, dlg.pc, dlg.p) /\ dlg' = a
  <2>1. ASSUME kept' \in KeptRec, Elsewhere(kept, kept', p), dlg.pc # "delete section" => kept'.conf = kept.conf,
               p \notin torn /\ dlg.ok =>
                   /\ kept'.store[p] = Unset
                   /\ dlg.pc # "delete key" => kept'.creds[p] = [src |-> "file", key |-> Unset]
                   /\ dlg.pc \notin {"delete key", "delete creds"} => \A y \in kept'.profiles : y[1] # p
                   /\ dlg.pc = "delete section" => kept'.conf[p] = Unset
        PROVE  IInv'
    BY <1>0, <1>1, <1>2, <1>4, <1>7, <2>1, RemovalKeeps DEF x
  <2>2. /\ p \notin torn /\ dlg.pc = "delete key" => Tidy(kept, p)
        /\ p \notin torn /\ dlg.ok /\ dlg.pc # "delete key" => kept.store[p] = Unset
        /\ p \notin torn /\ dlg.ok /\ dlg.pc \in {"delete profiles", "delete section"} =>
             kept.creds[p] = [src |-> "file", key |-> Unset]
        /\ p \notin torn /\ dlg.ok /\ dlg.pc = "delete section" => \A y \in kept.profiles : y[1] # p
    <3>1. dlg.pc = "delete key" => dlg.pc \notin Apart
      BY DEF Apart, Saving, Deleting
    <3> QED BY <1>0, <1>2, <3>1, RemovalIs DEF IInv, StageOK, NamesOK, NameSound, KeysSound, Deleting
  <2>3. CASE dlg.pc = "delete key"
    <3>1. PICK v \in Key \cup {Unset} : v = IF kept.creds[p].src = "store" THEN Unset ELSE kept.store[p]
      BY <1>1 DEF KeptRec
    <3>2. kept' = [kept EXCEPT !.store[p] = v]
      BY <1>2, <1>7, <2>3, <3>1 DEF Lessened
    <3>3. /\ kept' \in KeptRec /\ Elsewhere(kept, kept', p) /\ kept'.store[p] = v /\ kept'.conf = kept.conf
      BY <1>1, <3>2, StoreWritten
    <3>4. p \notin torn => v = Unset
      BY <2>2, <2>3, <3>1 DEF Tidy
    <3> QED BY <2>1, <2>3, <3>3, <3>4
  <2>4. CASE dlg.pc = "delete creds"
    <3>1. PICK c \in [src : Sources, key : Key \cup {Unset}] : c = [src |-> "file", key |-> Unset]
      BY DEF Sources
    <3>2. kept' = [kept EXCEPT !.creds[p] = c]
      BY <1>2, <1>7, <2>4, <3>1 DEF Lessened
    <3>3. /\ kept' \in KeptRec /\ Elsewhere(kept, kept', p) /\ kept'.creds[p] = c
          /\ kept'.conf = kept.conf /\ kept'.store = kept.store
      BY <1>1, <3>2, CredsWritten
    <3> QED BY <2>1, <2>2, <2>4, <3>1, <3>3
  <2>5. CASE dlg.pc = "delete profiles"
    <3>1. kept.profiles \in SUBSET (Name \X Model)
      BY <1>1 DEF KeptRec
    <3>2. PICK s \in SUBSET (Name \X Model) : s = LessOf(kept.profiles, p)
      BY <3>1, LessIs
    <3>3. kept' = [kept EXCEPT !.profiles = s]
      BY <1>2, <1>7, <2>5, <3>2 DEF Lessened
    <3>4. /\ \A y \in s : y[1] # p
          /\ \A q \in Name \ {p}, m \in Model : <<q, m>> \in s <=> <<q, m>> \in kept.profiles
      BY <3>1, <3>2, LessIs
    <3>5. /\ kept' \in KeptRec /\ Elsewhere(kept, kept', p) /\ kept'.profiles = s
          /\ kept'.conf = kept.conf /\ kept'.store = kept.store /\ kept'.creds = kept.creds
      BY <1>1, <3>3, <3>4, ProfilesWritten
    <3> QED BY <2>1, <2>2, <2>5, <3>4, <3>5
  <2>6. CASE dlg.pc = "delete section"
    <3>1. PICK u \in Base \cup {Unset} : u = Unset
      OBVIOUS
    <3>2. kept' = [kept EXCEPT !.conf[p] = u]
      BY <1>2, <1>7, <2>6, <3>1 DEF Lessened
    <3>3. /\ kept' \in KeptRec /\ Elsewhere(kept, kept', p) /\ kept'.conf[p] = u
          /\ kept'.creds = kept.creds /\ kept'.store = kept.store /\ kept'.profiles = kept.profiles
      BY <1>1, <3>2, SettingsWritten
    <3> QED BY <2>1, <2>2, <2>6, <3>1, <3>3
  <2> QED BY <1>0, <2>3, <2>4, <2>5, <2>6, RemovalIs
<1> QED BY <1>3, <1>6, <1>7

LEMMA ForgottenIs ==
    ASSUME NEW k \in KeptRec, NEW p \in Name, NEW chosen \in BOOLEAN
    PROVE  LET l == Forgotten(k, p, chosen)
           IN  /\ l \in KeptRec /\ l.open = k.open /\ l.conf = k.conf /\ l.creds = k.creds /\ l.store = k.store
               /\ l.profiles = k.profiles /\ l.pins = LessOf(k.pins, p)
               /\ chosen => l.prov = Unset
               /\ ~chosen => l.prov = k.prov /\ l.model = k.model
<1> DEFINE s == LessOf(k.pins, p)
           v == IF chosen THEN Unset ELSE k.prov
           m == IF chosen THEN Unset ELSE k.model
           a == [k EXCEPT !.pins = s]
           b == [a EXCEPT !.prov = v]
           l == [b EXCEPT !.model = m]
<1>1. k.pins \in SUBSET (Name \X Model) /\ k.prov \in Name \cup {Unset} /\ k.model \in Model \cup {Unset}
  BY DEF KeptRec
<1>2. /\ s \in SUBSET (Name \X Model) /\ \A q \in Name \ {p}, n \in Model : <<q, n>> \in s <=> <<q, n>> \in k.pins
  BY <1>1, LessIs
<1>3. v \in Name \cup {Unset} /\ m \in Model \cup {Unset}
  BY <1>1
<1>4. (chosen => v = Unset) /\ (~chosen => v = k.prov /\ m = k.model)
  OBVIOUS
<1>5. Forgotten(k, p, chosen) = l
  BY DEF Forgotten
<1>6. s = LessOf(k.pins, p)
  OBVIOUS
<1> HIDE DEF s, v, m
<1>7. /\ a \in KeptRec /\ Elsewhere(k, a, p) /\ a.pins = s
      /\ a.creds = k.creds /\ a.store = k.store /\ a.conf = k.conf /\ a.profiles = k.profiles
  BY <1>2, PinsWritten
<1>8. a.open = k.open /\ a.prov = k.prov /\ a.model = k.model
  BY <1>7 DEF Elsewhere
<1> HIDE DEF a
<1>9. /\ b \in KeptRec /\ b.prov = v /\ b.model = a.model /\ b.open = a.open
      /\ b.creds = a.creds /\ b.store = a.store /\ b.conf = a.conf /\ b.profiles = a.profiles /\ b.pins = a.pins
  BY <1>3, <1>7, ProvWritten
<1> HIDE DEF b
<1>10. /\ l \in KeptRec /\ l.prov = b.prov /\ l.model = m /\ l.open = b.open
       /\ l.creds = b.creds /\ l.store = b.store /\ l.conf = b.conf /\ l.profiles = b.profiles /\ l.pins = b.pins
  BY <1>3, <1>9, ModelWritten
<1> HIDE DEF l
<1> QED BY <1>4, <1>5, <1>6, <1>7, <1>8, <1>9, <1>10

\* All four removals were whole: what is left are the pins, the choice and the connection.
LEMMA ForgetsKeep ==
    ASSUME IInv, dlg.pc = "forget", dlg.ok, Ends, deleted' = deleted \cup {dlg.p}, UNCHANGED entered,
           cfg' = IF Serving(dlg.p) THEN NoConnection ELSE cfg,
           \/ /\ kept' = Forgotten(kept, dlg.p, Serving(dlg.p)) /\ UNCHANGED behind
              /\ torn' = IF kept'.prov = dlg.p THEN torn \cup {dlg.p} ELSE torn
           \/ torn' = torn \cup {dlg.p} /\ behind' = (behind \/ Serving(dlg.p)) /\ UNCHANGED kept
    PROVE  IInv'
<1>1. PICK p \in Name : p = dlg.p
  BY DEF IInv, DlgOK
<1>2. /\ kept \in KeptRec /\ torn \subseteq Name /\ deleted \subseteq Name /\ p # Unset /\ dlg' = NoDialog
      /\ dlg.pc \in Apart /\ dlg.pc \in Deleting /\ kept.pins \in SUBSET (Name \X Model)
  BY <1>1, ProvAssumption DEF IInv, TypesOK, KeptRec, Apart, Deleting, Ends, Goes
<1>3. ASSUME p \notin torn
      PROVE  /\ kept.store[p] = Unset /\ kept.creds[p] = [src |-> "file", key |-> Unset] /\ kept.conf[p] = Unset
             /\ \A x \in kept.profiles : x[1] # p
  BY <1>1, <1>2, <1>3 DEF IInv, StageOK, Deleting
<1>4. /\ cfg.prov = p => cfg' = NoConnection
      /\ cfg.prov # p => cfg' = cfg
      /\ NoConnection.prov = Unset /\ NoConnection.model = Unset
  BY <1>1 DEF Serving, NoConnection
<1>4a. PICK c \in BOOLEAN : c <=> cfg.prov = p
  OBVIOUS
<1>4b. \/ /\ kept' = Forgotten(kept, p, c) /\ behind' = behind
          /\ torn' = IF kept'.prov = p THEN torn \cup {p} ELSE torn
       \/ torn' = torn \cup {p} /\ behind' = (behind \/ Serving(dlg.p)) /\ kept' = kept
  <2>1. Forgotten(kept, dlg.p, Serving(dlg.p)) = Forgotten(kept, p, c)
    BY <1>1, <1>4a DEF Forgotten, Serving
  <2> QED BY <1>1, <2>1
<1>5. /\ kept' \in KeptRec /\ kept'.open = kept.open /\ kept'.conf = kept.conf /\ kept'.creds = kept.creds
      /\ kept'.store = kept.store /\ kept'.profiles = kept.profiles
      /\ kept'.pins = LessOf(kept.pins, p) \/ (kept' = kept /\ p \in torn')
      /\ cfg.prov = p => kept' = kept \/ kept'.prov = Unset
      /\ cfg.prov # p => kept'.prov = kept.prov /\ kept'.model = kept.model
      /\ torn \subseteq torn' /\ torn' \subseteq torn \cup {p} /\ (kept'.prov = p => p \in torn')
  <2>1. CASE kept' = Forgotten(kept, p, c) /\ torn' = IF kept'.prov = p THEN torn \cup {p} ELSE torn
    <3>1. /\ kept' \in KeptRec /\ kept'.open = kept.open /\ kept'.conf = kept.conf /\ kept'.creds = kept.creds
          /\ kept'.store = kept.store /\ kept'.profiles = kept.profiles
          /\ kept'.pins = LessOf(kept.pins, p)
          /\ cfg.prov = p => kept'.prov = Unset
          /\ cfg.prov # p => kept'.prov = kept.prov /\ kept'.model = kept.model
      BY <1>2, <1>4a, <2>1, ForgottenIs
    <3>2. torn \subseteq torn' /\ torn' \subseteq torn \cup {p} /\ (kept'.prov = p => p \in torn')
      BY <2>1
    <3> QED BY <3>1, <3>2
  <2>2. CASE kept' = kept /\ torn' = torn \cup {p}
    BY <1>2, <2>2
  <2> QED BY <1>1, <1>4b, <2>1, <2>2
<1>6. ~behind' => ~behind /\ (kept' = kept => cfg.prov # p \/ kept'.prov = Unset)
  <2>1. CASE kept' = Forgotten(kept, p, c) /\ behind' = behind
    <3>1. cfg.prov = p => kept'.prov = Unset
      BY <1>2, <1>4a, <2>1, ForgottenIs
    <3> QED BY <2>1, <3>1
  <2>2. CASE behind' = (behind \/ Serving(dlg.p))
    BY <1>1, <2>2 DEF Serving
  <2> QED BY <1>4b, <2>1, <2>2
<1>7. Endpoints(kept') = Endpoints(kept)
  BY <1>5, SameEndpoints
<1>8. TypesOK'
  <2>1. IsConn(cfg') /\ cfg'.prov \in Name \cup {Unset} /\ cfg'.model \in Model \cup {Unset}
    BY <1>4, NoneIs DEF IInv, TypesOK
  <2> QED BY <1>1, <1>2, <1>5, <2>1, AtPrompt DEF IInv, TypesOK, DlgTypeOK, Stages, Sources
<1>9. DlgOK' /\ StageOK'
  BY <1>2, AtPrompt DEF DlgOK, StageOK, Saving, Deleting
<1>10. NamesOK'
  <2>1. ASSUME NEW q \in Name, q \notin torn'
        PROVE  NameSound(q)'
    <3>1. q \notin torn /\ NameSound(q)
      BY <1>5, <2>1 DEF IInv, NamesOK
    <3>2. cfg'.prov = q => cfg' = cfg
      BY <1>4, <2>1, ProvAssumption
    <3>3. KeysSound(kept, entered, q)
      <4>1. CASE q = p
        BY <1>3, <3>1, <4>1 DEF KeysSound, Tidy, Bare, Owned
      <4>2. CASE q # p
        BY <1>1, <3>1, <4>2 DEF NameSound
      <4> QED BY <4>1, <4>2
    <3>4. KeysSound(kept', entered, q)
      BY <1>5, <3>3, SameKeys
    <3> QED BY <3>1, <3>2, <3>4 DEF NameSound
  <2> QED BY <2>1 DEF NamesOK
<1>11. ChosenOK'
  <2>1. kept'.prov \in Known(Endpoints(kept')) \cup torn' \cup {Unset}
    <3>1. kept'.prov \in {Unset, kept.prov} /\ (kept'.prov = p => p \in torn')
      BY <1>5
    <3>2. kept.prov \in Known(Endpoints(kept)) \cup torn \cup {Unset, p}
      BY <1>1 DEF IInv, ChosenOK, There
    <3> QED BY <1>5, <1>7, <3>1, <3>2
  <2>2. cfg'.prov \in Known(Endpoints(kept')) \cup torn' \cup {Unset}
    <3>1. CASE cfg.prov = p
      BY <1>4, <3>1
    <3>2. CASE cfg.prov # p
      BY <1>1, <1>4, <1>5, <1>7, <3>2 DEF IInv, ChosenOK, There
    <3> QED BY <3>1, <3>2
  <2> QED BY <2>1, <2>2 DEF ChosenOK, There
<1>12. StartOK'
  <2>1. ~Unlike'
    BY <1>2, AtPrompt DEF Unlike, Apart, Saving, Deleting
  <2>2. SUFFICES ASSUME ~behind', kept'.prov \notin torn'
                 PROVE  cfg' = AtStart(kept')
    BY <2>1 DEF StartOK
  <2>3. CASE kept'.prov = Unset /\ cfg.prov = p
    <3>1. kept'.prov \notin Known(Endpoints(kept'))
      BY <2>3, ProvAssumption DEF Known
    <3> QED BY <1>4, <1>5, <2>3, <3>1, StartIs
  <2>4. CASE cfg.prov # p
    <3>1. kept'.prov = kept.prov /\ kept'.model = kept.model
      BY <1>5, <2>4
    <3>2. kept.prov # p /\ kept.prov \notin torn /\ ~behind
      BY <1>5, <1>6, <2>2, <3>1
    <3>3. cfg = AtStart(kept)
      BY <1>1, <3>2 DEF IInv, StartOK, Unlike
    <3>4. Elsewhere(kept, kept', p)
      <4>1. \A q \in Name \ {p}, m \in Model : <<q, m>> \in kept'.pins <=> <<q, m>> \in kept.pins
        <5>1. CASE kept'.pins = LessOf(kept.pins, p)
          <6>1. kept.pins \in SUBSET (Name \X Model)
            BY <1>2
          <6>2. \A q \in Name \ {p}, m \in Model : <<q, m>> \in LessOf(kept.pins, p) <=> <<q, m>> \in kept.pins
            BY <6>1, LessIs
          <6> QED BY <5>1, <6>2
        <5>2. CASE kept' = kept
          BY <5>2
        <5> QED BY <1>5, <5>1, <5>2
      <4>2. \A q \in Name \ {p}, m \in Model : <<q, m>> \in kept'.profiles <=> <<q, m>> \in kept.profiles
        BY <1>5
      <4>3. /\ kept'.open = kept.open /\ kept'.conf = kept.conf /\ kept'.creds = kept.creds
            /\ kept'.store = kept.store
        BY <1>5
      <4> QED BY <3>1, <4>1, <4>2, <4>3 DEF Elsewhere
    <3>5. AtStart(kept') = AtStart(kept)
      BY <1>2, <1>5, <3>2, <3>4, OthersStart
    <3> QED BY <1>4, <2>4, <3>3, <3>5
  <2> QED BY <1>5, <1>6, <2>2, <2>3, <2>4
<1>13. GoneOK'
  <2>1. ASSUME NEW q \in deleted', q \notin torn', Project[q] = Unset
        PROVE  Gone(kept', q) /\ cfg'.prov # q
    <3>1. q \notin torn /\ q \in Name
      BY <1>1, <1>2, <1>5, <2>1
    <3>2. CASE q = p
      <4>1. \A x \in kept'.profiles \cup kept'.pins : x[1] # p
        BY <1>2, <1>3, <1>5, <2>1, <3>1, <3>2, LessIs
      <4>2. cfg'.prov # p
        BY <1>2, <1>4
      <4>3. kept'.prov # p
        BY <1>5, <2>1, <3>2
      <4> QED BY <1>3, <1>5, <3>1, <3>2, <4>1, <4>2, <4>3 DEF Gone
    <3>3. CASE q # p
      <4>1. q \in deleted /\ Gone(kept, q) /\ cfg.prov # q
        BY <1>1, <2>1, <3>1, <3>3 DEF IInv, GoneOK
      <4>2. cfg'.prov # q /\ kept'.prov # q
        BY <1>4, <1>5, <3>1, <4>1, ProvAssumption DEF Gone
      <4>3. kept'.pins \subseteq kept.pins
        BY <1>5 DEF LessOf
      <4> QED BY <1>5, <4>1, <4>2, <4>3 DEF Gone
    <3> QED BY <3>2, <3>3
  <2> QED BY <2>1 DEF GoneOK
<1> QED BY <1>8, <1>9, <1>10, <1>11, <1>12, <1>13 DEF IInv

LEMMA DeleteForgetsKeep ==
    ASSUME IInv, DeleteForgets
    PROVE  IInv'
<1>1. CASE ~dlg.ok
  BY <1>1, HaltsKeep DEF DeleteForgets
<1>2. CASE dlg.ok
  BY <1>2, ForgetsKeep DEF DeleteForgets
<1> QED BY <1>1, <1>2

--------------------------------------------------------------------------------
(* The questions a dialog begins with, and the rows of the picker. *)

LEMMA BeginsKeep ==
    ASSUME IInv, NEW p \in Name, dlg.pc = "idle", TypesOK', DlgOK', dlg'.p = p, dlg'.pc \in {"save", "use", "delete key"},
           dlg'.pc = "use" => dlg'.kind # "edit", UNCHANGED <<kept, cfg, behind, torn>>, deleted' \subseteq deleted,
           \A q \in Name : q \notin torn /\ q # p => entered'[q] = entered[q],
           p \notin torn => /\ cfg.prov = p => cfg.key \in entered'[p] \cup {Unset}
                            /\ KeysSound(kept, entered', p)
    PROVE  IInv'
<1>1. dlg.pc \notin Apart /\ dlg'.pc \notin Apart /\ dlg.pc # "forget" /\ ~Unlike /\ ~Unlike'
  BY DEF Apart, Saving, Deleting, Unlike
<1>2. StageOK'
  BY DEF StageOK, Deleting
<1>3. NamesOK'
  <2>1. ASSUME NEW q \in Name, q \notin torn, q # p
        PROVE  NameSound(q)'
    <3>1. KeysSound(kept, entered, q) /\ (cfg.prov = q => cfg.key \in entered[q] \cup {Unset})
      BY <1>1, <2>1 DEF IInv, NamesOK, NameSound
    <3>2. KeysSound(kept, entered', q)
      BY <2>1, <3>1 DEF KeysSound, Owned
    <3> QED BY <2>1, <3>1, <3>2 DEF NameSound
  <2>2. p \notin torn => NameSound(p)'
    BY DEF NameSound
  <2> QED BY <2>1, <2>2 DEF NamesOK
<1>4. ChosenOK'
  BY <1>1 DEF IInv, ChosenOK, There
<1>5. StartOK'
  BY <1>1 DEF IInv, StartOK
<1>6. GoneOK'
  BY DEF IInv, GoneOK
<1> QED BY <1>2, <1>3, <1>4, <1>5, <1>6 DEF IInv

\* What holds of a provider when no dialog is under way.
LEMMA WhenIdle ==
    ASSUME IInv, dlg.pc = "idle", NEW p \in Name, p \notin torn
    PROVE  /\ KeysSound(kept, entered, p) /\ (cfg.prov = p => cfg.key \in entered[p] \cup {Unset})
           /\ cfg.prov = p \/ kept.prov = p => p \in Known(Endpoints(kept))
           /\ p \in deleted /\ Project[p] = Unset => p \notin Known(Endpoints(kept))
<1>1. dlg.pc \notin Apart /\ dlg.pc # "forget"
  BY DEF Apart, Saving, Deleting
<1>2. KeysSound(kept, entered, p) /\ (cfg.prov = p => cfg.key \in entered[p] \cup {Unset})
  BY <1>1 DEF IInv, NamesOK, NameSound
<1>3. cfg.prov = p \/ kept.prov = p => p \in Known(Endpoints(kept))
  BY <1>1, ProvAssumption DEF IInv, ChosenOK, There
<1>4. p \in deleted /\ Project[p] = Unset => p \notin Known(Endpoints(kept))
  BY EndpointIs DEF IInv, GoneOK, Gone
<1> QED BY <1>2, <1>3, <1>4

\* What a dialog that begins knows: the answers to its questions.
LEMMA ToSaveIs ==
    ASSUME NEW kind, NEW p, NEW u, NEW set \in BOOLEAN, NEW key, NEW src, NEW d, d = ToSave(kind, p, u, set, key, src)
    PROVE  /\ IsDlg(d) /\ d.pc = "save" /\ d.kind = kind /\ d.p = p /\ d.m = Unset /\ d.url = u
           /\ (d.setkey <=> set) /\ d.key = key /\ d.src = src /\ d.eps = Endpoints(kept)
<1>1. PICK pc : pc = "save"
  OBVIOUS
<1>2. PICK eps : eps = Endpoints(kept)
  OBVIOUS
<1>3. d = [pc |-> pc, kind |-> kind, p |-> p, m |-> Unset, url |-> u, setkey |-> set, key |-> key,
           src |-> src, eps |-> eps, ok |-> TRUE]
  BY <1>1, <1>2, Zenon DEF ToSave
<1>4. /\ d.pc = pc /\ d.kind = kind /\ d.p = p /\ d.m = Unset /\ d.url = u /\ d.setkey = set
      /\ d.key = key /\ d.src = src /\ d.eps = eps /\ d.ok = TRUE
  BY <1>3
<1>5. IsDlg(d)
  BY <1>3, <1>4 DEF IsDlg
<1> QED BY <1>1, <1>2, <1>4, <1>5

LEMMA PickedIs ==
    ASSUME NEW pc, NEW kind, NEW p, NEW m, NEW d, d = Picked(pc, kind, p, m)
    PROVE  /\ IsDlg(d) /\ d.pc = pc /\ d.kind = kind /\ d.p = p /\ d.m = m /\ d.url = Unset
           /\ d.key = Unset /\ d.src = "file" /\ d.eps = Endpoints(kept)
<1>1. PICK src, set : src = "file" /\ set = FALSE
  OBVIOUS
<1>2. PICK eps : eps = Endpoints(kept)
  OBVIOUS
<1>3. d = [pc |-> pc, kind |-> kind, p |-> p, m |-> m, url |-> Unset, setkey |-> set, key |-> Unset,
           src |-> src, eps |-> eps, ok |-> TRUE]
  BY <1>1, <1>2, Zenon DEF Picked
<1>4. /\ d.pc = pc /\ d.kind = kind /\ d.p = p /\ d.m = m /\ d.url = Unset /\ d.setkey = set
      /\ d.key = Unset /\ d.src = src /\ d.eps = eps /\ d.ok = TRUE
  BY <1>3
<1>5. IsDlg(d)
  BY <1>3, <1>4 DEF IsDlg
<1> QED BY <1>1, <1>2, <1>4, <1>5

\* A new provider: nobody's key is kept under its name, and its only one is the one just given.
LEMMA AddAsksKeep ==
    ASSUME IInv, NEW p \in Name, NEW u \in Base, NEW key \in Key \cup {Unset}, NEW src \in {"file", "store"},
           AddAsks(p, u, key, src)
    PROVE  IInv'
<1>1. /\ p \notin Known(Endpoints(kept)) /\ dlg.pc = "idle" /\ UNCHANGED <<kept, cfg, behind, torn>>
      /\ entered' = [entered EXCEPT ![p] = {key}] /\ deleted' = deleted \ {p}
  BY DEF AddAsks, Begins
<1>2. PICK s \in Sources, set \in BOOLEAN : set /\ dlg' = ToSave("add", p, u, set, key, s)
  BY DEF AddAsks, Begins, Sources
<1>3. /\ IsDlg(dlg') /\ dlg'.pc = "save" /\ dlg'.kind = "add" /\ dlg'.p = p /\ dlg'.m = Unset /\ dlg'.url = u
      /\ dlg'.setkey /\ dlg'.key = key /\ dlg'.src = s /\ dlg'.eps = Endpoints(kept)
  <2>1. dlg' = ToSave("add", p, u, set, key, s)
    BY <1>2
  <2>2. /\ IsDlg(dlg') /\ dlg'.pc = "save" /\ dlg'.kind = "add" /\ dlg'.p = p /\ dlg'.m = Unset /\ dlg'.url = u
        /\ (dlg'.setkey <=> set) /\ dlg'.key = key /\ dlg'.src = s /\ dlg'.eps = Endpoints(kept)
    BY <2>1, ToSaveIs
  <2> QED BY <1>2, <2>2
<1>4. p \notin torn => /\ KeysSound(kept, entered, p) /\ cfg.prov # p /\ kept.prov # p
  BY <1>1, WhenIdle
<1>5. /\ entered \in [Name -> SUBSET (Key \cup {Unset})] /\ entered'[p] = {key}
      /\ entered' \in [Name -> SUBSET (Key \cup {Unset})]
      /\ \A q \in Name : q # p => entered'[q] = entered[q]
  BY <1>1 DEF IInv, TypesOK
<1>6. TypesOK'
  BY <1>1, <1>3, <1>5 DEF IInv, TypesOK, DlgTypeOK, Stages, Saving
<1>7. DlgOK'
  <2>1. p \notin deleted'
    BY <1>1
  <2>2. kept.prov = p => p \in torn
    BY <1>4
  <2> QED BY <1>1, <1>3, <1>5, <2>1, <2>2 DEF DlgOK, Saving
<1>8. p \notin torn => KeysSound(kept, entered', p)
  <2>1. kept.conf[p] = Unset
    BY <1>1, EndpointIs
  <2> QED BY <1>4, <2>1 DEF KeysSound, Owned
<1> QED BY <1>1, <1>3, <1>4, <1>5, <1>6, <1>7, <1>8, BeginsKeep

\* An edit that keeps the key, moves it elsewhere, or clears it.
LEMMA EditKeepsKey ==
    ASSUME IInv, NEW p \in Name, NEW u \in Base, NEW set \in BOOLEAN, NEW key \in Key \cup {Unset}, NEW src \in Sources,
           p \in Known(Endpoints(kept)), Begins(ToSave("edit", p, u, set, key, src)),
           UNCHANGED <<kept, cfg, behind, torn, deleted>>,
           entered' \in [Name -> SUBSET (Key \cup {Unset})],
           \A q \in Name : q # p => entered'[q] = entered[q],
           entered[p] \subseteq entered'[p],
           set /\ p \notin torn => key \in entered'[p] \cup {Unset}
    PROVE  IInv'
<1>1. dlg.pc = "idle" /\ dlg' = ToSave("edit", p, u, set, key, src)
  BY DEF Begins
<1>2. /\ IsDlg(dlg') /\ dlg'.pc = "save" /\ dlg'.kind = "edit" /\ dlg'.p = p /\ dlg'.m = Unset /\ dlg'.url = u
      /\ (dlg'.setkey <=> set) /\ dlg'.key = key /\ dlg'.src = src /\ dlg'.eps = Endpoints(kept)
  BY <1>1, ToSaveIs
<1>3. p \notin torn => /\ KeysSound(kept, entered, p) /\ (cfg.prov = p => cfg.key \in entered[p] \cup {Unset})
                       /\ (p \in deleted => Project[p] # Unset)
  BY <1>1, WhenIdle
<1>4. TypesOK'
  BY <1>2 DEF IInv, TypesOK, DlgTypeOK, Stages, Saving
<1>5. DlgOK'
  <2>1. p \in deleted \ torn => Project[p] # Unset
    BY <1>3
  <2> QED BY <1>2, <2>1 DEF DlgOK, Saving
<1>6. p \notin torn => KeysSound(kept, entered', p)
  BY <1>3 DEF KeysSound, Owned
<1>7. p \notin torn => (cfg.prov = p => cfg.key \in entered'[p] \cup {Unset})
  BY <1>3
<1> QED BY <1>1, <1>2, <1>4, <1>5, <1>6, <1>7, BeginsKeep

LEMMA EditAsksKeep ==
    ASSUME IInv, NEW p \in Name, NEW u \in Base, EditAsks(p, u)
    PROVE  IInv'
<1>1. p \in Known(Endpoints(kept)) /\ UNCHANGED <<kept, cfg, behind, torn, deleted>>
  BY DEF EditAsks
<1>2. /\ kept \in KeptRec /\ entered \in [Name -> SUBSET (Key \cup {Unset})] /\ entered[p] \subseteq Key \cup {Unset}
  BY DEF IInv, TypesOK
<1>3. CASE entered' = entered /\ Begins(ToSave("edit", p, u, FALSE, Unset, "file"))
  BY <1>1, <1>2, <1>3, EditKeepsKey DEF Sources
<1>4. ASSUME NEW key \in Key \cup {Unset}, NEW src \in {"file", "store"},
             Begins(ToSave("edit", p, u, TRUE, key, src)),
             entered' = [entered EXCEPT ![p] = @ \cup {key}]
      PROVE  IInv'
  <2>1. /\ entered' \in [Name -> SUBSET (Key \cup {Unset})] /\ entered'[p] = entered[p] \cup {key}
        /\ \A q \in Name : q # p => entered'[q] = entered[q]
    BY <1>2, <1>4
  <2> QED BY <1>1, <1>4, <2>1, EditKeepsKey DEF Sources
<1>5. ASSUME NEW key \in KeyRead(kept, Endpoints(kept), p) \ {Err, Unset}, NEW src \in {"file", "store"},
             Begins(ToSave("edit", p, u, TRUE, key, src)), entered' = entered
      PROVE  IInv'
  <2>1. dlg.pc = "idle"
    BY <1>5 DEF Begins
  <2>2. key = Have(kept, p) /\ key \in Key \cup {Unset}
    BY <1>2, <1>5, ReadsHeld
  <2>3. p \notin torn => KeysSound(kept, entered, p)
    BY <2>1, WhenIdle
  <2>4. p \notin torn => key \in entered[p] \cup {Unset}
    BY <1>2, <2>2, <2>3, HeldEntered
  <2> QED BY <1>1, <1>2, <1>5, <2>2, <2>4, EditKeepsKey DEF Sources
<1>6. CASE entered' = entered /\ Begins(ToSave("edit", p, u, TRUE, Unset, Source(p)))
  <2>1. PICK s \in Sources : s = Source(p)
    BY <1>2 DEF Source, Sources, KeptRec
  <2> QED BY <1>1, <1>2, <1>6, <2>1, EditKeepsKey
<1> QED BY <1>3, <1>4, <1>5, <1>6 DEF EditAsks

LEMMA ModelAsksKeep ==
    ASSUME IInv, NEW p \in Name, NEW m \in Model, ModelAsks(p, m)
    PROVE  IInv'
<1>1. /\ p \in Known(Endpoints(kept)) /\ dlg.pc = "idle" /\ UNCHANGED <<kept, cfg, behind, torn, entered, deleted>>
      /\ dlg' = Picked("use", "model", p, m)
  BY DEF ModelAsks, Begins
<1>2. /\ IsDlg(dlg') /\ dlg'.pc = "use" /\ dlg'.kind = "model" /\ dlg'.p = p /\ dlg'.m = m /\ dlg'.url = Unset
      /\ dlg'.key = Unset /\ dlg'.src = "file" /\ dlg'.eps = Endpoints(kept)
  BY <1>1, PickedIs
<1>3. p \notin torn => /\ KeysSound(kept, entered, p) /\ (cfg.prov = p => cfg.key \in entered[p] \cup {Unset})
                       /\ (p \in deleted => Project[p] # Unset)
  BY <1>1, WhenIdle
<1>4. TypesOK'
  BY <1>1, <1>2 DEF IInv, TypesOK, DlgTypeOK, Stages, Sources
<1>5. DlgOK'
  BY <1>1, <1>2, <1>3 DEF DlgOK, Saving
<1> QED BY <1>1, <1>2, <1>3, <1>4, <1>5, BeginsKeep

LEMMA DeleteAsksKeep ==
    ASSUME IInv, NEW p \in Name, DeleteAsks(p)
    PROVE  IInv'
<1>1. /\ p \in Known(Endpoints(kept)) /\ dlg.pc = "idle" /\ UNCHANGED <<kept, cfg, behind, torn, entered, deleted>>
  BY DEF DeleteAsks, Begins
<1>0. PICK m : m = Unset /\ dlg' = Picked("delete key", "delete", p, m)
  BY DEF DeleteAsks, Begins
<1>2. /\ IsDlg(dlg') /\ dlg'.pc = "delete key" /\ dlg'.kind = "delete" /\ dlg'.p = p /\ dlg'.m = m
      /\ dlg'.url = Unset /\ dlg'.key = Unset /\ dlg'.src = "file" /\ dlg'.eps = Endpoints(kept)
  <2>1. PICK pc, kind : pc = "delete key" /\ kind = "delete"
    OBVIOUS
  <2>2. dlg' = Picked(pc, kind, p, m)
    BY <1>0, <2>1
  <2>3. /\ IsDlg(dlg') /\ dlg'.pc = pc /\ dlg'.kind = kind /\ dlg'.p = p /\ dlg'.m = m
        /\ dlg'.url = Unset /\ dlg'.key = Unset /\ dlg'.src = "file" /\ dlg'.eps = Endpoints(kept)
    BY <2>2, PickedIs
  <2> QED BY <2>1, <2>3
<1>3. p \notin torn => /\ KeysSound(kept, entered, p) /\ (cfg.prov = p => cfg.key \in entered[p] \cup {Unset})
                       /\ (p \in deleted => Project[p] # Unset)
  BY <1>1, WhenIdle
<1>4. TypesOK'
  BY <1>0, <1>1, <1>2 DEF IInv, TypesOK, DlgTypeOK, Stages, Sources
<1>5. DlgOK'
  BY <1>1, <1>2, <1>3 DEF DlgOK, Saving
<1> QED BY <1>1, <1>2, <1>3, <1>4, <1>5, BeginsKeep

\* A row of the picker: the profile of a model, or its pin.
LEMMA RowKeeps ==
    ASSUME IInv, NEW p \in Name, p \in Known(Endpoints(kept)), dlg.pc = "idle",
           UNCHANGED <<dlg, behind, torn, entered, deleted>>,
           kept' \in KeptRec, Elsewhere(kept, kept', p),
           kept'.conf = kept.conf, kept'.creds = kept.creds, kept'.store = kept.store,
           IsConn(cfg'), cfg'.prov = cfg.prov, cfg'.key = cfg.key, cfg'.model = cfg.model,
           cfg = AtStart(kept) => cfg' = AtStart(kept')
    PROVE  IInv'
<1>1. /\ kept'.open = kept.open /\ kept'.prov = kept.prov /\ kept'.model = kept.model
      /\ kept \in KeptRec
  BY DEF Elsewhere, IInv, TypesOK
<1>2. Endpoints(kept') = Endpoints(kept)
  BY SameEndpoints
<1>3. dlg.pc \notin Apart /\ dlg.pc # "forget" /\ ~Unlike /\ ~Unlike'
  BY DEF Apart, Saving, Deleting, Unlike
<1>4. TypesOK'
  BY DEF IInv, TypesOK, DlgTypeOK
<1>5. DlgOK' /\ StageOK'
  <2>1. dlg' = NoDialog
    BY DEF IInv, DlgOK
  <2> QED BY <2>1, AtPrompt DEF DlgOK, StageOK, Saving, Deleting
<1>6. NamesOK'
  <2>1. ASSUME NEW q \in Name, q \notin torn
        PROVE  NameSound(q)'
    <3>1. KeysSound(kept, entered, q) /\ (cfg.prov = q => cfg.key \in entered[q] \cup {Unset})
      BY <1>3, <2>1 DEF IInv, NamesOK, NameSound
    <3>2. KeysSound(kept', entered, q)
      BY <1>1, <3>1, SameKeys
    <3> QED BY <3>1, <3>2 DEF NameSound
  <2> QED BY <2>1 DEF NamesOK
<1>7. ChosenOK'
  BY <1>1, <1>2 DEF IInv, ChosenOK, There
<1>8. StartOK'
  BY <1>1, <1>3 DEF IInv, StartOK
<1>9. GoneOK'
  <2>1. ASSUME NEW q \in deleted, q \notin torn, Project[q] = Unset
        PROVE  Gone(kept', q) /\ cfg'.prov # q
    <3>1. q \in Name /\ Gone(kept, q) /\ cfg.prov # q
      BY <2>1 DEF IInv, GoneOK, TypesOK
    <3>2. q # p
      BY <2>1, <3>1, EndpointIs DEF Gone
    <3> QED BY <1>1, <3>1, <3>2, OthersGone
  <2> QED BY <2>1 DEF GoneOK
<1> QED BY <1>4, <1>5, <1>6, <1>7, <1>8, <1>9 DEF IInv

LEMMA PinnedKeeps ==
    ASSUME IInv, NEW p \in Name, NEW m \in Model, Pinned(p, m)
    PROVE  IInv'
<1> DEFINE s == IF <<p, m>> \in kept.pins THEN kept.pins \ {<<p, m>>} ELSE kept.pins \cup {<<p, m>>}
<1>1. /\ p \in Known(Endpoints(kept)) /\ dlg.pc = "idle" /\ UNCHANGED <<cfg, dlg, behind, torn, entered, deleted>>
      /\ kept' = [kept EXCEPT !.pins = s]
  BY DEF Pinned
<1>2. kept \in KeptRec /\ kept.pins \subseteq Name \X Model /\ IsConn(cfg)
  BY DEF IInv, TypesOK, KeptRec
<1>3. s \in SUBSET (Name \X Model)
  BY <1>2
<1>4. \A q \in Name \ {p}, n \in Model : <<q, n>> \in s <=> <<q, n>> \in kept.pins
  OBVIOUS
<1> HIDE DEF s
<1>5. /\ kept' \in KeptRec /\ Elsewhere(kept, kept', p) /\ kept'.profiles = kept.profiles
      /\ kept'.creds = kept.creds /\ kept'.store = kept.store /\ kept'.conf = kept.conf
  BY <1>1, <1>2, <1>3, <1>4, PinsWritten
<1>6. AtStart(kept') = AtStart(kept)
  <2>1. Endpoints(kept') = Endpoints(kept) /\ kept'.prov = kept.prov /\ kept'.model = kept.model /\ kept'.open = kept.open
    BY <1>5, SameEndpoints DEF Elsewhere
  <2>2. Have(kept', kept.prov) = Have(kept, kept.prov)
    BY <1>5, <2>1, SameKeys
  <2>3. CASE kept.prov \in Known(Endpoints(kept))
    BY <1>2, <1>5, <2>1, <2>2, <2>3, StartIs
  <2>4. CASE kept.prov \notin Known(Endpoints(kept))
    BY <1>2, <1>5, <2>1, <2>4, StartIs
  <2> QED BY <2>3, <2>4
<1> QED BY <1>1, <1>2, <1>5, <1>6, RowKeeps

LEMMA ProfileSavedKeeps ==
    ASSUME IInv, NEW p \in Name, NEW m \in Model, ProfileSaved(p, m)
    PROVE  IInv'
<1>1. PICK t \in BOOLEAN :
         /\ kept' = [kept EXCEPT !.profiles = IF t THEN @ \cup {<<p, m>>} ELSE @ \ {<<p, m>>}]
         /\ cfg' = IF Serving(p) /\ cfg.model = m THEN [cfg EXCEPT !.tuned = t] ELSE cfg
  BY DEF ProfileSaved
<1> DEFINE s == IF t THEN kept.profiles \cup {<<p, m>>} ELSE kept.profiles \ {<<p, m>>}
<1>2. /\ p \in Known(Endpoints(kept)) /\ dlg.pc = "idle" /\ UNCHANGED <<dlg, behind, torn, entered, deleted>>
      /\ kept' = [kept EXCEPT !.profiles = s]
  BY <1>1 DEF ProfileSaved
<1>3. kept \in KeptRec /\ kept.profiles \subseteq Name \X Model /\ IsConn(cfg) /\ p # Unset
  BY ProvAssumption DEF IInv, TypesOK, KeptRec
<1>4. s \in SUBSET (Name \X Model)
  BY <1>3
<1>5. /\ \A q \in Name \ {p}, n \in Model : <<q, n>> \in s <=> <<q, n>> \in kept.profiles
      /\ \A q, n : <<q, n>> # <<p, m>> => (<<q, n>> \in s <=> <<q, n>> \in kept.profiles)
      /\ <<p, m>> \in s <=> t
  OBVIOUS
<1> HIDE DEF s
<1>6. /\ kept' \in KeptRec /\ Elsewhere(kept, kept', p) /\ kept'.profiles = s
      /\ kept'.creds = kept.creds /\ kept'.store = kept.store /\ kept'.conf = kept.conf
  BY <1>2, <1>3, <1>4, <1>5, ProfilesWritten
<1>7. \/ cfg' = cfg /\ ~(cfg.prov = p /\ cfg.model = m)
      \/ /\ cfg' = [prov |-> p, url |-> cfg.url, key |-> cfg.key, model |-> m, tuned |-> t]
         /\ cfg.prov = p /\ cfg.model = m
  BY <1>1, <1>3, TunedSet DEF Serving
<1>8. IsConn(cfg') /\ cfg'.prov = cfg.prov /\ cfg'.key = cfg.key /\ cfg'.model = cfg.model
  BY <1>3, <1>7, ConnIs
<1>9. ASSUME cfg = AtStart(kept)
      PROVE  cfg' = AtStart(kept')
  <2>1. Endpoints(kept') = Endpoints(kept) /\ kept'.prov = kept.prov /\ kept'.model = kept.model /\ kept'.open = kept.open
    BY <1>6, SameEndpoints DEF Elsewhere
  <2>2. Have(kept', kept.prov) = Have(kept, kept.prov)
    BY <1>6, <2>1, SameKeys
  <2>3. CASE kept.prov \notin Known(Endpoints(kept))
    <3>1. cfg = NoConnection /\ AtStart(kept') = NoConnection
      BY <1>3, <1>6, <1>9, <2>1, <2>3, StartIs
    <3> QED BY <1>3, <1>7, <3>1, NoneIs
  <2>4. CASE kept.prov \in Known(Endpoints(kept))
    <3> DEFINE q == kept.prov
               n == kept.model
    <3>1. PICK u : u = Endpoints(kept)[q].url
      OBVIOUS
    <3>2. cfg = [prov |-> q, url |-> u, key |-> Have(kept, q), model |-> n, tuned |-> <<q, n>> \in kept.profiles]
      BY <1>3, <1>9, <2>4, <3>1, StartIs
    <3>3. AtStart(kept') = [prov |-> q, url |-> u, key |-> Have(kept, q), model |-> n, tuned |-> <<q, n>> \in s]
      BY <1>6, <2>1, <2>2, <2>4, <3>1, StartIs
    <3>4. cfg.prov = q /\ cfg.url = u /\ cfg.key = Have(kept, q) /\ cfg.model = n
      BY <3>2
    <3> HIDE DEF q, n
    <3>5. CASE q = p /\ n = m
      <4>1. (<<q, n>> \in s) = t
        BY <1>5, <3>5
      <4>2. cfg' = [prov |-> q, url |-> u, key |-> Have(kept, q), model |-> n, tuned |-> t]
        BY <1>7, <3>4, <3>5
      <4> QED BY <3>3, <4>1, <4>2
    <3>6. CASE ~(q = p /\ n = m)
      <4>1. (<<q, n>> \in s) = (<<q, n>> \in kept.profiles)
        BY <1>5, <3>6
      <4>2. cfg' = cfg
        BY <1>7, <3>4, <3>6
      <4> QED BY <3>2, <3>3, <4>1, <4>2
    <3> QED BY <3>5, <3>6
  <2> QED BY <2>3, <2>4
<1> QED BY <1>2, <1>3, <1>6, <1>8, <1>9, RowKeeps

--------------------------------------------------------------------------------
(* The end of the process, and the next start. *)

LEMMA RestartsKeep ==
    ASSUME IInv, Restarts
    PROVE  IInv'
<1>1. /\ dlg' = NoDialog /\ UNCHANGED <<kept, entered, deleted>>
      /\ torn \subseteq torn' /\ torn' \subseteq torn \cup {dlg.p}
      /\ dlg.pc # "idle" => dlg.p \in torn'
      /\ dlg.pc = "idle" => torn' = torn
  BY DEF Restarts
<1>2. /\ kept \in KeptRec /\ torn \subseteq Name /\ deleted \subseteq Name /\ kept.prov \in Name \cup {Unset}
      /\ kept.model \in Model \cup {Unset} /\ (dlg.pc # "idle" => dlg.p \in Name)
  BY DEF IInv, TypesOK, KeptRec, DlgOK
<1>3. PICK key \in IF kept.prov \in Known(Endpoints(kept)) THEN KeyRead(kept, Endpoints(kept), kept.prov) ELSE {Unset} :
          cfg' = Resumed(kept, IF key = Err THEN Unset ELSE key) /\ behind' = (key = Err)
  BY DEF Restarts
<1>4. /\ kept.prov \notin Known(Endpoints(kept)) => cfg' = NoConnection /\ AtStart(kept) = NoConnection
      /\ kept.prov \in Known(Endpoints(kept)) =>
           /\ IsConn(cfg') /\ cfg'.prov = kept.prov /\ cfg'.model = kept.model
           /\ cfg'.key = Unset \/ cfg'.key = Have(kept, kept.prov)
           /\ ~behind' => cfg' = AtStart(kept)
  <2>1. CASE kept.prov \notin Known(Endpoints(kept))
    BY <1>2, <1>3, <2>1, StartIs DEF Resumed
  <2>2. CASE kept.prov \in Known(Endpoints(kept))
    <3> DEFINE q == kept.prov
    <3>1. q \in Name /\ (key = Err \/ key = Have(kept, q))
      BY <1>2, <1>3, <2>2, ReadsHeld DEF Known
    <3>2. PICK v : v = IF key = Err THEN Unset ELSE key
      OBVIOUS
    <3>3. cfg' = [prov |-> q, url |-> Endpoints(kept)[q].url, key |-> v, model |-> kept.model,
                  tuned |-> <<q, kept.model>> \in kept.profiles]
      BY <1>3, <2>2, <3>2 DEF Resumed
    <3>4. PICK u, t : u = Endpoints(kept)[q].url /\ t = (<<q, kept.model>> \in kept.profiles)
      OBVIOUS
    <3>5. cfg' = [prov |-> q, url |-> u, key |-> v, model |-> kept.model, tuned |-> t]
      BY <3>3, <3>4, Zenon
    <3>6. IsConn(cfg') /\ cfg'.prov = q /\ cfg'.key = v /\ cfg'.model = kept.model
      BY <3>5, ConnIs
    <3>7. ~behind' => cfg' = AtStart(kept)
      BY <1>2, <1>3, <2>2, <3>1, <3>2, <3>3, StartIs
    <3> QED BY <2>2, <3>1, <3>2, <3>6, <3>7
  <2> QED BY <2>1, <2>2
<1>5. IsConn(cfg') /\ cfg'.prov \in {Unset, kept.prov} /\ cfg'.model \in Model \cup {Unset}
  BY <1>2, <1>4, NoneIs
<1>6. TypesOK'
  <2>1. torn' \subseteq Name
    BY <1>1, <1>2
  <2>2. cfg'.prov \in Name \cup {Unset}
    BY <1>2, <1>5
  <2> QED BY <1>1, <1>5, <2>1, <2>2, AtPrompt DEF IInv, TypesOK, DlgTypeOK, Stages, Sources
<1>7. DlgOK' /\ StageOK'
  BY <1>1, AtPrompt DEF DlgOK, StageOK, Saving, Deleting
<1>8. dlg.pc \in Apart \/ dlg.pc = "forget" => dlg.pc # "idle"
  BY DEF Apart, Saving, Deleting
<1>9. NamesOK'
  <2>1. ASSUME NEW q \in Name, q \notin torn'
        PROVE  NameSound(q)'
    <3>1. KeysSound(kept, entered, q)
      BY <1>1, <1>8, <2>1 DEF IInv, NamesOK, NameSound
    <3>2. Have(kept, q) \in entered[q] \cup {Unset}
      BY <1>2, <3>1, HeldEntered
    <3>3. cfg'.prov = q => cfg'.key = Unset \/ cfg'.key = Have(kept, q)
      BY <1>4, NoneIs
    <3> QED BY <1>1, <3>1, <3>2, <3>3 DEF NameSound
  <2> QED BY <2>1 DEF NamesOK
<1>10. ChosenOK'
  <2>1. kept.prov \in Known(Endpoints(kept)) \cup torn' \cup {Unset}
    BY <1>1, <1>8 DEF IInv, ChosenOK, There
  <2> QED BY <1>1, <1>5, <2>1 DEF ChosenOK, There
<1>11. StartOK'
  <2>1. ~Unlike'
    BY <1>1, AtPrompt DEF Unlike, Apart, Saving, Deleting
  <2> QED BY <1>1, <1>4, <2>1 DEF StartOK
<1>12. GoneOK'
  <2>1. ASSUME NEW q \in deleted, q \notin torn', Project[q] = Unset
        PROVE  Gone(kept, q) /\ cfg'.prov # q
    <3>1. q \in Name /\ q \notin torn /\ q # Unset
      BY <1>1, <1>2, <2>1, ProvAssumption
    <3>2. Gone(kept, q)
      BY <2>1, <3>1 DEF IInv, GoneOK
    <3> QED BY <1>5, <3>1, <3>2 DEF Gone
  <2> QED BY <1>1, <2>1 DEF GoneOK
<1> QED BY <1>6, <1>7, <1>9, <1>10, <1>11, <1>12 DEF IInv

--------------------------------------------------------------------------------
(* The theorems. *)

LEMMA InitKeeps ==
    ASSUME ProvInit
    PROVE  IInv
<1>1. /\ kept \in Kepts /\ cfg = AtStart(kept) /\ dlg = NoDialog /\ behind = FALSE /\ torn = {} /\ deleted = {}
      /\ entered = [p \in Name |-> IF p \in Known(Endpoints(kept)) THEN {KeyHeld(kept, Endpoints(kept), p)} ELSE {}]
  BY DEF ProvInit
<1>2. /\ kept \in KeptRec /\ kept.prov \in Known(Endpoints(kept)) \cup {Unset}
      /\ \A p \in Name : Tidy(kept, p) /\ Bare(kept, p)
  BY <1>1, ProvAssumption
<1>3. kept.prov \in Name \cup {Unset} /\ kept.model \in Model \cup {Unset}
  BY <1>2 DEF KeptRec
<1>4. ASSUME NEW p \in Name
      PROVE  /\ entered[p] \subseteq Key \cup {Unset}
             /\ p \in Known(Endpoints(kept)) => entered[p] = {Have(kept, p)}
  <2>1. Have(kept, p) \in Key \cup {Unset} /\ KeyHeld(kept, Endpoints(kept), p) = Have(kept, p)
    BY <1>2, ReadsHeld
  <2>2. entered[p] = IF p \in Known(Endpoints(kept)) THEN {KeyHeld(kept, Endpoints(kept), p)} ELSE {}
    BY <1>1
  <2> QED BY <2>1, <2>2
<1>5. /\ IsConn(cfg) /\ cfg.prov \in {Unset, kept.prov} /\ cfg.model \in Model \cup {Unset}
      /\ cfg.prov # Unset => cfg.key = Have(kept, kept.prov) /\ kept.prov \in Known(Endpoints(kept))
  <2>1. CASE kept.prov \notin Known(Endpoints(kept))
    <3>1. cfg = NoConnection
      BY <1>1, <1>2, <2>1, StartIs
    <3> QED BY <3>1, NoneIs
  <2>2. CASE kept.prov \in Known(Endpoints(kept))
    <3>1. PICK q, u, t : /\ q = kept.prov /\ u = Endpoints(kept)[kept.prov].url
                         /\ t = (<<kept.prov, kept.model>> \in kept.profiles)
      OBVIOUS
    <3>2. AtStart(kept) = [prov |-> kept.prov, url |-> Endpoints(kept)[kept.prov].url, key |-> Have(kept, kept.prov),
                           model |-> kept.model, tuned |-> <<kept.prov, kept.model>> \in kept.profiles]
      BY <1>2, <2>2, StartIs
    <3>3. cfg = [prov |-> q, url |-> u, key |-> Have(kept, kept.prov), model |-> kept.model, tuned |-> t]
      BY <1>1, <3>1, <3>2, Zenon
    <3> QED BY <1>3, <2>2, <3>1, <3>3, ConnIs
  <2> QED BY <2>1, <2>2
<1>6. TypesOK
  <2>1. entered \in [Name -> SUBSET (Key \cup {Unset})]
    BY <1>1, <1>4
  <2>2. cfg.prov \in Name \cup {Unset}
    BY <1>3, <1>5
  <2> QED BY <1>1, <1>2, <1>5, <2>1, <2>2, AtPrompt DEF TypesOK, DlgTypeOK, Stages, Sources
<1>7. DlgOK /\ StageOK
  BY <1>1, AtPrompt DEF DlgOK, StageOK, Saving, Deleting
<1>8. NamesOK
  <2>1. ASSUME NEW p \in Name
        PROVE  NameSound(p)
    <3>1. Owned(kept, entered, p)
      BY <1>4, EndpointIs DEF Owned
    <3>2. cfg.prov = p => cfg.key \in entered[p] \cup {Unset}
      BY <1>4, <1>5, ProvAssumption
    <3> QED BY <1>2, <3>1, <3>2 DEF NameSound, KeysSound
  <2> QED BY <2>1 DEF NamesOK
<1>9. ChosenOK
  BY <1>2, <1>5 DEF ChosenOK, There
<1>10. StartOK
  <2>1. ~Unlike
    BY <1>1, AtPrompt DEF Unlike, Apart, Saving, Deleting
  <2> QED BY <1>1, <2>1 DEF StartOK
<1>11. GoneOK
  BY <1>1 DEF GoneOK
<1> QED BY <1>6, <1>7, <1>8, <1>9, <1>10, <1>11 DEF IInv

\* The bound on the dialogs begun is all a step that stutters may change.
LEMMA StutterKeeps ==
    ASSUME IInv, UNCHANGED provVars
    PROVE  IInv'
<1>1. UNCHANGED <<kept, cfg, dlg, behind, torn, entered, deleted>>
  BY DEF provVars
<1>2. TypesOK'
  BY <1>1 DEF IInv, TypesOK, DlgTypeOK
<1>3. DlgOK'
  BY <1>1 DEF IInv, DlgOK
<1>4. StageOK' /\ NamesOK' /\ ChosenOK' /\ StartOK' /\ GoneOK'
  BY <1>1 DEF IInv, StageOK, NamesOK, NameSound, ChosenOK, There, StartOK, Unlike, GoneOK
<1> QED BY <1>2, <1>3, <1>4 DEF IInv

LEMMA NextKeeps ==
    ASSUME IInv, ProvNext
    PROVE  IInv'
<1>1. ASSUME NEW p \in Name, NEW u \in Base, NEW key \in Key \cup {Unset}, NEW src \in {"file", "store"},
             AddAsks(p, u, key, src)
      PROVE  IInv'
  BY <1>1, AddAsksKeep
<1>2. ASSUME NEW p \in Name, NEW u \in Base, EditAsks(p, u)
      PROVE  IInv'
  BY <1>2, EditAsksKeep
<1>3. ASSUME NEW p \in Name, NEW m \in Model, ModelAsks(p, m) \/ ProfileSaved(p, m) \/ Pinned(p, m)
      PROVE  IInv'
  BY <1>3, ModelAsksKeep, ProfileSavedKeeps, PinnedKeeps
<1>4. ASSUME NEW p \in Name, DeleteAsks(p)
      PROVE  IInv'
  BY <1>4, DeleteAsksKeep
<1>5. CASE Saves
  BY <1>5, SavesKeep
<1>6. CASE SecretErases
  BY <1>6, SecretErasesKeep
<1>7. CASE SecretPuts
  BY <1>7, SecretPutsKeep
<1>8. CASE SecretWrites
  BY <1>8, SecretWritesKeep
<1>9. CASE Uses
  BY <1>9, UsesKeep
<1>10. CASE Deletes
  BY <1>10, DeletesKeep
<1>11. CASE DeleteForgets
  BY <1>11, DeleteForgetsKeep
<1>12. CASE Restarts
  BY <1>12, RestartsKeep
<1> QED BY <1>1, <1>2, <1>3, <1>4, <1>5, <1>6, <1>7, <1>8, <1>9, <1>10, <1>11, <1>12 DEF ProvNext

LEMMA LessSame ==
    ASSUME NEW s, NEW p, \A x \in s : x[1] # p
    PROVE  LessOf(s, p) = s
BY DEF LessOf

LEMMA InvInUse ==
    ASSUME IInv
    PROVE  InUseTrue
<1>1. kept \in KeptRec /\ deleted \subseteq Name
  BY DEF IInv, TypesOK
<1>2. SameAtStart
  <2>1. dlg.pc = "idle" => ~Unlike
    BY DEF Unlike, Apart, Saving, Deleting
  <2> QED BY <2>1 DEF IInv, StartOK, SameAtStart
<1>3. KeysOwn
  <2>1. ASSUME dlg.pc = "idle", NEW p \in Name, p \notin torn
        PROVE  /\ kept.creds[p].src # "file" => kept.creds[p].key = Unset \/ kept.creds[p].src = "command"
               /\ kept.store[p] # Unset => kept.creds[p].src = "store"
               /\ p \in Known(Endpoints(kept)) => KeyHeld(kept, Endpoints(kept), p) \in entered[p] \cup {Unset}
               /\ Serving(p) => cfg.key \in entered[p] \cup {Unset}
    <3>1. KeysSound(kept, entered, p) /\ (cfg.prov = p => cfg.key \in entered[p] \cup {Unset})
      BY <2>1, WhenIdle
    <3>2. KeyHeld(kept, Endpoints(kept), p) \in entered[p] \cup {Unset}
      BY <1>1, <3>1, ReadsHeld, HeldEntered
    <3>3. kept.creds[p].src \in Sources
      BY <1>1 DEF KeptRec
    <3> QED BY <3>1, <3>2, <3>3 DEF KeysSound, Tidy, Serving, Sources
  <2> QED BY <2>1 DEF KeysOwn
<1>4. NothingLeft
  <2>1. ASSUME NEW p \in deleted, p \notin torn, Project[p] = Unset
        PROVE  /\ kept.creds[p].key = Unset /\ kept.store[p] = Unset
               /\ LessOf(kept.profiles, p) = kept.profiles /\ LessOf(kept.pins, p) = kept.pins
               /\ kept.prov # p /\ cfg.prov # p
    <3>1. Gone(kept, p) /\ cfg.prov # p
      BY <2>1 DEF IInv, GoneOK
    <3>2. (\A x \in kept.profiles : x[1] # p) /\ (\A x \in kept.pins : x[1] # p)
      BY <3>1 DEF Gone
    <3>3. LessOf(kept.profiles, p) = kept.profiles /\ LessOf(kept.pins, p) = kept.pins
      BY <3>2, LessSame
    <3> QED BY <3>1, <3>3 DEF Gone
  <2> QED BY <2>1 DEF NothingLeft
<1> QED BY <1>2, <1>3, <1>4 DEF InUseTrue

\* Between any two steps of a dialog, whatever failed and wherever the process ended, what is kept
\* of every provider but the torn ones fits together (the writes of endpoints_save_one,
\* endpoints_set_key, use_model and endpoints_delete, in their order).
THEOREM ProvidersWhole == ProvSpec => []IInv
<1>1. ProvInit => IInv
  BY InitKeeps
<1>2. IInv /\ [ProvNext]_provVars => IInv'
  BY NextKeeps, StutterKeeps
<1> QED BY <1>1, <1>2, PTL DEF ProvSpec

\* What is in use is what a start would find; a provider's key is one that was given to it, in one
\* place; and of a deleted provider nothing is left (use_model, edit_endpoint, delete_endpoint).
THEOREM InUse == ProvSpec => []InUseTrue
<1>1. IInv => InUseTrue
  BY InvInUse
<1> QED BY <1>1, ProvidersWhole, PTL

=============================================================================
