-------------------------- MODULE RememberMeProofs --------------------------
(***************************************************************************)
(* Proofs about RememberMe for any numbers of threads, browsers, users,    *)
(* series and tokens.  The argument: a series is given to one browser, and *)
(* what circulates of it (the cookie held, the cookies in requests and     *)
(* responses under way) stays with that browser; only its requests write   *)
(* the series' token.  So a browser with one request at a time always      *)
(* holds the row's token, is about to receive it, or has a series that has *)
(* been removed; and a removed series is never written again.              *)
(***************************************************************************)
EXTENDS RememberMe, TLAPS

Of(c, s) == c \in Cookies /\ c[1] = s

\* Browser b holds, has sent or may be about to receive a cookie of series s.
Mentions(b, s) ==
    \/ Of(cookie[b], s)
    \/ \E t \in Threads :
        pc[t] # "idle" /\ browser[t] = b /\ (Of(presented[t], s) \/ Of(reply[t], s))

\* A series in circulation exists, and belongs to one browser.
Holding ==
    \A s \in Series : \A b \in Browsers : Mentions(b, s) =>
        life[s] # "new" /\ \A c \in Browsers : Mentions(c, s) => c = b

\* What holds of one thread, by what it is about to do.
ThreadInv(t) ==
    /\ pc[t] \in {"get", "update", "flush", "load"} => presented[t] \in Cookies
    /\ pc[t] \in {"create", "session"} => presented[t] = NoCookie
    /\ pc[t] \in {"create", "get", "remove"} => user[t] \in Users
    /\ pc[t] \in {"update", "flush", "load"} => current[t]
    /\ pc[t] # "idle" /\ Current(life, token, presented[t]) => current[t]
    /\ pc[t] \in {"flush", "load"} => Of(reply[t], presented[t][1])
    /\ pc[t] \notin {"idle", "respond"} => answer[t] = "pending"
    /\ answer[t] = "accepted" /\ presented[t] # NoCookie => current[t]
    /\ \A s \in before[t] : life[s] # "new" /\ username[s] = user[t]
    /\ pc[t] = "session" \/ answer[t] \in {"loggedOut", "theft"} =>
        \A s \in before[t] : life[s] = "removed"

\* Presenting cookie c is safe.
Sound(c) == c \in Cookies => life[c[1]] # "present" \/ token[c[1]] = c[2]

\* What holds of the request of a patient browser.
PatientThread(t) == browser[t] \in Patient =>
    /\ answer[t] # "theft"
    /\ pc[t] = "remove" => presented[t] = NoCookie
    /\ pc[t] \in {"get", "update", "flush"} => presented[t] = cookie[browser[t]]
    /\ pc[t] \in {"create", "get", "update", "flush", "remove", "session"} =>
        Sound(cookie[browser[t]])
    /\ pc[t] = "load" => Sound(reply[t])
    /\ pc[t] = "respond" =>
        Sound(IF reply[t] = Unchanged THEN cookie[browser[t]] ELSE reply[t])

\* A patient browser has one request under way, or none and a sound cookie.
PatientBrowser(b) == b \in Patient =>
    /\ \A t, u \in Threads :
        pc[t] # "idle" /\ pc[u] # "idle" /\ browser[t] = b /\ browser[u] = b => t = u
    /\ (\A t \in Threads : browser[t] = b => pc[t] = "idle") => Sound(cookie[b])

IInv ==
    /\ TypeOK
    /\ Holding
    /\ \A t \in Threads : ThreadInv(t) /\ PatientThread(t)
    /\ \A b \in Browsers : PatientBrowser(b)

----------------------------------------------------------------------------
(* What a step of a request of browser b does to the rows, to the history  *)
(* of the other requests, and to the rest of them.                         *)

\* Rows are never un-removed, keep their users, and only b's are written.
Rows(b) ==
    \A s \in Series :
        /\ life[s] # "new" => life'[s] # "new" /\ username'[s] = username[s]
        /\ life[s] = "removed" => life'[s] = "removed"
        /\ life'[s] = "present" /\ ~(life[s] = "present" /\ token'[s] = token[s]) =>
            life[s] = "new" \/ Mentions(b, s)

Noted(t) ==
    \A u \in Threads \ {t} :
        /\ current[u] => current'[u]
        /\ pc[u] # "idle" /\ Current(life', token', presented[u]) => current'[u]

Others(t) ==
    \A u \in Threads \ {t} :
        /\ pc'[u] = pc[u] /\ browser'[u] = browser[u] /\ user'[u] = user[u]
        /\ presented'[u] = presented[u] /\ reply'[u] = reply[u]
        /\ answer'[u] = answer[u] /\ before'[u] = before[u]

SoundAfter(c) == c \in Cookies => life'[c[1]] # "present" \/ token'[c[1]] = c[2]

LEMMA InitInv == Init => IInv
<1> SUFFICES ASSUME Init PROVE IInv
  OBVIOUS
<1>1. TypeOK
  BY DEF Init, TypeOK, Held, Answers
<1>2. \A b \in Browsers, s \in Series : ~Mentions(b, s)
  BY RememberMeAssumption DEF Init, Mentions, Of
<1>3. Holding
  BY <1>2 DEF Holding
<1>4. \A t \in Threads : ThreadInv(t) /\ PatientThread(t)
  BY DEF Init, ThreadInv, PatientThread
<1>5. \A b \in Browsers : PatientBrowser(b)
  BY RememberMeAssumption DEF Init, PatientBrowser, Sound
<1> QED BY <1>1, <1>3, <1>4, <1>5 DEF IInv

\* The cookies of another browser stay sound.
LEMMA SoundStays ==
  ASSUME TypeOK, Holding, NEW b \in Browsers, NEW c \in Browsers, c # b, Rows(b),
         NEW k, k \in Cookies => Mentions(c, k[1]), Sound(k)
  PROVE  SoundAfter(k)
<1> SUFFICES ASSUME k \in Cookies, life'[k[1]] = "present" PROVE token'[k[1]] = k[2]
  BY DEF SoundAfter
<1>1. k[1] \in Series
  BY DEF Cookies
<1>2. life[k[1]] # "new" /\ ~Mentions(b, k[1])
  BY <1>1 DEF Holding
<1>3. life[k[1]] = "present" /\ token'[k[1]] = token[k[1]]
  BY <1>1, <1>2 DEF Rows
<1> QED BY <1>3 DEF Sound

\* A new mention is one of a series that has just been made.
LEMMA HoldingStays ==
  ASSUME Holding, NEW b \in Browsers, Rows(b),
         \A c \in Browsers, s \in Series : Mentions(c, s)' =>
            Mentions(c, s) \/ (c = b /\ life[s] = "new" /\ life'[s] # "new")
  PROVE  Holding'
<1> SUFFICES ASSUME NEW s \in Series, NEW c \in Browsers, Mentions(c, s)'
             PROVE  life'[s] # "new" /\ \A d \in Browsers : Mentions(d, s)' => d = c
  BY DEF Holding
<1>1. CASE life[s] = "new"
  BY <1>1 DEF Holding
<1>2. CASE life[s] # "new"
  BY <1>2 DEF Holding, Rows
<1> QED BY <1>1, <1>2

\* The other requests: those of a patient browser are of another browser.
LEMMA OtherThread ==
  ASSUME IInv, NEW t \in Threads, NEW b \in Browsers, NEW u \in Threads, u # t,
         Others(t), Noted(t), Rows(b),
         \A c \in Browsers \ {b} : cookie'[c] = cookie[c],
         browser[u] \in Patient /\ pc[u] # "idle" => browser[u] # b
  PROVE  ThreadInv(u)' /\ PatientThread(u)'
<1>0. /\ pc'[u] = pc[u] /\ browser'[u] = browser[u] /\ user'[u] = user[u]
      /\ presented'[u] = presented[u] /\ reply'[u] = reply[u]
      /\ answer'[u] = answer[u] /\ before'[u] = before[u]
      /\ current[u] => current'[u]
      /\ pc[u] # "idle" /\ Current(life', token', presented[u]) => current'[u]
  BY DEF Others, Noted
<1>1. ThreadInv(u) /\ PatientThread(u) /\ before[u] \subseteq Series /\ browser[u] \in Browsers
  BY DEF IInv, TypeOK
<1>2. ThreadInv(u)'
  <2>1. \A s \in before[u] : life'[s] # "new" /\ username'[s] = user[u]
    BY <1>1 DEF ThreadInv, Rows
  <2>2. pc[u] = "session" \/ answer[u] \in {"loggedOut", "theft"} =>
            \A s \in before[u] : life'[s] = "removed"
    BY <1>1 DEF ThreadInv, Rows
  <2> QED BY <1>0, <1>1, <2>1, <2>2 DEF ThreadInv, Of
<1>3. PatientThread(u)'
  <2> SUFFICES ASSUME browser[u] \in Patient, pc[u] # "idle" PROVE PatientThread(u)'
    BY <1>0, <1>1 DEF PatientThread
  <2>1. browser[u] # b /\ cookie'[browser[u]] = cookie[browser[u]]
    BY <1>1
  <2>2. \A k : k \in {cookie[browser[u]], reply[u]} /\ k \in Cookies => Mentions(browser[u], k[1])
    BY DEF Mentions, Of
  <2>3. \A k \in {cookie[browser[u]], reply[u]} : Sound(k) => SoundAfter(k)
    BY <1>1, <2>1, <2>2, SoundStays DEF IInv
  <2> QED BY <1>0, <1>1, <2>1, <2>3 DEF PatientThread, Sound, SoundAfter
<1> QED BY <1>2, <1>3

\* A request that goes on.
LEMMA Continues ==
  ASSUME IInv, NEW t \in Threads, pc[t] # "idle", pc'[t] # "idle",
         cookie' = cookie, UNCHANGED <<request, before>>,
         Others(t), Noted(t), Rows(browser[t]), TypeOK',
         \A s \in Series : Of(reply'[t], s) =>
            Mentions(browser[t], s) \/ (life[s] = "new" /\ life'[s] # "new"),
         ThreadInv(t)', PatientThread(t)'
  PROVE  IInv'
<1>0. /\ browser' = browser /\ presented' = presented /\ browser[t] \in Browsers
      /\ browser \in [Threads -> Browsers]
  BY DEF request, IInv, TypeOK
<1>1. Holding'
  <2>1. ASSUME NEW c \in Browsers, NEW s \in Series, Mentions(c, s)'
        PROVE  Mentions(c, s) \/ (c = browser[t] /\ life[s] = "new" /\ life'[s] # "new")
    <3>1. CASE Of(cookie'[c], s)
      BY <3>1 DEF Mentions
    <3>2. ASSUME NEW u \in Threads, pc'[u] # "idle", browser'[u] = c,
                 Of(presented'[u], s) \/ Of(reply'[u], s)
          PROVE  Mentions(c, s) \/ (c = browser[t] /\ life[s] = "new" /\ life'[s] # "new")
      BY <1>0, <3>2 DEF Mentions, Others
    <3> QED BY <2>1, <3>1, <3>2 DEF Mentions, Of
  <2> QED BY <1>0, <2>1, HoldingStays DEF IInv
<1>2. ASSUME NEW u \in Threads PROVE ThreadInv(u)' /\ PatientThread(u)'
  <2>1. browser[u] \in Patient /\ pc[u] # "idle" /\ u # t => browser[u] # browser[t]
    BY <1>0 DEF IInv, PatientBrowser
  <2> QED BY <1>0, <2>1, OtherThread
<1>3. ASSUME NEW b \in Browsers PROVE PatientBrowser(b)'
  <2>1. PatientBrowser(b)
    BY DEF IInv
  <2>2. \A u \in Threads : pc'[u] # "idle" <=> pc[u] # "idle"
    BY DEF Others
  <2>3. CASE b = browser[t]
    BY <1>0, <2>1, <2>2, <2>3 DEF PatientBrowser
  <2>4. CASE b # browser[t]
    <3>1. cookie[b] \in Cookies => Mentions(b, cookie[b][1])
      BY DEF Mentions, Of
    <3>2. Sound(cookie[b]) => SoundAfter(cookie[b])
      BY <1>0, <2>4, <3>1, SoundStays DEF IInv
    <3> QED BY <1>0, <2>1, <2>2, <3>2 DEF PatientBrowser, Sound, SoundAfter
  <2> QED BY <2>3, <2>4
<1> QED BY <1>1, <1>2, <1>3 DEF IInv
----------------------------------------------------------------------------
(* The steps of a request, one lemma for each. *)

\* A step that leaves the rows and the history alone.
LEMMA Quiet ==
  ASSUME IInv, NEW t \in Threads, NEW b \in Browsers, UNCHANGED <<table, history>>
  PROVE  Noted(t) /\ Rows(b)
<1>1. life' = life /\ username' = username /\ token' = token /\ current' = current
  BY DEF table, history
<1>2. \A u \in Threads : pc[u] # "idle" /\ Current(life, token, presented[u]) => current[u]
  BY DEF IInv, ThreadInv
<1>3. Noted(t)
  BY <1>1, <1>2 DEF Noted
<1>4. Rows(b)
  BY <1>1 DEF Rows
<1> QED BY <1>3, <1>4

\* A step that writes them.
LEMMA Stores ==
  ASSUME IInv, NEW t \in Threads, NEW lf, NEW tk, Store(lf, tk)
  PROVE  /\ Noted(t)
         /\ current' \in [Threads -> BOOLEAN]
         /\ current[t] => current'[t]
         /\ pc[t] # "idle" /\ Current(life', token', presented[t]) => current'[t]
<1>1. life' = lf /\ token' = tk
  BY DEF Store
<1>2. current' = [u \in Threads |->
            current[u] \/ (pc[u] # "idle" /\ Current(lf, tk, presented[u]))]
  BY DEF Store
<1>3. current \in [Threads -> BOOLEAN]
  BY DEF IInv, TypeOK
<1>4. \A u \in Threads : current'[u] \in BOOLEAN
  BY <1>2, <1>3 DEF Current
<1> QED BY <1>1, <1>2, <1>3, <1>4 DEF Noted

LEMMA RespondType ==
  ASSUME TypeOK, NEW t \in Threads, NEW a \in Answers, NEW c \in Held \cup {Unchanged},
         Respond(t, a, c)
  PROVE  /\ pc' \in [Threads -> {"idle", "create", "get", "remove", "update", "flush", "load",
                                 "session", "respond"}]
         /\ answer' \in [Threads -> Answers]
         /\ reply' \in [Threads -> Held \cup {Unchanged}]
         /\ pc'[t] = "respond" /\ answer'[t] = a /\ reply'[t] = c
         /\ \A u \in Threads \ {t} :
                pc'[u] = pc[u] /\ answer'[u] = answer[u] /\ reply'[u] = reply[u]
  BY DEF TypeOK, Respond, Goto

LEMMA GotoType ==
  ASSUME TypeOK, NEW t \in Threads,
         NEW c \in {"idle", "create", "get", "remove", "update", "flush", "load",
                    "session", "respond"},
         Goto(t, c)
  PROVE  /\ pc' \in [Threads -> {"idle", "create", "get", "remove", "update", "flush", "load",
                                 "session", "respond"}]
         /\ pc'[t] = c
         /\ \A u \in Threads \ {t} : pc'[u] = pc[u]
  BY DEF TypeOK, Goto

\* A response that leaves the rows alone.
LEMMA QuietResponse ==
  ASSUME IInv, NEW t \in Threads, NEW a \in Answers \ {"theft", "loggedOut"},
         NEW c \in Held \cup {Unchanged}, pc[t] # "idle",
         Respond(t, a, c), cookie' = cookie, who' \in [Browsers -> Users \cup {NoUser}],
         UNCHANGED <<table, request, history>>,
         a = "accepted" /\ presented[t] # NoCookie => current[t],
         \A s \in Series : Of(c, s) => Mentions(browser[t], s),
         browser[t] \in Patient =>
            IF c = Unchanged THEN Sound(cookie[browser[t]]) ELSE Sound(c)
  PROVE  IInv'
<1>0. /\ life' = life /\ username' = username /\ token' = token
      /\ browser' = browser /\ user' = user /\ presented' = presented
      /\ current' = current /\ before' = before
  BY DEF table, request, history
<1>1. Noted(t) /\ Rows(browser[t])
  BY Quiet DEF IInv, TypeOK
<1>2. TypeOK'
  BY <1>0, RespondType DEF IInv, TypeOK
<1>3. Others(t)
  BY <1>0, RespondType DEF IInv, Others
<1>4. pc'[t] = "respond" /\ answer'[t] = a /\ reply'[t] = c
  BY RespondType DEF IInv
<1>5. ThreadInv(t)
  BY DEF IInv
<1>6. ThreadInv(t)'
  BY <1>0, <1>4, <1>5 DEF ThreadInv
<1>7. PatientThread(t)'
  BY <1>0, <1>4 DEF PatientThread, Sound
<1> QED BY <1>0, <1>1, <1>2, <1>3, <1>4, <1>6, <1>7, Continues

\* A patient request that has not been answered: its browser's cookie is sound.
LEMMA PatientHolds ==
  ASSUME IInv, NEW t \in Threads, browser[t] \in Patient,
         pc[t] \in {"create", "get", "update", "flush", "remove", "session"}
  PROVE  Sound(cookie[browser[t]])
  BY DEF IInv, PatientThread

LEMMA NoCookieFacts ==
  /\ Sound(NoCookie) /\ \A s \in Series : ~Of(NoCookie, s)
  /\ Sound(Unchanged) /\ \A s \in Series : ~Of(Unchanged, s)
  /\ NoCookie # Unchanged
  BY RememberMeAssumption DEF Sound, Of

LEMMA CreateNewTokenStep ==
  ASSUME IInv, NEW t \in Threads, CreateNewToken(t)
  PROVE  IInv'
<1>0. /\ pc[t] = "create" /\ presented[t] = NoCookie /\ user[t] \in Users
      /\ UNCHANGED <<holders, request, before>> /\ ThreadInv(t)
      /\ cookie' = cookie /\ who' = who
  BY DEF CreateNewToken, IInv, ThreadInv, holders
<1>1. ASSUME NEW s \in Series, NEW k \in Tokens, NEW saved \in {"present", "removed"},
             life[s] = "new", Store([life EXCEPT ![s] = saved], [token EXCEPT ![s] = k]),
             username' = [username EXCEPT ![s] = user[t]],
             Respond(t, "accepted", <<s, k>>)
      PROVE  IInv'
  <2>0. /\ life' = [life EXCEPT ![s] = saved] /\ token' = [token EXCEPT ![s] = k]
        /\ life \in [Series -> {"new", "present", "removed"}] /\ token \in [Series -> Tokens]
        /\ username \in [Series -> Users \cup {NoUser}]
        /\ browser' = browser /\ user' = user /\ presented' = presented /\ before' = before
        /\ <<s, k>> \in Held /\ <<s, k>> \in Cookies
        /\ browser[t] \in Browsers
    BY <1>0, <1>1 DEF Store, IInv, TypeOK, request, Held, Cookies
  <2>1. Noted(t) /\ current' \in [Threads -> BOOLEAN] /\ (current[t] => current'[t])
    BY <1>1, Stores
  <2>2. Rows(browser[t])
    BY <1>1, <2>0 DEF Rows
  <2>3. /\ pc'[t] = "respond" /\ answer'[t] = "accepted" /\ reply'[t] = <<s, k>>
        /\ TypeOK
    BY <1>1, <2>0, RespondType DEF IInv, Answers
  <2>4. Others(t)
    BY <1>1, <2>0, RespondType DEF IInv, Others, Answers
  <2>5. TypeOK'
    <3>1. life' \in [Series -> {"new", "present", "removed"}] /\ token' \in [Series -> Tokens]
      BY <2>0
    <3>2. username' \in [Series -> Users \cup {NoUser}]
      BY <1>0, <1>1, <2>0
    <3>3. \A r \in Series : life'[r] = "new" <=> username'[r] = NoUser
      BY <1>0, <1>1, <2>0, RememberMeAssumption DEF IInv, TypeOK
    <3> QED BY <1>0, <1>1, <2>0, <2>1, <3>1, <3>2, <3>3, RespondType DEF IInv, TypeOK, Answers
  <2>6. ThreadInv(t)'
    <3>1. ~Current(life', token', NoCookie)
      BY RememberMeAssumption DEF Current
    <3>2. before[t] \subseteq Series /\ \A r \in before[t] : life[r] # "new" /\ username[r] = user[t]
      BY <1>0 DEF ThreadInv, IInv, TypeOK
    <3>3. \A r \in before[t] : life'[r] # "new" /\ username'[r] = user[t]
      BY <1>1, <2>0, <3>2
    <3> QED BY <1>0, <2>0, <2>3, <3>1, <3>3 DEF ThreadInv
  <2>7. PatientThread(t)'
    <3>1. SoundAfter(<<s, k>>) /\ <<s, k>> # Unchanged
      BY <2>0, RememberMeAssumption DEF SoundAfter
    <3> QED BY <2>0, <2>3, <3>1 DEF PatientThread, Sound, SoundAfter
  <2>8. \A r \in Series : Of(reply'[t], r) => life[r] = "new" /\ life'[r] # "new"
    BY <1>1, <2>0, <2>3 DEF Of
  <2> QED BY <1>0, <2>0, <2>1, <2>2, <2>3, <2>4, <2>5, <2>6, <2>7, <2>8, Continues
<1>2. CASE Respond(t, "accepted", Unchanged) /\ UNCHANGED <<table, current>>
  <2>1. UNCHANGED <<table, request, history>> /\ who' \in [Browsers -> Users \cup {NoUser}]
    BY <1>0, <1>2 DEF history, IInv, TypeOK
  <2> QED BY <1>0, <1>2, <2>1, QuietResponse, PatientHolds, NoCookieFacts DEF Answers
<1> QED BY <1>0, <1>1, <1>2 DEF CreateNewToken

\* A step of an automatic login towards its end, with the cookie to come.
LEMMA QuietGoto ==
  ASSUME IInv, NEW t \in Threads, NEW c \in {"remove", "update", "flush", "load"},
         pc[t] \in {"get", "update"}, Goto(t, c),
         UNCHANGED <<table, holders, request, answer, history>>,
         reply' \in [Threads -> Held \cup {Unchanged}],
         \A u \in Threads \ {t} : reply'[u] = reply[u],
         Of(reply'[t], presented[t][1]) \/ reply' = reply,
         IF c = "remove" THEN pc[t] = "get" ELSE current[t],
         c \in {"flush", "load"} => Of(reply'[t], presented[t][1]),
         browser[t] \in Patient => c # "remove" /\ (c = "load" => Sound(reply'[t]))
  PROVE  IInv'
<1>0. /\ life' = life /\ username' = username /\ token' = token /\ cookie' = cookie
      /\ browser' = browser /\ user' = user /\ presented' = presented
      /\ answer' = answer /\ who' = who
      /\ current' = current /\ before' = before
  BY DEF table, request, history, holders
<1>1. Noted(t) /\ Rows(browser[t])
  BY Quiet DEF IInv, TypeOK
<1>2. /\ ThreadInv(t) /\ PatientThread(t) /\ presented[t] \in Cookies
      /\ pc'[t] = c /\ answer[t] = "pending"
  BY GotoType DEF IInv, ThreadInv
<1>3. TypeOK'
  BY <1>0, GotoType DEF IInv, TypeOK
<1>4. Others(t)
  BY <1>0, GotoType DEF IInv, Others
<1>5. user[t] \in Users \/ c # "remove"
  BY <1>2 DEF ThreadInv
<1>6. ThreadInv(t)'
  BY <1>0, <1>2, <1>5 DEF ThreadInv, Of
<1>7. PatientThread(t)'
  BY <1>0, <1>2 DEF PatientThread, Sound
<1>8. \A s \in Series : Of(reply'[t], s) => Mentions(browser[t], s)
  BY <1>2 DEF Mentions, Of
<1> QED BY <1>0, <1>1, <1>2, <1>3, <1>4, <1>6, <1>7, <1>8, Continues

\* The cookie presented is one the browser may have sent: the series is its own.
LEMMA PresentedFacts ==
  ASSUME IInv, NEW t \in Threads, pc[t] \in {"get", "update", "flush", "load"}
  PROVE  /\ presented[t] \in Cookies /\ presented[t][1] \in Series /\ presented[t][2] \in Tokens
         /\ presented[t] # NoCookie
         /\ presented[t] = <<presented[t][1], presented[t][2]>>
         /\ browser[t] \in Browsers
         /\ Mentions(browser[t], presented[t][1])
         /\ life[presented[t][1]] # "new"
<1>1. presented[t] \in Cookies /\ browser[t] \in Browsers
  BY DEF IInv, ThreadInv, TypeOK
<1>2. presented[t][1] \in Series /\ presented[t][2] \in Tokens
      /\ presented[t] = <<presented[t][1], presented[t][2]>>
  BY <1>1 DEF Cookies
<1>3. Mentions(browser[t], presented[t][1])
  BY <1>1 DEF Mentions, Of
<1> QED BY <1>1, <1>2, <1>3, RememberMeAssumption DEF IInv, Holding

LEMMA GetTokenForSeriesStep ==
  ASSUME IInv, NEW t \in Threads, GetTokenForSeries(t)
  PROVE  IInv'
<1> DEFINE s == presented[t][1]
           found == life[s] = "present"
           same == token[s] = presented[t][2]
<1>0. /\ pc[t] = "get" /\ UNCHANGED <<table, holders, request, history>>
      /\ cookie' = cookie /\ who' = who
      /\ who' \in [Browsers -> Users \cup {NoUser}]
      /\ reply \in [Threads -> Held \cup {Unchanged}]
  BY DEF GetTokenForSeries, holders, IInv, TypeOK
<1>1. CASE Respond(t, "refused", NoCookie)
  BY <1>0, <1>1, QuietResponse, NoCookieFacts DEF Answers, Held
<1>2. CASE found /\ ~same /\ Goto(t, "remove") /\ UNCHANGED <<reply, answer>>
  <2>1. browser[t] \notin Patient
    <3>1. ASSUME browser[t] \in Patient PROVE presented[t] = cookie[browser[t]]
      BY <1>0, <3>1 DEF IInv, PatientThread
    <3>2. ASSUME browser[t] \in Patient PROVE Sound(cookie[browser[t]])
      BY <1>0, <3>2, PatientHolds
    <3> QED BY <1>0, <1>2, <3>1, <3>2, PresentedFacts DEF Sound
  <2> QED BY <1>0, <1>2, <2>1, QuietGoto
<1>3. CASE found /\ same /\ Goto(t, "update") /\ UNCHANGED <<reply, answer>>
  <2>1. current[t]
    <3>1. Current(life, token, presented[t])
      BY <1>0, <1>3, PresentedFacts DEF Current
    <3> QED BY <1>0, <3>1 DEF IInv, ThreadInv
  <2> QED BY <1>0, <1>3, <2>1, QuietGoto
<1>4. CASE Respond(t, "error", Unchanged)
  BY <1>0, <1>4, QuietResponse, PatientHolds, NoCookieFacts DEF Answers
<1> QED BY <1>1, <1>2, <1>3, <1>4 DEF GetTokenForSeries

LEMMA UpdateTokenStep ==
  ASSUME IInv, NEW t \in Threads, UpdateToken(t)
  PROVE  IInv'
<1>0. /\ pc[t] = "update" /\ UNCHANGED <<table, holders, request, history>>
      /\ cookie' = cookie /\ who' = who
      /\ who' \in [Browsers -> Users \cup {NoUser}]
      /\ reply \in [Threads -> Held \cup {Unchanged}]
      /\ current[t]
  BY DEF UpdateToken, holders, IInv, TypeOK, ThreadInv
<1>1. ASSUME NEW k \in Tokens, NEW c \in {"flush", "load"},
             c = "load" => presented[t][1] \notin Present,
             reply' = [reply EXCEPT ![t] = <<presented[t][1], k>>],
             Goto(t, c), UNCHANGED answer
      PROVE  IInv'
  <2>1. <<presented[t][1], k>> \in Cookies
    BY <1>0, <1>1, PresentedFacts DEF Cookies
  <2>2. /\ reply'[t] = <<presented[t][1], k>>
        /\ reply' \in [Threads -> Held \cup {Unchanged}]
        /\ \A u \in Threads \ {t} : reply'[u] = reply[u]
    BY <1>0, <1>1, <2>1 DEF Held
  <2>3. Of(reply'[t], presented[t][1])
    BY <2>1, <2>2 DEF Of
  <2>4. c = "load" => Sound(reply'[t])
    BY <1>0, <1>1, <2>2, PresentedFacts DEF Sound, Present
  <2> QED BY <1>0, <1>1, <2>2, <2>3, <2>4, QuietGoto
<1>2. CASE Respond(t, "refused", NoCookie)
  BY <1>0, <1>2, QuietResponse, NoCookieFacts DEF Answers, Held
<1> QED BY <1>1, <1>2 DEF UpdateToken

LEMMA LoadUserStep ==
  ASSUME IInv, NEW t \in Threads, LoadUser(t)
  PROVE  IInv'
<1>0. /\ pc[t] = "load" /\ UNCHANGED <<table, holders, request, history>>
      /\ cookie' = cookie /\ who' = who
      /\ who' \in [Browsers -> Users \cup {NoUser}]
      /\ reply[t] \in Held \cup {Unchanged}
      /\ Of(reply[t], presented[t][1]) /\ current[t]
  BY DEF LoadUser, holders, IInv, TypeOK, ThreadInv
<1>1. reply[t] # Unchanged /\ (browser[t] \in Patient => Sound(reply[t]))
  BY <1>0, NoCookieFacts, PresentedFacts DEF IInv, PatientThread
<1>2. \A s \in Series : Of(reply[t], s) => Mentions(browser[t], s)
  BY <1>0 DEF Mentions
<1>3. CASE Respond(t, "refused", NoCookie)
  BY <1>0, <1>3, QuietResponse, NoCookieFacts DEF Answers, Held
<1>4. CASE Respond(t, "accepted", reply[t]) \/ Respond(t, "error", reply[t])
  BY <1>0, <1>1, <1>2, <1>4, QuietResponse DEF Answers
<1> QED BY <1>3, <1>4 DEF LoadUser

LEMMA FlushTokenStep ==
  ASSUME IInv, NEW t \in Threads, FlushToken(t)
  PROVE  IInv'
<1> DEFINE s == presented[t][1]
<1>0. /\ pc[t] = "flush" /\ UNCHANGED <<username, holders, request, before>>
      /\ cookie' = cookie /\ who' = who
      /\ browser' = browser /\ user' = user /\ presented' = presented /\ before' = before
      /\ ThreadInv(t) /\ PatientThread(t) /\ Of(reply[t], s) /\ current[t]
  BY DEF FlushToken, holders, request, IInv, ThreadInv
<1>1. CASE s \in Present /\ Store(life, [token EXCEPT ![s] = reply[t][2]]) /\ Goto(t, "load")
           /\ UNCHANGED <<reply, answer>>
  <2>0. /\ life' = life /\ token' = [token EXCEPT ![s] = reply[t][2]] /\ s \in Series
        /\ token \in [Series -> Tokens] /\ reply[t][2] \in Tokens /\ reply[t][1] = s
        /\ username' = username
    BY <1>0, <1>1, PresentedFacts DEF Store, IInv, TypeOK, Of, Cookies
  <2>1. Noted(t) /\ current' \in [Threads -> BOOLEAN] /\ (current[t] => current'[t])
    BY <1>1, Stores
  <2>2. Rows(browser[t])
    BY <1>0, <2>0, PresentedFacts DEF Rows
  <2>3. pc'[t] = "load" /\ reply' = reply /\ answer' = answer
    BY <1>1, GotoType DEF IInv
  <2>4. Others(t)
    BY <1>0, <1>1, GotoType DEF IInv, Others
  <2>5. token' \in [Series -> Tokens]
    BY <2>0
  <2>6. TypeOK'
    BY <1>0, <1>1, <2>0, <2>1, <2>5, GotoType DEF IInv, TypeOK
  <2>7. ThreadInv(t)'
    BY <1>0, <2>0, <2>1, <2>3 DEF ThreadInv, Of
  <2>8. PatientThread(t)'
    BY <1>0, <2>0, <2>3 DEF PatientThread, Sound
  <2>9. \A r \in Series : Of(reply'[t], r) => Mentions(browser[t], r)
    BY <1>0, <2>3 DEF Mentions
  <2> QED BY <1>0, <2>1, <2>2, <2>3, <2>4, <2>6, <2>7, <2>8, <2>9, Continues
<1>2. CASE Respond(t, "refused", NoCookie) /\ UNCHANGED <<life, token, current>>
  <2>1. UNCHANGED <<table, request, history>> /\ who' \in [Browsers -> Users \cup {NoUser}]
    BY <1>0, <1>2 DEF history, table, IInv, TypeOK
  <2> QED BY <1>0, <1>2, <2>1, QuietResponse, NoCookieFacts DEF Answers, Held
<1> QED BY <1>1, <1>2 DEF FlushToken

LEMMA RemoveUserTokensStep ==
  ASSUME IInv, NEW t \in Threads, RemoveUserTokens(t)
  PROVE  IInv'
<1>0. /\ pc[t] = "remove" /\ UNCHANGED <<username, holders, request, before>>
      /\ cookie' = cookie /\ who' = who /\ username' = username
      /\ browser' = browser /\ user' = user /\ presented' = presented /\ before' = before
      /\ ThreadInv(t) /\ PatientThread(t) /\ user[t] \in Users /\ user[t] # NoUser
      /\ answer[t] = "pending"
  BY RememberMeAssumption DEF RemoveUserTokens, holders, request, IInv, ThreadInv
<1>1. ASSUME NEW lf, lf = [s \in Series |-> IF username[s] = user[t] THEN "removed" ELSE life[s]],
             Store(lf, token),
             \/ presented[t] = NoCookie /\ Goto(t, "session") /\ UNCHANGED <<reply, answer>>
             \/ presented[t] # NoCookie /\ Respond(t, "theft", NoCookie)
      PROVE  IInv'
  <2>0. /\ life' = lf /\ token' = token
        /\ life \in [Series -> {"new", "present", "removed"}]
        /\ before[t] \subseteq Series
    BY <1>1 DEF Store, IInv, TypeOK
  <2>1. /\ Noted(t) /\ current' \in [Threads -> BOOLEAN] /\ (current[t] => current'[t])
        /\ Current(life', token', presented[t]) => current'[t]
    BY <1>0, <1>1, Stores
  <2>2. Rows(browser[t])
    BY <1>0, <1>1, <2>0 DEF Rows
  <2>3. \/ presented[t] = NoCookie /\ pc'[t] = "session" /\ reply' = reply /\ answer' = answer
        \/ /\ presented[t] # NoCookie /\ pc'[t] = "respond" /\ reply'[t] = NoCookie
           /\ answer'[t] = "theft"
    BY <1>1, GotoType, RespondType DEF IInv, Answers, Held
  <2>4. Others(t)
    BY <1>0, <1>1, GotoType, RespondType DEF IInv, Others, Answers, Held
  <2>5. life' \in [Series -> {"new", "present", "removed"}]
    BY <1>1, <2>0
  <2>6. \A r \in Series : life'[r] = "new" <=> username'[r] = NoUser
    BY <1>0, <1>1, <2>0 DEF IInv, TypeOK
  <2>7. /\ pc' \in [Threads -> {"idle", "create", "get", "remove", "update", "flush", "load",
                                "session", "respond"}]
        /\ answer' \in [Threads -> Answers]
        /\ reply' \in [Threads -> Held \cup {Unchanged}]
    <3>1. TypeOK
      BY DEF IInv
    <3>2. CASE Goto(t, "session") /\ UNCHANGED <<reply, answer>>
      BY <3>1, <3>2, GotoType DEF TypeOK
    <3>3. CASE Respond(t, "theft", NoCookie)
      BY <3>1, <3>3, RespondType DEF Answers, Held
    <3> QED BY <1>1, <3>2, <3>3
  <2>8. TypeOK'
    BY <1>0, <2>0, <2>1, <2>5, <2>6, <2>7 DEF IInv, TypeOK
  <2>9. ThreadInv(t)'
    <3>1. \A r \in before[t] : life'[r] = "removed" /\ username[r] = user[t]
      BY <1>0, <1>1, <2>0 DEF ThreadInv
    <3> QED BY <1>0, <2>0, <2>1, <2>3, <3>1 DEF ThreadInv
  <2>10. PatientThread(t)'
    <3>1. ASSUME browser[t] \in Patient PROVE SoundAfter(cookie[browser[t]])
      <4>1. Sound(cookie[browser[t]])
        BY <1>0, <3>1, PatientHolds
      <4>2. ASSUME cookie[browser[t]] \in Cookies PROVE cookie[browser[t]][1] \in Series
        BY <4>2 DEF Cookies
      <4> QED BY <1>1, <2>0, <4>1, <4>2 DEF Sound, SoundAfter
    <3> QED BY <1>0, <2>3, <3>1 DEF PatientThread, Sound, SoundAfter
  <2>11. \A r \in Series : Of(reply'[t], r) => Mentions(browser[t], r)
    BY <1>0, <2>3, NoCookieFacts DEF Mentions
  <2> QED BY <1>0, <2>1, <2>2, <2>3, <2>4, <2>8, <2>9, <2>10, <2>11, Continues
<1>2. ASSUME NEW c \in {NoCookie, Unchanged}, Respond(t, "error", c),
             UNCHANGED <<life, token, current>>
      PROVE  IInv'
  <2>1. UNCHANGED <<table, request, history>> /\ who' \in [Browsers -> Users \cup {NoUser}]
    BY <1>0, <1>2 DEF history, table, IInv, TypeOK
  <2> QED BY <1>0, <1>2, <2>1, QuietResponse, PatientHolds, NoCookieFacts DEF Answers, Held
<1> QED BY <1>1, <1>2 DEF RemoveUserTokens

LEMMA SecurityContextLogoutStep ==
  ASSUME IInv, NEW t \in Threads, SecurityContextLogout(t)
  PROVE  IInv'
<1>0. /\ pc[t] = "session" /\ UNCHANGED <<table, cookie, request, history>>
      /\ cookie' = cookie
      /\ life' = life /\ username' = username /\ token' = token
      /\ browser' = browser /\ user' = user /\ presented' = presented
      /\ current' = current /\ before' = before
      /\ who' = [who EXCEPT ![browser[t]] = NoUser]
      /\ Respond(t, "loggedOut", NoCookie)
  BY DEF SecurityContextLogout, table, request, history
<1>1. Noted(t) /\ Rows(browser[t])
  BY <1>0, Quiet DEF IInv, TypeOK
<1>2. TypeOK'
  BY <1>0, RespondType DEF IInv, TypeOK, Answers, Held
<1>3. Others(t)
  BY <1>0, RespondType DEF IInv, Others, Answers, Held
<1>4. pc'[t] = "respond" /\ answer'[t] = "loggedOut" /\ reply'[t] = NoCookie
  BY <1>0, RespondType DEF IInv, Answers, Held
<1>5. ThreadInv(t)'
  BY <1>0, <1>4 DEF IInv, ThreadInv
<1>6. PatientThread(t)'
  BY <1>0, <1>4, NoCookieFacts DEF PatientThread, Sound
<1>7. \A r \in Series : ~Of(reply'[t], r)
  BY <1>4, NoCookieFacts
<1> QED BY <1>0, <1>1, <1>2, <1>3, <1>4, <1>5, <1>6, <1>7, Continues

\* A request that ends: the browser has the response, or has lost it.
LEMMA Ends ==
  ASSUME IInv, NEW t \in Threads, pc[t] = "respond", Goto(t, "idle"), TypeOK',
         UNCHANGED <<table, request, reply, answer, history>>,
         \A c \in Browsers \ {browser[t]} : cookie'[c] = cookie[c],
         \A s \in Series : Of(cookie'[browser[t]], s) => Mentions(browser[t], s),
         browser[t] \in Patient => Sound(cookie'[browser[t]])
  PROVE  IInv'
<1>0. /\ life' = life /\ username' = username /\ token' = token
      /\ browser' = browser /\ user' = user /\ presented' = presented
      /\ reply' = reply /\ answer' = answer /\ current' = current /\ before' = before
      /\ browser[t] \in Browsers
  BY DEF table, request, history, IInv, TypeOK
<1>1. Noted(t) /\ Rows(browser[t])
  BY <1>0, Quiet
<1>2. /\ pc'[t] = "idle" /\ \A u \in Threads \ {t} : pc'[u] = pc[u]
      /\ Others(t)
  BY <1>0, GotoType DEF IInv, Others
<1>3. Holding'
  <2>1. ASSUME NEW c \in Browsers, NEW s \in Series, Mentions(c, s)'
        PROVE  Mentions(c, s)
    <3>1. CASE Of(cookie'[c], s)
      BY <3>1 DEF Mentions
    <3>2. ASSUME NEW u \in Threads, pc'[u] # "idle", browser[u] = c,
                 Of(presented[u], s) \/ Of(reply[u], s)
          PROVE  Mentions(c, s)
      BY <1>2, <3>2 DEF Mentions
    <3> QED BY <1>0, <2>1, <3>1, <3>2 DEF Mentions, Of
  <2> QED BY <1>0, <1>1, <2>1, HoldingStays DEF IInv
<1>4. ASSUME NEW u \in Threads PROVE ThreadInv(u)' /\ PatientThread(u)'
  <2>1. CASE u = t
    BY <1>0, <1>2, <2>1 DEF IInv, ThreadInv, PatientThread
  <2>2. browser[u] \in Patient /\ pc[u] # "idle" /\ u # t => browser[u] # browser[t]
    BY <1>0 DEF IInv, PatientBrowser
  <2> QED BY <1>0, <1>1, <1>2, <2>1, <2>2, OtherThread
<1>5. ASSUME NEW b \in Browsers PROVE PatientBrowser(b)'
  <2>1. PatientBrowser(b)
    BY DEF IInv
  <2>2. CASE b = browser[t]
    BY <1>0, <1>2, <2>1, <2>2 DEF PatientBrowser, Sound
  <2>3. CASE b # browser[t]
    BY <1>0, <1>2, <2>1, <2>3 DEF PatientBrowser, Sound
  <2> QED BY <2>2, <2>3
<1> QED BY <1>3, <1>4, <1>5 DEF IInv

LEMMA ReceiveStep ==
  ASSUME IInv, NEW t \in Threads, Receive(t)
  PROVE  IInv'
<1> DEFINE b == browser[t]
           c == IF reply[t] = Unchanged THEN cookie[b] ELSE reply[t]
<1>0. /\ pc[t] = "respond" /\ Goto(t, "idle")
      /\ UNCHANGED <<table, request, reply, answer, history>>
      /\ life' = life /\ username' = username /\ token' = token
      /\ browser' = browser /\ user' = user /\ presented' = presented
      /\ reply' = reply /\ answer' = answer /\ current' = current /\ before' = before
      /\ cookie' = [cookie EXCEPT ![b] = c]
      /\ who' = [who EXCEPT ![b] = IF answer[t] = "accepted" THEN user[t] ELSE @]
  BY DEF Receive, table, request, history
<1>1. /\ b \in Browsers /\ c \in Held /\ cookie \in [Browsers -> Held]
      /\ who \in [Browsers -> Users \cup {NoUser}] /\ user[t] \in Users \cup {NoUser}
  BY DEF IInv, TypeOK
<1>2. cookie' \in [Browsers -> Held] /\ who' \in [Browsers -> Users \cup {NoUser}]
  BY <1>0, <1>1
<1>3. TypeOK'
  BY <1>0, <1>2, GotoType DEF IInv, TypeOK
<1>4. cookie'[b] = c /\ \A d \in Browsers \ {b} : cookie'[d] = cookie[d]
  BY <1>0, <1>1
<1>5. \A s \in Series : Of(c, s) => Mentions(b, s)
  BY <1>0 DEF Mentions
<1>6. b \in Patient => Sound(c)
  BY <1>0 DEF IInv, PatientThread
<1> QED BY <1>0, <1>3, <1>4, <1>5, <1>6, Ends

LEMMA LoseStep ==
  ASSUME IInv, NEW t \in Threads, Lose(t)
  PROVE  IInv'
<1>0. /\ pc[t] = "respond" /\ Goto(t, "idle") /\ browser[t] \notin Patient
      /\ UNCHANGED <<table, request, reply, answer, history>>
      /\ life' = life /\ username' = username /\ token' = token
      /\ browser' = browser /\ user' = user /\ presented' = presented
      /\ reply' = reply /\ answer' = answer /\ current' = current /\ before' = before
      /\ cookie' = cookie /\ who' = who
  BY DEF Lose, table, request, history, holders
<1>1. TypeOK'
  BY <1>0, GotoType DEF IInv, TypeOK
<1>2. \A s \in Series : Of(cookie'[browser[t]], s) => Mentions(browser[t], s)
  BY <1>0 DEF Mentions
<1> QED BY <1>0, <1>1, <1>2, Ends

\* A request that begins.
LEMMA Begins ==
  ASSUME IInv, NEW t \in Threads, NEW b \in Browsers, NEW u \in Users,
         NEW call \in {"create", "get", "remove"}, NEW c \in Held,
         IF call = "get" THEN c = cookie[b] /\ c # NoCookie ELSE c = NoCookie,
         Begin(t, b, u, c, call)
  PROVE  IInv'
<1>0. /\ life' = life /\ username' = username /\ token' = token
      /\ cookie' = cookie /\ who' = who /\ pc[t] = "idle" /\ Ready(b)
      /\ browser' = [browser EXCEPT ![t] = b] /\ user' = [user EXCEPT ![t] = u]
      /\ presented' = [presented EXCEPT ![t] = c] /\ reply' = [reply EXCEPT ![t] = Unchanged]
      /\ answer' = [answer EXCEPT ![t] = "pending"] /\ Goto(t, call)
      /\ current' = [current EXCEPT ![t] = Current(life, token, c)]
      /\ before' = [before EXCEPT ![t] = {s \in Present : username[s] = u}]
  BY DEF Begin, table, holders
<1>1. TypeOK
  BY DEF IInv
<1>2. /\ pc'[t] = call /\ browser'[t] = b /\ user'[t] = u /\ presented'[t] = c
      /\ reply'[t] = Unchanged /\ answer'[t] = "pending"
      /\ current'[t] = Current(life, token, c)
      /\ before'[t] = {s \in Present : username[s] = u}
  BY <1>0, <1>1, GotoType DEF TypeOK
<1>3. Others(t) /\ \A v \in Threads \ {t} : current'[v] = current[v]
  BY <1>0, <1>1, GotoType DEF TypeOK, Others
<1>4. Noted(t)
  BY <1>0, <1>3 DEF IInv, ThreadInv, Noted
<1>5. Rows(b)
  BY <1>0 DEF Rows
<1>6. TypeOK'
  <2>1. Current(life, token, c) \in BOOLEAN /\ {s \in Present : username[s] = u} \subseteq Series
    BY DEF Current, Present
  <2>2. /\ pc' \in [Threads -> {"idle", "create", "get", "remove", "update", "flush", "load",
                                "session", "respond"}]
        /\ browser' \in [Threads -> Browsers] /\ user' \in [Threads -> Users \cup {NoUser}]
        /\ presented' \in [Threads -> Held] /\ reply' \in [Threads -> Held \cup {Unchanged}]
        /\ answer' \in [Threads -> Answers]
    BY <1>0, <1>1, GotoType DEF TypeOK, Answers
  <2>3. current' \in [Threads -> BOOLEAN] /\ before' \in [Threads -> SUBSET Series]
    BY <1>0, <1>1, <2>1 DEF TypeOK
  <2> QED BY <1>0, <1>1, <2>2, <2>3 DEF TypeOK
<1>7. Holding'
  <2>1. ASSUME NEW d \in Browsers, NEW s \in Series, Mentions(d, s)'
        PROVE  Mentions(d, s)
    <3>1. CASE Of(cookie[d], s)
      BY <3>1 DEF Mentions
    <3>2. ASSUME NEW v \in Threads, pc'[v] # "idle", browser'[v] = d,
                 Of(presented'[v], s) \/ Of(reply'[v], s)
          PROVE  Mentions(d, s)
      <4>1. CASE v = t
        BY <1>2, <3>2, <4>1, NoCookieFacts DEF Mentions
      <4>2. CASE v # t
        BY <1>3, <3>2, <4>2 DEF Mentions, Others
      <4> QED BY <4>1, <4>2
    <3> QED BY <1>0, <2>1, <3>1, <3>2 DEF Mentions, Of
  <2> QED BY <1>5, <2>1, HoldingStays DEF IInv
<1>8. b \in Patient => Sound(cookie[b]) /\ \A v \in Threads : pc[v] # "idle" => browser[v] # b
  BY <1>0 DEF Ready, IInv, PatientBrowser
<1>9. ASSUME NEW v \in Threads PROVE ThreadInv(v)' /\ PatientThread(v)'
  <2>1. CASE v = t
    <3>1. ThreadInv(t)'
      <4>1. call = "get" => c \in Cookies
        BY DEF Held
      <4>2. \A s \in before'[t] : life[s] # "new" /\ username[s] = u
        BY <1>2 DEF Present
      <4> QED BY <1>0, <1>2, <4>1, <4>2 DEF ThreadInv
    <3>2. PatientThread(t)'
      BY <1>0, <1>2, <1>8 DEF PatientThread, Sound
    <3> QED BY <2>1, <3>1, <3>2
  <2>2. CASE v # t
    BY <1>0, <1>3, <1>4, <1>5, <1>8, <2>2, OtherThread
  <2> QED BY <2>1, <2>2
<1>10. ASSUME NEW d \in Browsers PROVE PatientBrowser(d)'
  <2>1. PatientBrowser(d)
    BY DEF IInv
  <2>2. \A v \in Threads \ {t} : pc'[v] = pc[v] /\ browser'[v] = browser[v]
    BY <1>3 DEF Others
  <2>3. CASE d = b
    BY <1>2, <1>8, <2>2, <2>3 DEF PatientBrowser
  <2>4. CASE d # b
    BY <1>0, <1>2, <2>1, <2>2, <2>4 DEF PatientBrowser, Sound
  <2> QED BY <2>3, <2>4
<1> QED BY <1>6, <1>7, <1>9, <1>10 DEF IInv

LEMMA BeginStep ==
  ASSUME IInv, NEW t \in Threads, BeginLogin(t) \/ BeginAutoLogin(t) \/ BeginLogout(t)
  PROVE  IInv'
<1>1. CASE BeginLogin(t)
  BY <1>1, Begins DEF BeginLogin, Held
<1>2. CASE BeginAutoLogin(t)
  <2>1. PICK b \in Browsers : cookie[b] # NoCookie /\ Begin(t, b, username[cookie[b][1]], cookie[b], "get")
    BY <1>2 DEF BeginAutoLogin
  <2>2. cookie[b] \in Held /\ cookie[b] \in Cookies
    BY <2>1 DEF IInv, TypeOK, Held
  <2>3. cookie[b][1] \in Series /\ Mentions(b, cookie[b][1])
    BY <2>2 DEF Cookies, Mentions, Of
  <2>4. username[cookie[b][1]] \in Users
    BY <2>3 DEF IInv, Holding, TypeOK
  <2> QED BY <2>1, <2>2, <2>4, Begins
<1>3. CASE BeginLogout(t)
  BY <1>3, Begins DEF BeginLogout, Held, IInv, TypeOK
<1> QED BY <1>1, <1>2, <1>3

LEMMA SessionTimeoutStep ==
  ASSUME IInv, NEW b \in Browsers, SessionTimeout(b)
  PROVE  IInv'
<1>1. /\ UNCHANGED <<life, username, token, cookie, pc, browser, user, presented, reply>>
      /\ UNCHANGED <<answer, current, before>>
      /\ who' = [who EXCEPT ![b] = NoUser]
  BY DEF SessionTimeout, table, request, history
<1>2. TypeOK'
  BY <1>1 DEF IInv, TypeOK
<1>3. Holding'
  BY <1>1 DEF IInv, Holding, Mentions, Of
<1>4. ASSUME NEW t \in Threads PROVE ThreadInv(t)' /\ PatientThread(t)'
  <2>1. ThreadInv(t) /\ PatientThread(t)
    BY DEF IInv
  <2>2. ThreadInv(t)'
    BY <1>1, <2>1 DEF ThreadInv, Current, Of
  <2>3. PatientThread(t)'
    BY <1>1, <2>1 DEF PatientThread, Sound
  <2> QED BY <2>2, <2>3
<1>5. ASSUME NEW d \in Browsers PROVE PatientBrowser(d)'
  BY <1>1 DEF IInv, PatientBrowser, Sound
<1> QED BY <1>2, <1>3, <1>4, <1>5 DEF IInv

LEMMA StutterStep ==
  ASSUME IInv, UNCHANGED vars
  PROVE  IInv'
<1>1. /\ UNCHANGED <<life, username, token, cookie, who, pc, browser, user, presented>>
      /\ UNCHANGED <<reply, answer, current, before>>
  BY DEF vars, table, holders, request, history
<1>2. TypeOK' /\ Holding'
  BY <1>1 DEF IInv, TypeOK, Holding, Mentions, Of
<1>3. ASSUME NEW t \in Threads PROVE ThreadInv(t)' /\ PatientThread(t)'
  <2>1. ThreadInv(t) /\ PatientThread(t)
    BY DEF IInv
  <2>2. ThreadInv(t)'
    BY <1>1, <2>1 DEF ThreadInv, Current, Of
  <2>3. PatientThread(t)'
    BY <1>1, <2>1 DEF PatientThread, Sound
  <2> QED BY <2>2, <2>3
<1>4. ASSUME NEW d \in Browsers PROVE PatientBrowser(d)'
  BY <1>1 DEF IInv, PatientBrowser, Sound
<1> QED BY <1>2, <1>3, <1>4 DEF IInv

----------------------------------------------------------------------------
(* Theorems. *)

\* The inductive invariant holds of every behaviour of requests, responses and
\* browsers.
THEOREM Invariance == Spec => []IInv
<1>1. ASSUME IInv, [Next]_vars PROVE IInv'
  <2>1. ASSUME NEW t \in Threads, Serve(t) PROVE IInv'
    BY <1>1, <2>1, BeginStep, CreateNewTokenStep, GetTokenForSeriesStep, UpdateTokenStep,
       FlushTokenStep, LoadUserStep, RemoveUserTokensStep, SecurityContextLogoutStep,
       ReceiveStep, LoseStep DEF Serve
  <2>2. ASSUME NEW b \in Browsers, SessionTimeout(b) PROVE IInv'
    BY <1>1, <2>2, SessionTimeoutStep
  <2> QED BY <1>1, <2>1, <2>2, StutterStep DEF Next
<1> QED BY InitInv, <1>1, PTL DEF Spec

\* TypeOK: rows, cookies and requests stay in their domains, and a row has a
\* user exactly from its creation on.
THEOREM TypeCorrect == Spec => []TypeOK
<1>1. IInv => TypeOK
  BY DEF IInv
<1> QED BY Invariance, <1>1, PTL

\* AutoLoginsAreAtomic: reading a row, comparing and updating it later lets no
\* cookie in that was not the row's at some moment of the request.
THEOREM AtomicAutoLogins == Spec => []AutoLoginsAreAtomic
<1>1. IInv => AutoLoginsAreAtomic
  BY DEF IInv, ThreadInv, AutoLoginsAreAtomic
<1> QED BY Invariance, <1>1, PTL

\* PatientIsNoThief: failures and the user's other browsers never make the
\* repository's token differ from the one that a patient browser presents.
THEOREM PatienceIsSafe == Spec => []PatientIsNoThief
<1>1. IInv => PatientIsNoThief
  BY DEF IInv, PatientThread, PatientIsNoThief
<1> QED BY Invariance, <1>1, PTL

\* RevocationIsFinal: what a logout or the report of a theft has removed is not
\* written again by an automatic login that had read it.
THEOREM FinalRevocation == Spec => []RevocationIsFinal
<1>1. IInv => RevocationIsFinal
  BY DEF IInv, ThreadInv, RevocationIsFinal
<1> QED BY Invariance, <1>1, PTL
=============================================================================
