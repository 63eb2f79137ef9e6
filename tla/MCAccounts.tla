----------------------------- MODULE MCAccounts ------------------------------
EXTENDS OAuth

CONSTANTS ad, b1, u1, a1, p1, p2, k1, k2, i1, x1, x2, s1, s2, s3, w1, w2, g1, g2

User(role, totp) == [role |-> role, pw |-> w1, secret |-> k1, totp |-> totp, ver |-> 0]
Session(id, u, n) == [id |-> id, user |-> u, ver |-> 0, late |-> FALSE, expired |-> FALSE, n |-> n]
Pat(u, servers, admin) == [user |-> u, servers |-> servers, admin |-> admin, scoped |-> TRUE,
                           revoked |-> FALSE, expired |-> FALSE, ver |-> 0, late |-> FALSE]
Tables(totp) ==
    [users |-> (ad :> User("admin", FALSE) @@ b1 :> User("admin", FALSE) @@ u1 :> User("member", totp)),
     sessions |-> {Session(s1, ad, 1), Session(s2, b1, 2), Session(s3, u1, 3)},
     pats |-> (p1 :> Pat(u1, {a1}, FALSE) @@ p2 :> Nothing),
     bound |-> (x1 :> u1 @@ x2 :> Nothing), owner |-> (a1 :> u1)]
MCStored == {Tables(TRUE)}

By(op, s) == [op |-> op, by |-> s, target |-> Nothing, ip |-> i1, pw |-> Nothing, role |-> Nothing,
              code |-> Nothing, subject |-> x1, agent |-> a1, fresh |-> k2, pat |-> Nothing, k |-> 1,
              csrf |-> s, ttl |-> 1, browser |-> g1]
Code(k, n) == [secret |-> k, step |-> n]
On(op, s, x) == [By(op, s) EXCEPT !.target = x]
Coded(q, n) == [q EXCEPT !.code = Code(k1, n)]
Again(q, k) == [q EXCEPT !.k = k]
Login(w, n) == Coded([On("login", Nothing, u1) EXCEPT !.pw = w], n)
Demote(s, u) == [On("update", s, u) EXCEPT !.role = "member"]
Promote(s, u) == [On("update", s, u) EXCEPT !.role = "admin"]
Reset(s, u) == [On("update", s, u) EXCEPT !.pw = w2]
Delete(s, u) == On("delete", s, u)
Callback(s, x) == [By("callback", s) EXCEPT !.subject = x]
SignIn == By("signin", Nothing)
In(q, g) == [q EXCEPT !.browser = g]
NewPat(servers, admin) == [Coded(On("pat", s3, p2), 1) EXCEPT !.pat = [servers |-> servers, admin |-> admin, scoped |-> TRUE]]
OwnReq(op) == Coded(By(op, s3), 1)

Changes == {Demote(s1, b1), Demote(s2, ad), Promote(s1, u1), Reset(s1, u1), Delete(s1, u1), Delete(s1, b1), Demote(s2, u1)}
Uses == {Login(w1, 1), By("use", p1), By("users", s1), By("users", s3), By("bans", s2), By("pats", s3),
         By("pats", p1), By("status", s3), [OwnReq("unbind") EXCEPT !.csrf = s1],
         NewPat({a1}, FALSE), NewPat(Nothing, TRUE), [NewPat({a1}, FALSE) EXCEPT !.ttl = 2], Coded(On("unpat", s3, p1), 1), OwnReq("unbind"),
         By("logout", s2), On("unsession", s1, s3), On("unsession", s2, s2), By("list", s2), By("list", s3),
         On("expire", Nothing, p1), On("expire", Nothing, s3), On("owner", Nothing, b1), By("sweep", Nothing)}
Codes == {Login(w1, 1), Again(Login(w1, 1), 2), OwnReq("setup"), [OwnReq("enable") EXCEPT !.code = Code(k2, 1)], OwnReq("disable"),
          Coded(By("enable", s3), 2), Again(Login(w1, 2), 3), Login(w1, 9)}

MCWorkloads ==
    {{c, d} : c \in Changes, d \in Changes \cup Uses}
    \cup {{c, d, e} : c \in Changes \cup {On("expire", Nothing, s3), On("owner", Nothing, b1)}, d \in Uses, e \in {Login(w1, 1)}}
    \cup {{c, d, e} : c \in Codes, d \in Codes, e \in {Login(w1, 1), By("tick", Nothing)}}
    \cup {{Login(w2, 1), Again(Login(w2, 1), 2), Again(Login(w2, 1), 3), c} :
            c \in {On("ban", s1, i1), On("unban", s1, i1), By("use", p2), Again(Callback(Nothing, x2), 2), By("bans", s1)}}
    \cup {{By("tick", Nothing), Again(By("tick", Nothing), 2), Again(By("tick", Nothing), 3), Login(w1, 1), Again(Login(w1, 1), 2)}}
    \cup {{Login(w1, 9), Again(Login(w1, 9), 2), Again(Login(w1, 9), 3)}}
    \cup {{SignIn, Callback(Nothing, x), c} : x \in Subjects, c \in Changes \cup {On("unban", s1, i1), By("tick", Nothing), OwnReq("unbind")}}
    \cup {{OwnReq("bind"), Callback(s3, x), c} : x \in Subjects, c \in Changes \cup {By("logout", s3), OwnReq("unbind"), By("bindings", s3)}}
    \cup {{OwnReq("bind"), In(SignIn, g2), In(Callback(s, x2), g), c} : s \in {s1, s3, Nothing}, g \in Browsers,
             c \in {SignIn, Callback(s3, x1), In(OwnReq("bind"), g2)}}
    \cup {{[On("seed", Nothing, u1) EXCEPT !.pw = w1], c, d} : c \in {Delete(s2, u1)}, d \in {Login(w1, 1), Demote(s1, b1)}}
    \cup {{[On("user", s1, u1) EXCEPT !.role = "member", !.pw = w1], Delete(s2, u1), Login(w1, 1)}}
=============================================================================
