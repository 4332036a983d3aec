------------------------------ MODULE Promise -------------------------------
(***************************************************************************)
(* util/process: promises (ProGoroutine).  Base promises run an executor   *)
(* whose goroutines call resolve and reject, or panic; the others are the  *)
(* ones All builds over Args: then(p) and catch(p) for each argument and   *)
(* the result.  A promise is settled by goroutines that hold its mutex;    *)
(* resolve with another promise waits for that one with the mutex held.    *)
(***************************************************************************)
EXTENDS Naturals, Sequences, SequencesExt

CONSTANTS Base,     \* promises made with New
          Script,   \* the calls of each base executor, one goroutine each:
                    \* "resolve", "reject", "panic" or <<a base promise to resolve with>>
          Args,     \* the arguments of All, a sequence of base promises
          None

Then(i) == <<"then", i>>
Catch(i) == <<"catch", i>>
All == <<"all", 0>>
Promises == {<<"base", b>> : b \in Base} \cup {All}
            \cup UNION {{Then(i), Catch(i)} : i \in DOMAIN Args}

VARIABLES
    pending, result, err,  \* result: None, a value or a sequence; err: None or who failed
    wg,                    \* 1 until the promise is settled
    mutex,                 \* its holder, a goroutine
    todo,                  \* goroutines that have not made their call, with the call
    held,                  \* goroutines that hold a mutex and wait for another promise
    resolutions, errors,   \* the channels of All
    collected              \* resolutions All has received

vars == <<pending, result, err, wg, mutex, todo, held, resolutions, errors, collected>>
promiseVars == <<pending, result, err, wg, mutex>>
allVars == <<resolutions, errors, collected>>

\* A goroutine is the promise it settles and a number.
Goroutines == {<<p, n>> : p \in Promises, n \in 1 .. 2}
Start ==
    [g \in Goroutines |->
        IF g[1][1] = "base" /\ g[2] \in DOMAIN Script[g[1][2]] THEN Script[g[1][2]][g[2]]
        ELSE IF g[1][1] # "base" /\ g[2] = 1 THEN <<"await">> ELSE <<"none">>]

Init ==
    /\ pending = [p \in Promises |-> TRUE] /\ result = [p \in Promises |-> <<>>]
    /\ err = [p \in Promises |-> None] /\ wg = [p \in Promises |-> 1]
    /\ mutex = [p \in Promises |-> <<>>] /\ todo = Start /\ held = {}
    /\ resolutions = <<>> /\ errors = <<>> /\ collected = [i \in DOMAIN Args |-> <<>>]

----------------------------------------------------------------------------
\* The end of resolve and of reject, under the mutex: nothing unless pending.
Fulfil(p, value, error) ==
    IF pending[p]
    THEN /\ pending' = [pending EXCEPT ![p] = FALSE] /\ wg' = [wg EXCEPT ![p] = @ - 1]
         /\ result' = [result EXCEPT ![p] = value] /\ err' = [err EXCEPT ![p] = error]
    ELSE UNCHANGED <<pending, wg, result, err>>

Made(g) == todo' = [todo EXCEPT ![g] = <<"none">>]
Free(p) == mutex[p] = <<>>
Failed(p) == err[p] # None
Await(p) == wg[p] = 0

\* resolve with a plain value, reject, and a panic, which handlePanic turns into reject.
resolve(g) ==
    /\ todo[g] = <<"resolve">> /\ Free(g[1]) /\ Fulfil(g[1], g, None) /\ Made(g)
    /\ UNCHANGED <<mutex, held, allVars>>
reject(g) ==
    /\ todo[g] \in {<<"reject">>, <<"panic">>} /\ Free(g[1]) /\ Fulfil(g[1], <<>>, g) /\ Made(g)
    /\ UNCHANGED <<mutex, held, allVars>>
\* resolve with a promise: nothing unless pending, else it awaits that one with the mutex.
resolvePromise(g) ==
    /\ todo[g][1] = "promise" /\ g \notin held /\ Free(g[1])
    /\ IF pending[g[1]]
       THEN mutex' = [mutex EXCEPT ![g[1]] = g] /\ held' = held \cup {g} /\ UNCHANGED todo
       ELSE Made(g) /\ UNCHANGED <<mutex, held>>
    /\ UNCHANGED <<pending, result, err, wg, allVars>>

flatten(g) ==
    LET inner == <<"base", todo[g][2]>> IN
    /\ g \in held /\ Await(inner) /\ held' = held \ {g} /\ mutex' = [mutex EXCEPT ![g[1]] = <<>>]
    /\ IF Failed(inner)
       THEN todo' = [todo EXCEPT ![g] = <<"reject">>] /\ UNCHANGED <<pending, result, err, wg>>
       ELSE Fulfil(g[1], result[inner], None) /\ Made(g)
    /\ UNCHANGED allVars

\* Then of argument i: the error is passed on; otherwise its function sends the result.
then(i) ==
    LET p == <<"base", Args[i]>>  g == <<Then(i), 1>> IN
    /\ todo[g] = <<"await">> /\ Await(p) /\ Made(g)
    /\ IF Failed(p)
       THEN Fulfil(Then(i), <<>>, err[p]) /\ UNCHANGED resolutions
       ELSE Fulfil(Then(i), result[p], None) /\ resolutions' = Append(resolutions, <<i, result[p]>>)
    /\ UNCHANGED <<mutex, held, errors, collected>>

\* Mutant: Catch does not settle its promise after an error.
catchSilent(i) ==
    LET p == Then(i)  g == <<Catch(i), 1>> IN
    /\ todo[g] = <<"await">> /\ Await(p) /\ Made(g)
    /\ Fulfil(Catch(i), result[p], err[p])
    /\ UNCHANGED <<mutex, held, resolutions, errors, collected>>

\* Catch of that: its function sends the error.
catch(i) ==
    LET p == Then(i)  g == <<Catch(i), 1>> IN
    /\ todo[g] = <<"await">> /\ Await(p) /\ Made(g)
    /\ Fulfil(Catch(i), result[p], err[p])
    /\ errors' = IF Failed(p) THEN Append(errors, err[p]) ELSE errors
    /\ UNCHANGED <<mutex, held, resolutions, collected>>

\* The executor of All: Len(Args) receptions, ended by the first error.
Received == Len(SelectSeq([i \in DOMAIN Args |-> collected[i]], LAMBDA r : r # <<>>))

Collect ==
    /\ todo[<<All, 1>>] = <<"await">> /\ resolutions # <<>>
    /\ collected' = [collected EXCEPT ![Head(resolutions)[1]] = Head(resolutions)[2]]
    /\ resolutions' = Tail(resolutions)
    /\ UNCHANGED <<promiseVars, todo, held, errors>>
AllRejects ==
    /\ todo[<<All, 1>>] = <<"await">> /\ errors # <<>> /\ Received < Len(Args)
    /\ Fulfil(All, <<>>, Head(errors)) /\ Made(<<All, 1>>) /\ errors' = Tail(errors)
    /\ UNCHANGED <<mutex, held, resolutions, collected>>
AllResolves ==
    /\ todo[<<All, 1>>] = <<"await">> /\ Received = Len(Args)
    /\ Fulfil(All, collected, None) /\ Made(<<All, 1>>)
    /\ UNCHANGED <<mutex, held, allVars>>

Step ==
    \/ \E g \in Goroutines : resolve(g) \/ reject(g) \/ resolvePromise(g) \/ flatten(g)
    \/ \E i \in DOMAIN Args : then(i) \/ catch(i)
    \/ Collect \/ AllRejects \/ AllResolves
Next == Step
Spec == Init /\ [][Next]_vars /\ WF_vars(Step)

----------------------------------------------------------------------------
TypeOK ==
    /\ pending \in [Promises -> BOOLEAN] /\ wg \in [Promises -> {0, 1}]
    /\ \A g \in held : mutex[g[1]] = g

\* A promise is settled once, whichever of its goroutines comes first: what Await returns
\* never changes, and it is a result or an error, not both.
AwaitIsFinal ==
    [][\A p \in Promises :
           wg[p] = 0 => /\ result'[p] = result[p] /\ err'[p] = err[p]
                        /\ (err[p] = None) # (result[p] = <<>>)]_vars

\* All resolves with the results of its arguments in their order, and rejects only with
\* the error of one of them.
AllCollects ==
    ~pending[All] =>
        IF Failed(All)
        THEN \E i \in DOMAIN Args : err[<<"base", Args[i]>>] = err[All]
        ELSE \A i \in DOMAIN Args : result[All][i] = result[<<"base", Args[i]>>]

\* When every argument is settled, All is: the channels have room for every sender, and
\* a goroutine that lost the race for a promise holds nothing.
AllSettles ==
    []<>(pending[All] => \E i \in DOMAIN Args : pending[<<"base", Args[i]>>])
=============================================================================
