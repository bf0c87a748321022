--------------------------- MODULE MCScanHistory ----------------------------
(* Constants of ScanHistory for TLC: four moments of a machine, and scans    *)
(* made during one or two of them.                                           *)
EXTENDS ScanHistory, TLC

P(name, user, status) == [name |-> name, exe |-> "/" \o name, user |-> user, status |-> status]
S(file, port, inode) == [file |-> file, port |-> port, inode |-> inode]
Machine(units, sockets, fds, procs, up) ==
  [units |-> units, sockets |-> sockets, fds |-> fds, procs |-> procs,
   interfaces |-> ("eth0" :> [mac |-> "m", isUp |-> up])]

\* At work; a service crashed, its process gone, and a backup has the pid and a share of
\* the shell's socket; two processes of one program, of which only the first is root's,
\* and a port whose number is already in use over tcp; a new service, port and program,
\* under a pid that had another program before.
Ssh == S(1, 22, 10)
Sshd == 1 :> P("sshd", "root", "S")
Work == Machine("db" :> <<"active", "running">>, {Ssh, S(2, 80, 20)}, <<1, 3>> :> 10 @@ <<2, 3>> :> 20,
                Sshd @@ 2 :> P("db", "app", "S"), TRUE)
Crash == Machine("db" :> <<"failed", "failed">>, {Ssh}, <<1, 3>> :> 10 @@ <<2, 3>> :> 10,
                 Sshd @@ 2 :> P("backup", "root", "S"), FALSE)
Twice == Machine("db" :> <<"active", "running">>, {Ssh, S(3, 80, 30)}, <<1, 3>> :> 10 @@ <<3, 3>> :> 30,
                 Sshd @@ 3 :> P("job", "root", "R") @@ 4 :> P("job", "app", "S"), TRUE)
More == Machine("db" :> <<"active", "exited">> @@ "web" :> <<"inactive", "dead">>,
                {Ssh, S(1, 81, 40), S(3, 53, 50)}, <<1, 3>> :> 10 @@ <<2, 3>> :> 40,
                Sshd @@ 2 :> P("web", "root", "S"), TRUE)

\* Every call at moment at, but for those that are given.
Fields(at) == [f \in Field |-> at]
R(moments, at, services, listed, links, files, pids, events) ==
  [moments |-> moments, services |-> services, interfaces |-> at, listed |-> listed,
   links |-> links, files |-> files, pids |-> pids, events |-> events]
Links(hs, at) == [i \in DOMAIN hs |-> [pid |-> hs[i][1], fd |-> hs[i][2], at |-> at]]
Pids(ps, at) == [i \in DOMAIN ps |-> [pid |-> ps[i], at |-> Fields(at)]]
Files(at) == [f \in 1..4 |-> at]
Whole(m, hs, ps, events) ==
  R(<<m>>, 1, 1, TRUE, Links(hs, 1), Files(1), Pids(ps, 1), events)
Ev(pid, name, user) == [pid |-> pid, name |-> name, user |-> user]

Two == << <<1, 3>>, <<2, 3>> >>
MCReading == {
  Whole(Work, Two, <<1, 2>>, <<>>),
  Whole(Crash, Two, <<1, 2>>, <<>>),
  Whole(Twice, << <<1, 3>>, <<3, 3>> >>, <<1, 3, 4>>, <<>>),
  Whole(Work, Two, <<1, 2>>, <<Ev(2, "db", "root"), Ev(7, "job", "root"), Ev(0, "kthread", "root")>>),
  \* links followed before, and processes read after, pid 2 was given to another program
  R(<<Work, More>>, 2, 1, TRUE, Links(Two, 1), Files(2), Pids(<<1, 2>>, 2), <<>>),
  \* and its user before, and its name and exe after
  R(<<Work, Crash>>, 2, 2, TRUE, Links(Two, 2), Files(1),
    <<[pid |-> 1, at |-> Fields(1)], [pid |-> 2, at |-> [Fields(1) EXCEPT !["user"] = 2]]>>, <<>>),
  \* an exe and a user that cannot be read, a file and a link that are skipped
  R(<<More>>, 1, Never, TRUE, <<[pid |-> 1, fd |-> 3, at |-> Never], [pid |-> 2, fd |-> 3, at |-> 1]>>,
    [Files(1) EXCEPT ![3] = Never],
    <<[pid |-> 1, at |-> [Fields(1) EXCEPT !["user"] = Never]],
      [pid |-> 2, at |-> [Fields(1) EXCEPT !["exe"] = Never]]>>, <<>>),
  \* neither directory can be listed
  R(<<Twice, More>>, Never, 2, FALSE, Links(<< <<1, 3>> >>, Never), Files(1), <<>>,
    <<Ev(7, "sshd", "root")>>)}

=============================================================================
