------------------------------ MODULE RdpLaunch ------------------------------
(* How an RDP session is launched (rdp.ts, and its callers in main.ts): the *)
(* certificate is looked at first, the person decides about one that is     *)
(* unknown or has changed, and FreeRDP is told exactly which one to accept. *)
(* FreeRDP itself is what its arguments ask of it.                          *)
EXTENDS Naturals

CONSTANTS
    Cert,           \* certificates
    Vouched,        \* those the system's authorities vouch for
    NoCert          \* none: a session of legacy RDP security has no certificate

ASSUME LaunchAssumption == Vouched \subseteq Cert /\ NoCert \notin Cert

VARIABLES
    presented,      \* what the server shows now, NoCert if it does not speak TLS
    canPin,         \* caps.certFingerprint
    savedTrust, onceTrust,  \* options.trustedCertificate, sessionTrust
    step,           \* where the connect call is
    trusted,        \* what it read before its first await
    probed,         \* the certificate the probe found, if any
    pin,            \* the decision: a certificate, or NoCert to verify
    prompt,         \* the certificate in the question, and why
    used,           \* the certificate of the session
    approved        \* history: what the person has said yes to

rdpVars == <<presented, canPin, savedTrust, onceTrust, step, trusted, probed, pin, prompt, used, approved>>

NoPrompt == [cert |-> NoCert, why |-> "none"]
OrElse(a, b) == IF a # NoCert THEN a ELSE b
-----------------------------------------------------------------------------
(* Mutant: a certificate that an authority vouches for needs no question.  *)
DecideByVouch(cert, known) ==
    IF cert = NoCert THEN [action |-> "go", pin |-> known, why |-> "none"]
    ELSE IF cert \in Vouched \/ cert = known THEN [action |-> "go", pin |-> known, why |-> "none"]
    ELSE IF known # NoCert THEN [action |-> "ask", pin |-> NoCert, why |-> "changed"]
    ELSE [action |-> "ask", pin |-> NoCert, why |-> "untrusted"]
(* decideRdpCertificate(): pin and verify are "go", with a pin or without. *)
Decide(cert, known) ==
    CASE cert \in {NoCert, known} -> [action |-> "go", pin |-> known, why |-> "none"]
      [] cert \notin {NoCert, known} /\ known # NoCert -> [action |-> "ask", pin |-> NoCert, why |-> "changed"]
      [] cert # NoCert /\ known = NoCert /\ cert \in Vouched -> [action |-> "go", pin |-> NoCert, why |-> "none"]
      [] OTHER -> [action |-> "ask", pin |-> NoCert, why |-> "untrusted"]

(* Mutant: where no certificate is pinned FreeRDP is told not to check.    *)
AcceptsUnpinned(cert) == cert # NoCert /\ pin # NoCert /\ canPin => cert = pin
(* What FreeRDP does with the arguments it is given: its checks are never  *)
(* switched off, but a server without TLS has no certificate to check.     *)
Accepts(cert) == \/ cert = NoCert
                 \/ IF pin # NoCert /\ canPin THEN cert = pin ELSE cert \in Vouched

(* buildRdpLaunch(): the arguments that depend on each other.              *)
Options == [scaling : {"fit", "fill", "none"}, monitors : {"one", "all", "some"},
            full : BOOLEAN, fixed : BOOLEAN]
Caps == [smart : BOOLEAN, multimon : BOOLEAN, select : BOOLEAN, dynamic : BOOLEAN, size : BOOLEAN]
FollowWindow(o, k) == o.scaling = "fill" /\ o.monitors = "one" /\ ~o.full /\ ~o.fixed /\ k.dynamic
(* Mutant: to follow the window is to scale to it as well.                 *)
ScalesAlways(o, k) == o.scaling # "none"
Scales(o, k) == o.scaling = "fit" \/ (o.scaling = "fill" /\ ~FollowWindow(o, k))
When(condition, a) == IF condition THEN {a} ELSE {}
Arguments(o, k) ==
    When(Scales(o, k) /\ k.smart, "smart-sizing")
    \cup When(o.full, "full")
    \cup When(o.monitors # "one" /\ k.multimon, "multimon")
    \cup When(o.monitors = "some" /\ k.multimon /\ k.select, "monitors")
    \cup When(o.monitors = "one" /\ k.size /\ (o.fixed \/ ~o.full), "size")
    \cup When(o.monitors = "one" /\ ~(o.fixed /\ k.size) /\ ~o.full /\ FollowWindow(o, k), "dynamic")
Warnings(o, k) ==
    When(Scales(o, k) /\ ~k.smart, "scaling")
    \cup When(o.monitors # "one" /\ ~k.multimon, "multimon")
    \cup When(o.monitors = "some" /\ k.multimon /\ ~k.select, "monitors")
-----------------------------------------------------------------------------
RdpInit ==
    /\ presented \in Cert \cup {NoCert} /\ canPin \in BOOLEAN
    /\ savedTrust = NoCert /\ onceTrust = NoCert /\ step = "idle" /\ trusted = NoCert
    /\ probed = NoCert /\ pin = NoCert /\ prompt = NoPrompt /\ used = NoCert /\ approved = {}

(* startRdp() before its await.                                            *)
ConnectRdp ==
    /\ step \in {"idle", "up"} /\ step' = "probing"
    /\ trusted' = OrElse(savedTrust, onceTrust)
    /\ prompt' = NoPrompt /\ used' = NoCert /\ probed' = NoCert /\ pin' = NoCert
    /\ UNCHANGED <<presented, canPin, savedTrust, onceTrust, approved>>

(* The probe answers, with a certificate or without one.                   *)
ProbeAnswers(tls) ==
    LET cert == IF tls THEN presented ELSE NoCert
        d == Decide(cert, trusted)
    IN /\ step = "probing" /\ probed' = cert
       /\ IF d.action = "ask"
          THEN step' = "asking" /\ prompt' = [cert |-> cert, why |-> d.why] /\ UNCHANGED pin
          ELSE step' = "launched" /\ pin' = d.pin /\ UNCHANGED prompt
       /\ UNCHANGED <<presented, canPin, savedTrust, onceTrust, trusted, used, approved>>

(* FreeRDP meets the certificate of that moment.                           *)
SessionStarts ==
    /\ step = "launched" /\ Accepts(presented)
    /\ step' = "up" /\ used' = presented
    /\ UNCHANGED <<presented, canPin, savedTrust, onceTrust, trusted, probed, pin, prompt, approved>>
TlsFails ==
    /\ step = "launched" /\ ~Accepts(presented) /\ step' = "explaining"
    /\ UNCHANGED <<presented, canPin, savedTrust, onceTrust, trusted, probed, pin, prompt, used, approved>>

(* explainCertificateFailure() looks again, with the pin it launched with. *)
Explain(tls) ==
    LET cert == IF tls THEN presented ELSE NoCert
        d == Decide(cert, pin)
    IN /\ step = "explaining"
       /\ IF d.action = "ask"
          THEN step' = "asking" /\ prompt' = [cert |-> cert, why |-> d.why]
          ELSE step' = "idle" /\ UNCHANGED prompt
       /\ UNCHANGED <<presented, canPin, savedTrust, onceTrust, trusted, probed, pin, used, approved>>

(* trustCertificate(), after which the window connects again.              *)
TrustAnswer(remember) ==
    /\ step = "asking" /\ step' = "idle" /\ approved' = approved \cup {prompt.cert}
    /\ IF remember THEN savedTrust' = prompt.cert /\ onceTrust' = NoCert
                   ELSE onceTrust' = prompt.cert /\ UNCHANGED savedTrust
    /\ prompt' = NoPrompt
    /\ UNCHANGED <<presented, canPin, trusted, probed, pin, used>>
Refuse ==
    /\ step = "asking" /\ step' = "idle" /\ prompt' = NoPrompt
    /\ UNCHANGED <<presented, canPin, savedTrust, onceTrust, trusted, probed, pin, used, approved>>

(* The window's "Forget".                                                  *)
ForgetCertificate ==
    /\ step \in {"idle", "up"} /\ savedTrust # NoCert /\ savedTrust' = NoCert
    /\ UNCHANGED <<presented, canPin, onceTrust, step, trusted, probed, pin, prompt, used, approved>>

(* The server is reinstalled, or another one answers.                      *)
ServerChanges(cert) ==
    /\ cert # presented /\ presented' = cert
    /\ UNCHANGED <<canPin, savedTrust, onceTrust, step, trusted, probed, pin, prompt, used, approved>>

RdpNext ==
    \/ ConnectRdp \/ SessionStarts \/ TlsFails \/ Refuse \/ ForgetCertificate
    \/ \E b \in BOOLEAN : ProbeAnswers(b) \/ Explain(b) \/ TrustAnswer(b)
    \/ \E cert \in Cert \cup {NoCert} : ServerChanges(cert)
-----------------------------------------------------------------------------
(* No session runs with a certificate that nobody vouches for, neither an  *)
(* authority nor the person, even when the server changes between the look *)
(* and the session (rdp.ts:24, :215). A session of legacy RDP security has *)
(* no certificate to answer for, and nothing is asked about it (rdp.ts:405,*)
(* :482).                                                                  *)
SessionIsVouchedFor == step = "up" => used \in Vouched \cup approved \cup {NoCert}

(* A remembered certificate is the only one: a server that shows another,  *)
(* vouched for or not, is asked about before anything is launched, as long *)
(* as the installed FreeRDP can be told (rdp.ts:489).                      *)
ChangeIsAskedAbout ==
    step = "launched" /\ trusted # NoCert =>
        pin = trusted /\ probed \in {NoCert, trusted}

(* FreeRDP is never given what it refuses together, and what was asked for *)
(* is in the arguments or in a warning (rdp.ts:229).                       *)
PlanIsHonest ==
    step = "launched" => \A o \in Options, k \in Caps :
        /\ ~({"smart-sizing", "dynamic"} \subseteq Arguments(o, k))
        /\ o.scaling # "none" =>
            {"smart-sizing", "dynamic"} \cap Arguments(o, k) # {} \/ "scaling" \in Warnings(o, k)
        /\ o.monitors # "one" =>
            "multimon" \in Arguments(o, k) \cup Warnings(o, k)
            /\ {"size", "dynamic"} \cap Arguments(o, k) = {}
        /\ o.monitors = "some" /\ k.multimon => "monitors" \in Arguments(o, k) \cup Warnings(o, k)

(* main.ts:199 promises "Certificates trusted "for this session only"": a  *)
(* certificate trusted so is not asked about again.                        *)
OnceIsEnough == step = "asking" => prompt.cert # onceTrust

(* No RDP session runs with a certificate nobody answers for, and what the *)
(* person is asked, and FreeRDP is told, is what was seen.                 *)
RdpHolds == SessionIsVouchedFor /\ ChangeIsAskedAbout /\ PlanIsHonest
=============================================================================
