--------------------------- MODULE MCDaemonThreads ---------------------------
(* The calls of each model of the daemon's threads.                         *)
EXTENDS DaemonThreads

AllMain == {"Verify", "VerifyUser", "Authenticate", "Enroll", "StartFingerEnroll",
            "ClearDevice", "DeleteEnrolledFingers", "data"}
VerifyMain == {"Verify"}
BothWorker == {"verify_user", "enroll_user"}
EnrollWorker == {"enroll_user"}
=============================================================================
