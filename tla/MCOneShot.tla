------------------------------ MODULE MCOneShot ------------------------------
EXTENDS OneShot

\* A device of mutual trust, or which types the PIN; one that scans the QR code, or picks the sender.
Each == [d \in Devices |-> IF d \in Trusted THEN {"hello", "pin"} ELSE {"secret", "hello", "wanted"}]
=============================================================================
