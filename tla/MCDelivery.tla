----------------------------- MODULE MCDelivery -----------------------------
EXTENDS Delivery
Managers == {"a", "b"}
============================================================================
