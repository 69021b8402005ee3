------------------------------ MODULE Messages ------------------------------
(***************************************************************************)
(* The messages and services of src/frontend/protos/demo.ts, which the     *)
(* frontend uses for every call to a backend.  The file repeats six        *)
(* functions for each message (encode, decode, fromJSON, toJSON, create    *)
(* and fromPartial) and a table of methods for each service.  All six are  *)
(* determined by the fields of the message, as module Codec models them;   *)
(* this module holds the fields: name, number, kind and whether repeated.  *)
(* The number and the kind make the tag that encode writes and decode      *)
(* compares with.                                                          *)
(***************************************************************************)

One(number, kind)  == [number |-> number, kind |-> kind, repeated |-> FALSE]
Many(number, kind) == [number |-> number, kind |-> kind, repeated |-> TRUE]

-----------------------------------------------------------------------------
(* The messages, in the order of the file.                                 *)

CartItem == [productId |-> One(1, "string"), quantity |-> One(2, "int32")]
AddItemRequest == [userId |-> One(1, "string"), item |-> One(2, "CartItem")]
EmptyCartRequest == [userId |-> One(1, "string")]
GetCartRequest == [userId |-> One(1, "string")]
Cart == [userId |-> One(1, "string"), items |-> Many(2, "CartItem")]
Empty == <<>>
ListRecommendationsRequest ==
  [userId |-> One(1, "string"), productIds |-> Many(2, "string")]
ListRecommendationsResponse == [productIds |-> Many(1, "string")]
Product ==
  [id |-> One(1, "string"), name |-> One(2, "string"),
   description |-> One(3, "string"), picture |-> One(4, "string"),
   priceUsd |-> One(5, "Money"), categories |-> Many(6, "string")]
ListProductsResponse == [products |-> Many(1, "Product")]
GetProductRequest == [id |-> One(1, "string")]
SearchProductsRequest == [query |-> One(1, "string")]
SearchProductsResponse == [results |-> Many(1, "Product")]
ProductReview ==
  [username |-> One(1, "string"), description |-> One(2, "string"),
   score |-> One(3, "string")]
GetProductReviewsRequest == [productId |-> One(1, "string")]
GetProductReviewsResponse == [productReviews |-> Many(1, "ProductReview")]
GetAverageProductReviewScoreRequest == [productId |-> One(1, "string")]
GetAverageProductReviewScoreResponse == [averageScore |-> One(1, "string")]
AskProductAIAssistantRequest ==
  [productId |-> One(1, "string"), question |-> One(2, "string")]
AskProductAIAssistantResponse == [response |-> One(1, "string")]
GetQuoteRequest ==
  [address |-> One(1, "Address"), items |-> Many(2, "CartItem")]
GetQuoteResponse == [costUsd |-> One(1, "Money")]
ShipOrderRequest ==
  [address |-> One(1, "Address"), items |-> Many(2, "CartItem")]
ShipOrderResponse == [trackingId |-> One(1, "string")]
Address ==
  [streetAddress |-> One(1, "string"), city |-> One(2, "string"),
   state |-> One(3, "string"), country |-> One(4, "string"),
   zipCode |-> One(5, "string")]
Money ==
  [currencyCode |-> One(1, "string"), units |-> One(2, "int64"),
   nanos |-> One(3, "int32")]
GetSupportedCurrenciesResponse == [currencyCodes |-> Many(1, "string")]
CurrencyConversionRequest ==
  [from |-> One(1, "Money"), toCode |-> One(2, "string")]
CreditCardInfo ==
  [creditCardNumber |-> One(1, "string"), creditCardCvv |-> One(2, "int32"),
   creditCardExpirationYear |-> One(3, "int32"),
   creditCardExpirationMonth |-> One(4, "int32")]
ChargeRequest ==
  [amount |-> One(1, "Money"), creditCard |-> One(2, "CreditCardInfo")]
ChargeResponse == [transactionId |-> One(1, "string")]
OrderItem == [item |-> One(1, "CartItem"), cost |-> One(2, "Money")]
OrderResult ==
  [orderId |-> One(1, "string"), shippingTrackingId |-> One(2, "string"),
   shippingCost |-> One(3, "Money"), shippingAddress |-> One(4, "Address"),
   items |-> Many(5, "OrderItem")]
SendOrderConfirmationRequest ==
  [email |-> One(1, "string"), order |-> One(2, "OrderResult")]
PlaceOrderRequest ==
  [userId |-> One(1, "string"), userCurrency |-> One(2, "string"),
   address |-> One(3, "Address"), email |-> One(5, "string"),
   creditCard |-> One(6, "CreditCardInfo")]
PlaceOrderResponse == [order |-> One(1, "OrderResult")]
AdRequest == [contextKeys |-> Many(1, "string")]
AdResponse == [ads |-> Many(1, "Ad")]
Ad == [redirectUrl |-> One(1, "string"), text |-> One(2, "string")]
Flag ==
  [name |-> One(1, "string"), description |-> One(2, "string"),
   enabled |-> One(3, "bool")]
GetFlagRequest == [name |-> One(1, "string")]
GetFlagResponse == [flag |-> One(1, "Flag")]
CreateFlagRequest ==
  [name |-> One(1, "string"), description |-> One(2, "string"),
   enabled |-> One(3, "bool")]
CreateFlagResponse == [flag |-> One(1, "Flag")]
UpdateFlagRequest == [name |-> One(1, "string"), enabled |-> One(2, "bool")]
UpdateFlagResponse == <<>>
ListFlagsRequest == <<>>
ListFlagsResponse == [flag |-> Many(1, "Flag")]
DeleteFlagRequest == [name |-> One(1, "string")]
DeleteFlagResponse == <<>>

FieldTables ==
  [CartItem |-> CartItem, AddItemRequest |-> AddItemRequest,
   EmptyCartRequest |-> EmptyCartRequest, GetCartRequest |-> GetCartRequest,
   Cart |-> Cart, Empty |-> Empty,
   ListRecommendationsRequest |-> ListRecommendationsRequest,
   ListRecommendationsResponse |-> ListRecommendationsResponse,
   Product |-> Product, ListProductsResponse |-> ListProductsResponse,
   GetProductRequest |-> GetProductRequest,
   SearchProductsRequest |-> SearchProductsRequest,
   SearchProductsResponse |-> SearchProductsResponse,
   ProductReview |-> ProductReview,
   GetProductReviewsRequest |-> GetProductReviewsRequest,
   GetProductReviewsResponse |-> GetProductReviewsResponse,
   GetAverageProductReviewScoreRequest |-> GetAverageProductReviewScoreRequest,
   GetAverageProductReviewScoreResponse |-> GetAverageProductReviewScoreResponse,
   AskProductAIAssistantRequest |-> AskProductAIAssistantRequest,
   AskProductAIAssistantResponse |-> AskProductAIAssistantResponse,
   GetQuoteRequest |-> GetQuoteRequest, GetQuoteResponse |-> GetQuoteResponse,
   ShipOrderRequest |-> ShipOrderRequest,
   ShipOrderResponse |-> ShipOrderResponse, Address |-> Address,
   Money |-> Money,
   GetSupportedCurrenciesResponse |-> GetSupportedCurrenciesResponse,
   CurrencyConversionRequest |-> CurrencyConversionRequest,
   CreditCardInfo |-> CreditCardInfo, ChargeRequest |-> ChargeRequest,
   ChargeResponse |-> ChargeResponse, OrderItem |-> OrderItem,
   OrderResult |-> OrderResult,
   SendOrderConfirmationRequest |-> SendOrderConfirmationRequest,
   PlaceOrderRequest |-> PlaceOrderRequest,
   PlaceOrderResponse |-> PlaceOrderResponse, AdRequest |-> AdRequest,
   AdResponse |-> AdResponse, Ad |-> Ad, Flag |-> Flag,
   GetFlagRequest |-> GetFlagRequest, GetFlagResponse |-> GetFlagResponse,
   CreateFlagRequest |-> CreateFlagRequest,
   CreateFlagResponse |-> CreateFlagResponse,
   UpdateFlagRequest |-> UpdateFlagRequest,
   UpdateFlagResponse |-> UpdateFlagResponse,
   ListFlagsRequest |-> ListFlagsRequest,
   ListFlagsResponse |-> ListFlagsResponse,
   DeleteFlagRequest |-> DeleteFlagRequest,
   DeleteFlagResponse |-> DeleteFlagResponse]

-----------------------------------------------------------------------------
(* The services: what each method sends and what it is answered.           *)

Unary(request, response) == [request |-> request, response |-> response]

CartService ==
  [addItem |-> Unary("AddItemRequest", "Empty"),
   getCart |-> Unary("GetCartRequest", "Cart"),
   emptyCart |-> Unary("EmptyCartRequest", "Empty")]
RecommendationService ==
  [listRecommendations |->
     Unary("ListRecommendationsRequest", "ListRecommendationsResponse")]
ProductCatalogService ==
  [listProducts |-> Unary("Empty", "ListProductsResponse"),
   getProduct |-> Unary("GetProductRequest", "Product"),
   searchProducts |-> Unary("SearchProductsRequest", "SearchProductsResponse")]
ProductReviewService ==
  [getProductReviews |->
     Unary("GetProductReviewsRequest", "GetProductReviewsResponse"),
   getAverageProductReviewScore |->
     Unary("GetAverageProductReviewScoreRequest",
           "GetAverageProductReviewScoreResponse"),
   askProductAiAssistant |->
     Unary("AskProductAIAssistantRequest", "AskProductAIAssistantResponse")]
ShippingService ==
  [getQuote |-> Unary("GetQuoteRequest", "GetQuoteResponse"),
   shipOrder |-> Unary("ShipOrderRequest", "ShipOrderResponse")]
CurrencyService ==
  [getSupportedCurrencies |-> Unary("Empty", "GetSupportedCurrenciesResponse"),
   convert |-> Unary("CurrencyConversionRequest", "Money")]
PaymentService ==
  [charge |-> Unary("ChargeRequest", "ChargeResponse")]
EmailService ==
  [sendOrderConfirmation |-> Unary("SendOrderConfirmationRequest", "Empty")]
CheckoutService ==
  [placeOrder |-> Unary("PlaceOrderRequest", "PlaceOrderResponse")]
AdService ==
  [getAds |-> Unary("AdRequest", "AdResponse")]
FeatureFlagService ==
  [getFlag |-> Unary("GetFlagRequest", "GetFlagResponse"),
   createFlag |-> Unary("CreateFlagRequest", "CreateFlagResponse"),
   updateFlag |-> Unary("UpdateFlagRequest", "UpdateFlagResponse"),
   listFlags |-> Unary("ListFlagsRequest", "ListFlagsResponse"),
   deleteFlag |-> Unary("DeleteFlagRequest", "DeleteFlagResponse")]

Services ==
  {CartService, RecommendationService, ProductCatalogService,
   ProductReviewService, ShippingService, CurrencyService, PaymentService,
   EmailService, CheckoutService, AdService, FeatureFlagService}

Methods == UNION {{service[m] : m \in DOMAIN service} : service \in Services}

(* What the clients of these services send, and what they receive: the     *)
(* messages the methods name and those within them, which nest three deep. *)
Children(type) ==
  {FieldTables[type][f].kind : f \in DOMAIN FieldTables[type]} \cap DOMAIN FieldTables
Nested(types) == types \cup UNION {Children(t) : t \in types}

Sent == Nested(Nested(Nested({m.request : m \in Methods})))
Received == Nested(Nested(Nested({m.response : m \in Methods})))
=============================================================================
